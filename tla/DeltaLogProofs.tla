--------------------------- MODULE DeltaLogProofs ---------------------------
(***************************************************************************)
(* The delta log for every number of responses, conversations, payloads,   *)
(* outputs and any batch size: the counters the triggers keep are exact, so *)
(* what the jobs remove is what nothing stored refers to; every stored     *)
(* response keeps its whole chain down to its replay base, what is         *)
(* continued from is settled, and a running request has its parent's whole *)
(* transcript; and every transaction of requests, clients and collectors   *)
(* is one step of ReplayLog or changes nothing that a replay shows.        *)
(***************************************************************************)
EXTENDS DeltaLogRefinement, NumberLemmas, FiniteSetTheorems, SequenceTheorems, TLAPS

\* A walk never deletes more than its batch has left, and only a job in call
\* walks.
JobsBounded ==
    \A j \in Jobs : job[j].deleted <= job[j].left /\ (job[j].left = 0 => job[j].cursor = None)

\* A response's own lease, if it has one, is on itself.
OwnLease == \A r \in Responses : lease[r] \in {None, r}

\* The inductive invariant.  The counters are exact only because no row names a
\* response that is gone: Begin counts on the new id having no lease and no
\* items left over.
IInv == TypeOK /\ JobsBounded /\ RefcountsExact /\ RowsStored /\ OwnLease /\ HeadLeased

-----------------------------------------------------------------------------
\* The sets that the counters count are finite.
LEMMA FiniteSets ==
    /\ IsFiniteSet(Owners)
    /\ IsFiniteSet(Slots)
    /\ IsFiniteSet(Responses \X Slots)
<1>1. IsFiniteSet(Owners)
  BY IdsAssumption, FS_Union DEF Owners
<1>2. IsFiniteSet(Slots)
  BY BoundsAssumption, FS_Interval DEF Slots
<1> QED
  BY <1>1, <1>2, IdsAssumption, FS_Product

\* The sets the counters count are finite, so their cardinalities are naturals.
LEMMA CountsAreNat ==
    ASSUME TypeOK
    PROVE  /\ \A r \in Responses : IsFiniteSet(Children(r)) /\ Cardinality(Children(r)) \in Nat
           /\ \A r \in Responses : IsFiniteSet(LeasesOn(r)) /\ Cardinality(LeasesOn(r)) \in Nat
           /\ \A p \in Payloads : IsFiniteSet(Cells(p)) /\ Cardinality(Cells(p)) \in Nat
           /\ \A r \in Responses, p \in Payloads :
                 IsFiniteSet(CellsOf(r, p)) /\ Cardinality(CellsOf(r, p)) \in Nat
<1>1. \A r \in Responses : IsFiniteSet(Children(r))
  <2> TAKE r \in Responses
  <2>1. Children(r) \subseteq Responses
    BY DEF Children, TypeOK
  <2> QED  BY <2>1, FS_Subset, IdsAssumption
<1>2. \A r \in Responses : IsFiniteSet(LeasesOn(r))
  <2> TAKE r \in Responses
  <2>1. LeasesOn(r) \subseteq Owners
    BY DEF LeasesOn
  <2> QED  BY <2>1, FS_Subset, FiniteSets
<1>3. \A p \in Payloads : IsFiniteSet(Cells(p))
  <2> TAKE p \in Payloads
  <2>1. Cells(p) \subseteq Responses \X Slots
    BY DEF Cells
  <2> QED  BY <2>1, FS_Subset, FiniteSets
<1>4. \A r \in Responses, p \in Payloads : IsFiniteSet(CellsOf(r, p))
  <2> TAKE r \in Responses, p \in Payloads
  <2>1. CellsOf(r, p) \subseteq Cells(p)
    BY DEF CellsOf
  <2> QED  BY <2>1, <1>3, FS_Subset
<1> QED  BY <1>1, <1>2, <1>3, <1>4, FS_CardinalityType

\* A counter that is zero counts nothing.
LEMMA ZeroMeansNone ==
    ASSUME TypeOK, RefcountsExact
    PROVE  /\ \A r \in Responses : childRefs[r] + leaseRefs[r] = 0 =>
                 Children(r) = {} /\ LeasesOn(r) = {}
           /\ \A p \in Payloads : refs[p] = 0 => Cells(p) = {}
<1>1. \A r \in Responses : childRefs[r] + leaseRefs[r] = 0 =>
          Cardinality(Children(r)) = 0 /\ Cardinality(LeasesOn(r)) = 0
  BY CountsAreNat DEF RefcountsExact
<1> QED  BY <1>1, CountsAreNat, FS_EmptySet DEF RefcountsExact

-----------------------------------------------------------------------------
(* Types.                                                                  *)

\* The empty store satisfies the invariant.
LEMMA InitIInv == Init => IInv
<1> SUFFICES ASSUME Init PROVE IInv
  OBVIOUS
<1>1. TypeOK
  BY IdsAssumption, BoundsAssumption
  DEF Init, TypeOK, Slots, Owners, Statuses, Phases, NoItems, JobStates, IdleJob, JobAt, Jobs
<1>2. JobsBounded
  BY DEF Init, JobsBounded, IdleJob, JobAt, Jobs
<1>3. RefcountsExact
  <2>1. \A r \in Responses : Children(r) = {}
    BY DEF Init, Children
  <2>2. \A r \in Responses : LeasesOn(r) = {}
    BY IdsAssumption DEF Init, LeasesOn
  <2>3. \A p \in Payloads : Cells(p) = {}
    BY IdsAssumption DEF Init, Cells, NoItems
  <2> QED  BY <2>1, <2>2, <2>3, FS_EmptySet DEF RefcountsExact, Init
<1>4. RowsStored
  BY DEF Init, RowsStored, NoItems
<1>5. OwnLease
  BY DEF Init, OwnLease, Owners
<1>6. HeadLeased
  BY DEF Init, HeadLeased, Owners
<1> QED  BY <1>1, <1>2, <1>3, <1>4, <1>5, <1>6 DEF IInv

\* What a job may change to.
JobChange(j, l, c, d) ==
    /\ l \in 0..Batch /\ c \in Responses \cup {None} /\ d \in 0..Batch
    /\ d <= l /\ (l = 0 => c = None)
    /\ job' = [job EXCEPT ![j] = JobAt(l, c, d)]

\* A collector's bookkeeping, where it changes, stays within its batch.
LEMMA JobStep ==
    ASSUME TypeOK, JobsBounded, NEW j \in Jobs, NEW l, NEW c, NEW d, JobChange(j, l, c, d)
    PROVE  job' \in [Jobs -> JobStates] /\ JobsBounded'
<1>1. JobAt(l, c, d) \in JobStates
  BY DEF JobAt, JobStates, JobChange
<1>2. JobAt(l, c, d).left = l /\ JobAt(l, c, d).cursor = c /\ JobAt(l, c, d).deleted = d
  BY DEF JobAt
<1>3. job' \in [Jobs -> JobStates]
  BY <1>1 DEF TypeOK, JobChange
<1>4. \A i \in Jobs : job'[i] = IF i = j THEN JobAt(l, c, d) ELSE job[i]
  BY DEF TypeOK, JobChange
<1>5. JobsBounded'
  BY <1>2, <1>4 DEF JobsBounded, JobChange
<1> QED  BY <1>3, <1>5

\* The fields of a job, for the solver.
LEMMA JobFields ==
    ASSUME TypeOK, JobsBounded, NEW j \in Jobs
    PROVE  /\ job[j].left \in 0..Batch /\ job[j].deleted \in 0..Batch
           /\ job[j].cursor \in Responses \cup {None}
           /\ job[j].deleted <= job[j].left
           /\ job[j].left = 0 => job[j].cursor = None
  BY DEF TypeOK, JobsBounded, JobStates

\* Every action keeps the types and the bounds of the jobs.
LEMMA TypeStep == TypeOK /\ JobsBounded /\ [Next]_vars => TypeOK' /\ JobsBounded'
<1> SUFFICES ASSUME TypeOK, JobsBounded, [Next]_vars PROVE TypeOK' /\ JobsBounded'
  OBVIOUS
<1> USE IdsAssumption, BoundsAssumption
<1>a. ASSUME NEW r \in Responses, NEW p \in Responses \cup {None}, NEW c \in Convs \cup {None},
             Check(r, p, c)
      PROVE  TypeOK' /\ JobsBounded'
  BY <1>a DEF Check, TypeOK, JobsBounded, tables, Phases
<1>1. ASSUME NEW r \in Responses, CheckFresh(r) PROVE TypeOK' /\ JobsBounded'
  BY <1>1, <1>a DEF CheckFresh
<1>2. ASSUME NEW r \in Responses, NEW p \in Responses, CheckPrevious(r, p) PROVE TypeOK' /\ JobsBounded'
  BY <1>2, <1>a DEF CheckPrevious
<1>3. ASSUME NEW r \in Responses, NEW c \in Convs, CheckConversation(r, c) PROVE TypeOK' /\ JobsBounded'
  <2>1. head[c] \in Responses \cup {None}
    BY DEF TypeOK
  <2> QED  BY <1>3, <1>a, <2>1 DEF CheckConversation
<1>4. ASSUME NEW r \in Responses, ReadReplay(r) PROVE TypeOK' /\ JobsBounded'
  <2>1. \A x \in Responses : Lineage(x) \in SUBSET Responses
    BY DEF Lineage
  <2> QED  BY <1>4, <2>1 DEF ReadReplay, TypeOK, JobsBounded, tables, Phases
<1>5. ASSUME NEW r \in Responses, NEW p \in Payloads, Begin(r, p) PROVE TypeOK' /\ JobsBounded'
  <2>1. item' \in [Responses -> [Slots -> Payloads \cup {None}]]
    BY <1>5 DEF Begin, TypeOK, NoItems
  <2>2. lease' \in [Owners -> Responses \cup {None}]
    BY <1>5 DEF Begin, TypeOK, Owners
  <2>3. base' \in [Responses -> Responses \cup {None}]
    BY <1>5 DEF Begin, TypeOK
  <2> QED  BY <1>5, <2>1, <2>2, <2>3 DEF Begin, UsePayload, TypeOK, JobsBounded, Statuses, Phases
<1>6. ASSUME NEW r \in Responses, BeginRejected(r) PROVE TypeOK' /\ JobsBounded'
  BY <1>6 DEF BeginRejected, TypeOK, JobsBounded, tables, Phases
<1>7. ASSUME NEW r \in Responses, NEW s \in Slots, NEW p \in Payloads, AppendOutput(r, s, p)
      PROVE  TypeOK' /\ JobsBounded'
  BY <1>7 DEF AppendOutput, UsePayload, TypeOK, JobsBounded, requests
<1>8. ASSUME NEW r \in Responses, NEW s \in Slots, NEW p \in Payloads, ReplaceOutput(r, s, p)
      PROVE  TypeOK' /\ JobsBounded'
  BY <1>8 DEF ReplaceOutput, SwapRefs, TypeOK, JobsBounded, requests
<1>9. ASSUME NEW r \in Responses, Finish(r) PROVE TypeOK' /\ JobsBounded'
  <2>1. CASE conv[r] = None
    BY <1>9, <2>1 DEF Finish, Transition, TypeOK, JobsBounded, Statuses, Terminal, Phases
  <2>2. CASE conv[r] # None
    <3>1. conv[r] \in Convs /\ MoveHead(conv[r], r)
      BY <1>9, <2>2 DEF Finish, TypeOK
    <3>2. head' \in [Convs -> Responses \cup {None}] /\ lease' \in [Owners -> Responses \cup {None}]
      BY <3>1 DEF MoveHead, TypeOK
    <3>3. leaseRefs' \in [Responses -> Int]
      BY <3>1 DEF MoveHead, TypeOK
    <3> QED  BY <1>9, <3>2, <3>3 DEF Finish, Transition, TypeOK, JobsBounded, Statuses, Terminal, Phases
  <2> QED  BY <2>1, <2>2
<1>10. ASSUME NEW r \in Responses, Abort(r) PROVE TypeOK' /\ JobsBounded'
  BY <1>10 DEF Abort, Transition, TypeOK, JobsBounded, Statuses, Terminal, Phases
<1>11. ASSUME NEW r \in Responses, LostRecord(r) \/ Crash(r) PROVE TypeOK' /\ JobsBounded'
  <2>1. pc' = [pc EXCEPT ![r] = "ended"] /\ UNCHANGED <<tables, parent, conv, context, job>>
    BY <1>11 DEF LostRecord, Crash
  <2>2. pc' \in [Responses -> Phases]
    BY <2>1 DEF TypeOK, Phases
  <2> QED  BY <2>1, <2>2 DEF TypeOK, JobsBounded, tables
<1>12. ASSUME NEW r \in Responses, Delete(r) PROVE TypeOK' /\ JobsBounded'
  <2> DEFINE dropped == {o \in Owners : o = r \/ o \in {c \in Convs : head[c] = r}}
  <2>1. \A x \in Responses : Cardinality({o \in dropped : lease[o] = x}) \in Int
    <3> TAKE x \in Responses
    <3>1. {o \in dropped : lease[o] = x} \subseteq Owners
      OBVIOUS
    <3> QED  BY <3>1, FiniteSets, FS_Subset, FS_CardinalityType
  <2>2. leaseRefs' \in [Responses -> Int]
    BY <1>12, <2>1 DEF Delete, TypeOK
  <2>3. lease' \in [Owners -> Responses \cup {None}] /\ head' \in [Convs -> Responses \cup {None}]
    BY <1>12 DEF Delete, TypeOK
  <2> HIDE DEF dropped
  <2> QED  BY <1>12, <2>2, <2>3 DEF Delete, TypeOK, JobsBounded, requests
<1>13. ASSUME NEW j \in Jobs, CronCall(j) PROVE TypeOK' /\ JobsBounded'
  <2>1. job' \in [Jobs -> JobStates] /\ JobsBounded'
    <3>1. JobChange(j, Batch, None, 0)
      BY <1>13 DEF CronCall, JobChange
    <3> QED  BY <3>1, JobStep
  <2> QED  BY <1>13, <2>1 DEF CronCall, TypeOK, tables, requests
<1>14. ASSUME NEW j \in Jobs, CallDone(j) PROVE TypeOK' /\ JobsBounded'
  <2>1. job' \in [Jobs -> JobStates] /\ JobsBounded'
    <3>1. JobChange(j, 0, None, 0)
      BY <1>14 DEF CallDone, IdleJob, JobChange
    <3> QED  BY <3>1, JobStep
  <2> QED  BY <1>14, <2>1 DEF CallDone, TypeOK, tables, requests
<1>15. ASSUME NEW r \in Responses, ExpireLease(r) PROVE TypeOK' /\ JobsBounded'
  <2>1. lease[r] \in Responses
    BY <1>15 DEF ExpireLease, RetentionOver, TypeOK, Owners
  <2>2. leaseRefs' \in [Responses -> Int] /\ lease' \in [Owners -> Responses \cup {None}]
    BY <1>15 DEF ExpireLease, TypeOK, Owners
  <2>3. job' \in [Jobs -> JobStates] /\ JobsBounded'
    <3> DEFINE j == "expire_leases"
    <3>1. j \in Jobs /\ job[j].left \in 0..Batch
      BY JobFields DEF Jobs
    <3>2. JobChange(j, job[j].left, lease[r], 0)
      BY <1>15, <2>1, <3>1 DEF ExpireLease, CanClaim, JobChange
    <3> QED  BY <3>1, <3>2, JobStep
  <2> QED  BY <1>15, <2>2, <2>3 DEF ExpireLease, TypeOK, requests
<1>16. ASSUME NEW r \in Responses, ClaimUnreferenced(r) PROVE TypeOK' /\ JobsBounded'
  <2>1. job' \in [Jobs -> JobStates] /\ JobsBounded'
    <3> DEFINE j == "prune_unreferenced"
    <3>1. j \in Jobs /\ job[j].left \in 0..Batch
      BY JobFields DEF Jobs
    <3>2. JobChange(j, job[j].left, r, 0)
      BY <1>16, <3>1 DEF ClaimUnreferenced, CanClaim, JobChange
    <3> QED  BY <3>1, <3>2, JobStep
  <2> QED  BY <1>16, <2>1 DEF ClaimUnreferenced, TypeOK, tables, requests
<1>17. ASSUME NEW j \in Jobs, WalkDelete(j) PROVE TypeOK' /\ JobsBounded'
  <2> DEFINE r == job[j].cursor
  <2>1. r \in Responses /\ r \in records /\ prev[r] \in Responses \cup {None}
    BY <1>17 DEF WalkDelete, Collectable, TypeOK
  <2>2. job' \in [Jobs -> JobStates] /\ JobsBounded'
    <3>1. JobChange(j, job[j].left, prev[r], job[j].deleted + 1)
      BY <1>17, <2>1, JobFields DEF WalkDelete, Collectable, JobChange
    <3> QED  BY <3>1, JobStep
  <2>3. refs' \in [Payloads -> Int]
    BY <1>17, <2>1, CountsAreNat DEF WalkDelete, TypeOK
  <2>4. item' \in [Responses -> [Slots -> Payloads \cup {None}]]
    BY <1>17, <2>1 DEF WalkDelete, TypeOK, NoItems
  <2> HIDE DEF r
  <2>5. /\ records' \in SUBSET Responses /\ payloads' \in SUBSET Payloads
        /\ tombstones' \in SUBSET Responses
        /\ prev' \in [Responses -> Responses \cup {None}]
        /\ base' \in [Responses -> Responses \cup {None}]
        /\ status' \in [Responses -> Statuses]
    BY <1>17 DEF WalkDelete, TypeOK, Statuses
  <2>6. childRefs' \in [Responses -> Int]
    BY <1>17 DEF WalkDelete, ChildGone, TypeOK
  <2> HIDE DEF r
  <2> QED  BY <1>17, <2>2, <2>3, <2>4, <2>5, <2>6 DEF WalkDelete, TypeOK, requests
<1>18. ASSUME NEW j \in Jobs, WalkEnd(j) PROVE TypeOK' /\ JobsBounded'
  <2>1. job' \in [Jobs -> JobStates] /\ JobsBounded'
    <3>1. JobChange(j, job[j].left - Cost(job[j].deleted), None, 0)
      BY <1>18, JobFields DEF WalkEnd, Cost, JobChange
    <3> QED  BY <3>1, JobStep
  <2> QED  BY <1>18, <2>1 DEF WalkEnd, TypeOK, tables, requests
<1>19. ASSUME NEW p \in Payloads, PrunePayload(p) PROVE TypeOK' /\ JobsBounded'
  BY <1>19 DEF PrunePayload, TypeOK, JobsBounded, requests
<1>20. CASE UNCHANGED vars
  BY <1>20 DEF vars, TypeOK, JobsBounded
<1> QED
  BY <1>1, <1>2, <1>3, <1>4, <1>5, <1>6, <1>7, <1>8, <1>9, <1>10, <1>11, <1>12, <1>13, <1>14,
     <1>15, <1>16, <1>17, <1>18, <1>19, <1>20
  DEF Next, Request, Collect

-----------------------------------------------------------------------------
(* The counters.                                                           *)

\* Which steps touch what the child counters count, and so on.
LEMMA ChildSteps ==
    ASSUME [Next]_vars
    PROVE  \/ \E r \in Responses, p \in Payloads : Begin(r, p)
           \/ \E j \in Jobs : WalkDelete(j)
           \/ UNCHANGED <<records, prev, childRefs>>
<1>1. ASSUME NEW r \in Responses, Request(r)
      PROVE  (\E p \in Payloads : Begin(r, p)) \/ UNCHANGED <<records, prev, childRefs>>
  BY <1>1 DEF Request, tables, CheckFresh, CheckPrevious, CheckConversation, Check, ReadReplay,
              BeginRejected, AppendOutput, ReplaceOutput, Finish, Transition, Abort, LostRecord, Crash
<1>2. ASSUME NEW j \in Jobs, Collect(j)
      PROVE  WalkDelete(j) \/ UNCHANGED <<records, prev, childRefs>>
  BY <1>2 DEF Collect, tables, CronCall, CallDone, WalkEnd
<1>3. ASSUME NEW r \in Responses, Delete(r) \/ ExpireLease(r) \/ ClaimUnreferenced(r)
      PROVE  UNCHANGED <<records, prev, childRefs>>
  BY <1>3 DEF Delete, ExpireLease, ClaimUnreferenced, tables
<1>4. ASSUME NEW p \in Payloads, PrunePayload(p) PROVE UNCHANGED <<records, prev, childRefs>>
  BY <1>4 DEF PrunePayload
<1>5. CASE UNCHANGED vars
  BY <1>5 DEF vars
<1> QED  BY <1>1, <1>2, <1>3, <1>4, <1>5 DEF Next

\* Only the creation, the end, the deletion and the expiry of a response move leases and heads.
LEMMA LeaseSteps ==
    ASSUME [Next]_vars
    PROVE  \/ \E r \in Responses, p \in Payloads : Begin(r, p)
           \/ \E r \in Responses : Finish(r) /\ conv[r] # None
           \/ \E r \in Responses : Delete(r)
           \/ \E r \in Responses : ExpireLease(r)
           \/ UNCHANGED <<lease, leaseRefs, head>>
<1>1. ASSUME NEW r \in Responses, Request(r)
      PROVE  \/ \E p \in Payloads : Begin(r, p)
             \/ Finish(r) /\ conv[r] # None
             \/ UNCHANGED <<lease, leaseRefs, head>>
  BY <1>1 DEF Request, tables, CheckFresh, CheckPrevious, CheckConversation, Check, ReadReplay,
              BeginRejected, AppendOutput, ReplaceOutput, Finish, Abort, LostRecord, Crash
<1>2. ASSUME NEW j \in Jobs, Collect(j) PROVE UNCHANGED <<lease, leaseRefs, head>>
  BY <1>2 DEF Collect, tables, CronCall, CallDone, WalkDelete, WalkEnd
<1>3. ASSUME NEW r \in Responses, ClaimUnreferenced(r) PROVE UNCHANGED <<lease, leaseRefs, head>>
  BY <1>3 DEF ClaimUnreferenced, tables
<1>4. ASSUME NEW p \in Payloads, PrunePayload(p) PROVE UNCHANGED <<lease, leaseRefs, head>>
  BY <1>4 DEF PrunePayload
<1>5. CASE UNCHANGED vars
  BY <1>5 DEF vars
<1> QED  BY <1>1, <1>2, <1>3, <1>4, <1>5 DEF Next

\* Only a request's own writes and the walk of a collector change item rows.
LEMMA ItemSteps ==
    ASSUME [Next]_vars
    PROVE  \/ \E r \in Responses, p \in Payloads : Begin(r, p)
           \/ \E r \in Responses, s \in Slots, p \in Payloads :
                 AppendOutput(r, s, p) \/ ReplaceOutput(r, s, p)
           \/ \E j \in Jobs : WalkDelete(j)
           \/ UNCHANGED <<item, refs>>
<1>1. ASSUME NEW r \in Responses, Request(r)
      PROVE  \/ \E p \in Payloads : Begin(r, p)
             \/ \E s \in Slots, p \in Payloads : AppendOutput(r, s, p) \/ ReplaceOutput(r, s, p)
             \/ UNCHANGED <<item, refs>>
  BY <1>1 DEF Request, tables, CheckFresh, CheckPrevious, CheckConversation, Check, ReadReplay,
              BeginRejected, Finish, Transition, Abort, LostRecord, Crash
<1>2. ASSUME NEW j \in Jobs, Collect(j)
      PROVE  WalkDelete(j) \/ UNCHANGED <<item, refs>>
  BY <1>2 DEF Collect, tables, CronCall, CallDone, WalkEnd
<1>3. ASSUME NEW r \in Responses, Delete(r) \/ ExpireLease(r) \/ ClaimUnreferenced(r)
      PROVE  UNCHANGED <<item, refs>>
  BY <1>3 DEF Delete, ExpireLease, ClaimUnreferenced, tables
<1>4. ASSUME NEW p \in Payloads, PrunePayload(p) PROVE UNCHANGED <<item, refs>>
  BY <1>4 DEF PrunePayload
<1>5. CASE UNCHANGED vars
  BY <1>5 DEF vars
<1> QED  BY <1>1, <1>2, <1>3, <1>4, <1>5 DEF Next

\* What IInv says of one counter.
LEMMA Counted ==
    ASSUME IInv, NEW x \in Responses
    PROVE  /\ childRefs[x] = Cardinality(Children(x)) /\ IsFiniteSet(Children(x))
           /\ Cardinality(Children(x)) \in Nat
           /\ leaseRefs[x] = Cardinality(LeasesOn(x)) /\ IsFiniteSet(LeasesOn(x))
           /\ Cardinality(LeasesOn(x)) \in Nat
<1>1. TypeOK
  BY DEF IInv
<1>2. childRefs[x] = Cardinality(Children(x)) /\ leaseRefs[x] = Cardinality(LeasesOn(x))
  BY DEF IInv, RefcountsExact
<1> QED  BY <1>1, <1>2, CountsAreNat

\* Every step keeps child_reference_count what a count of the children would give.
LEMMA ChildCounts ==
    ASSUME IInv, [Next]_vars
    PROVE  \A x \in Responses : childRefs'[x] = Cardinality(Children(x)')
<1> USE DEF IInv
<1>1. ASSUME NEW r \in Responses, NEW p \in Payloads, Begin(r, p), NEW x \in Responses
      PROVE  childRefs'[x] = Cardinality(Children(x)')
  <2>1. parent[r] # r /\ r \notin Children(x)
    <3>1. r \notin records /\ r # None
      BY <1>1, IdsAssumption DEF Begin
    <3>2. parent[r] # None => parent[r] \in records
      BY <1>1 DEF Begin, ParentStored
    <3> QED  BY <3>1, <3>2 DEF Children
  <2>2. CASE x = parent[r]
    <3>1. Children(x)' = Children(x) \cup {r}
      BY <1>1, <2>1, <2>2 DEF Begin, Children, TypeOK
    <3>2. childRefs'[x] = childRefs[x] + 1
      BY <1>1, <2>2 DEF Begin
    <3>3. Cardinality(Children(x) \cup {r}) = Cardinality(Children(x)) + 1
      BY <2>1, Counted, FS_AddElement
    <3> QED  BY <3>1, <3>2, <3>3, Counted
  <2>3. CASE x # parent[r]
    <3>1. Children(x)' = Children(x)
      BY <1>1, <2>1, <2>3 DEF Begin, Children, TypeOK
    <3>2. childRefs'[x] = childRefs[x]
      BY <1>1, <2>3 DEF Begin
    <3> QED  BY <3>1, <3>2 DEF RefcountsExact
  <2> QED  BY <2>2, <2>3
<1>2. ASSUME NEW j \in Jobs, WalkDelete(j), NEW x \in Responses
      PROVE  childRefs'[x] = Cardinality(Children(x)')
  <2> DEFINE r == job[j].cursor
  <2>1. r \in records /\ r \in Responses
    BY <1>2 DEF WalkDelete, Collectable, TypeOK
  <2>2. Children(x)' = Children(x) \ {r}
    BY <1>2, <2>1 DEF WalkDelete, Children, TypeOK
  <2>3. r \in Children(x) <=> x = prev[r]
    BY <2>1 DEF Children
  <2>4. childRefs'[x] = IF x = prev[r] THEN childRefs[x] - 1 ELSE childRefs[x]
    BY <1>2 DEF WalkDelete, ChildGone
  <2> HIDE DEF r
  <2>5. Cardinality(Children(x) \ {r}) =
          IF x = prev[r] THEN Cardinality(Children(x)) - 1 ELSE Cardinality(Children(x))
    BY <2>3, Counted, FS_RemoveElement
  <2> QED  BY <2>2, <2>4, <2>5, Counted
<1>3. CASE UNCHANGED <<records, prev, childRefs>>
  BY <1>3 DEF Children, RefcountsExact
<1> QED  BY <1>1, <1>2, <1>3, ChildSteps

\* Every step keeps lease_reference_count what a count of the leases would give.
LEMMA LeaseCounts ==
    ASSUME IInv, [Next]_vars
    PROVE  \A x \in Responses : leaseRefs'[x] = Cardinality(LeasesOn(x)')
<1> USE DEF IInv
<1>1. ASSUME NEW r \in Responses, NEW p \in Payloads, Begin(r, p), NEW x \in Responses
      PROVE  leaseRefs'[x] = Cardinality(LeasesOn(x)')
  <2>1. lease[r] = None /\ r \in Owners
    BY <1>1 DEF Begin, RowsStored, OwnLease, Owners
  <2>2. r \notin LeasesOn(x)
    BY <2>1, IdsAssumption DEF LeasesOn
  <2>3. CASE x = r
    <3>1. LeasesOn(x)' = LeasesOn(x) \cup {r}
      BY <1>1, <2>1, <2>3 DEF Begin, LeasesOn, TypeOK
    <3>2. leaseRefs'[x] = leaseRefs[x] + 1
      BY <1>1, <2>3 DEF Begin, TypeOK
    <3>3. Cardinality(LeasesOn(x) \cup {r}) = Cardinality(LeasesOn(x)) + 1
      BY <2>2, Counted, FS_AddElement
    <3> QED  BY <3>1, <3>2, <3>3, Counted
  <2>4. CASE x # r
    <3>1. LeasesOn(x)' = LeasesOn(x)
      BY <1>1, <2>2, <2>4 DEF Begin, LeasesOn, TypeOK
    <3>2. leaseRefs'[x] = leaseRefs[x]
      BY <1>1, <2>4 DEF Begin, TypeOK
    <3> QED  BY <3>1, <3>2 DEF RefcountsExact
  <2> QED  BY <2>3, <2>4
<1>2. ASSUME NEW r \in Responses, Finish(r), conv[r] # None, NEW x \in Responses
      PROVE  leaseRefs'[x] = Cardinality(LeasesOn(x)')
  <2> DEFINE c == conv[r]
  <2>1. c \in Owners /\ MoveHead(c, r)
    BY <1>2 DEF Finish, TypeOK, Owners
  <2>2. lease' = [lease EXCEPT ![c] = r]
    BY <2>1 DEF MoveHead
  <2>3. leaseRefs'[x] = leaseRefs[x] + (IF x = r THEN 1 ELSE 0) - (IF x = lease[c] THEN 1 ELSE 0)
    BY <2>1 DEF MoveHead
  <2>4. c \in LeasesOn(x) <=> x = lease[c]
    BY <2>1 DEF LeasesOn
  <2> HIDE DEF c
  <2>5. leaseRefs[x] = Cardinality(LeasesOn(x)) /\ Cardinality(LeasesOn(x)) \in Nat
        /\ IsFiniteSet(LeasesOn(x))
    BY Counted
  <2>6. CASE x = r
    <3>1. LeasesOn(x)' = LeasesOn(x) \cup {c}
      BY <2>1, <2>2, <2>6 DEF LeasesOn, TypeOK
    <3>2. Cardinality(LeasesOn(x) \cup {c}) =
            IF x = lease[c] THEN Cardinality(LeasesOn(x)) ELSE Cardinality(LeasesOn(x)) + 1
      BY <2>4, <2>5, FS_AddElement
    <3> QED  BY <3>1, <3>2, <2>3, <2>5, <2>6
  <2>7. CASE x # r
    <3>1. LeasesOn(x)' = LeasesOn(x) \ {c}
      BY <2>1, <2>2, <2>7 DEF LeasesOn, TypeOK
    <3>2. Cardinality(LeasesOn(x) \ {c}) =
            IF x = lease[c] THEN Cardinality(LeasesOn(x)) - 1 ELSE Cardinality(LeasesOn(x))
      BY <2>4, <2>5, FS_RemoveElement
    <3> QED  BY <3>1, <3>2, <2>3, <2>5, <2>7
  <2> QED  BY <2>6, <2>7
<1>3. ASSUME NEW r \in Responses, Delete(r), NEW x \in Responses
      PROVE  leaseRefs'[x] = Cardinality(LeasesOn(x)')
  <2> DEFINE dropped == {o \in Owners : o = r \/ o \in {c \in Convs : head[c] = r}}
             gone == {o \in dropped : lease[o] = x}
  <2>1. LeasesOn(x)' = LeasesOn(x) \ gone
    BY <1>3, IdsAssumption DEF Delete, LeasesOn
  <2>2. leaseRefs'[x] = leaseRefs[x] - Cardinality(gone)
    BY <1>3 DEF Delete
  <2>3. LeasesOn(x) \cap gone = gone
    BY DEF LeasesOn
  <2> HIDE DEF gone
  <2>4. Cardinality(LeasesOn(x) \ gone) = Cardinality(LeasesOn(x)) - Cardinality(gone)
    <3>1. Cardinality(LeasesOn(x) \ gone) =
            Cardinality(LeasesOn(x)) - Cardinality(LeasesOn(x) \cap gone)
      BY Counted, FS_Difference
    <3> QED  BY <3>1, <2>3
  <2> QED  BY <2>1, <2>2, <2>4, Counted
<1>4. ASSUME NEW r \in Responses, ExpireLease(r), NEW x \in Responses
      PROVE  leaseRefs'[x] = Cardinality(LeasesOn(x)')
  <2>1. r \in Owners
    BY DEF Owners
  <2>2. LeasesOn(x)' = LeasesOn(x) \ {r}
    BY <1>4, <2>1, IdsAssumption DEF ExpireLease, LeasesOn, TypeOK
  <2>3. r \in LeasesOn(x) <=> x = lease[r]
    BY <2>1 DEF LeasesOn
  <2>4. leaseRefs'[x] = IF x = lease[r] THEN leaseRefs[x] - 1 ELSE leaseRefs[x]
    BY <1>4 DEF ExpireLease
  <2>5. Cardinality(LeasesOn(x) \ {r}) =
          IF x = lease[r] THEN Cardinality(LeasesOn(x)) - 1 ELSE Cardinality(LeasesOn(x))
    BY <2>3, Counted, FS_RemoveElement
  <2> QED  BY <2>2, <2>4, <2>5, Counted
<1>5. CASE UNCHANGED <<lease, leaseRefs, head>>
  BY <1>5 DEF LeasesOn, RefcountsExact
<1> QED  BY <1>1, <1>2, <1>3, <1>4, <1>5, LeaseSteps

\* What IInv says of one payload's counter.
LEMMA PayloadCounted ==
    ASSUME IInv, NEW x \in Payloads
    PROVE  /\ refs[x] = Cardinality(Cells(x)) /\ IsFiniteSet(Cells(x))
           /\ Cardinality(Cells(x)) \in Nat
<1>1. TypeOK /\ refs[x] = Cardinality(Cells(x))
  BY DEF IInv, RefcountsExact
<1> QED  BY <1>1, CountsAreNat

\* Writing one item row.
RowWritten(r, s, p) == item' = [item EXCEPT ![r][s] = p]

\* Writing one row moves one reference from the payload it held to the one it holds.
LEMMA OneRow ==
    ASSUME IInv, NEW r \in Responses, NEW s \in Slots, NEW p \in Payloads, NEW x \in Payloads,
           RowWritten(r, s, p)
    PROVE  Cardinality(Cells(x)') =
             Cardinality(Cells(x)) + (IF x = p THEN 1 ELSE 0) - (IF x = item[r][s] THEN 1 ELSE 0)
<1>1. item \in [Responses -> [Slots -> Payloads \cup {None}]]
  BY DEF IInv, TypeOK
<1>2. \A y \in Responses \X Slots :
          item'[y[1]][y[2]] = IF y = <<r, s>> THEN p ELSE item[y[1]][y[2]]
  BY <1>1 DEF RowWritten
<1>3. <<r, s>> \in Cells(x) <=> x = item[r][s]
  BY DEF Cells
<1>4. CASE x = p
  <2>1. Cells(x)' = Cells(x) \cup {<<r, s>>}
    BY <1>2, <1>4 DEF Cells
  <2>2. Cardinality(Cells(x) \cup {<<r, s>>}) =
          IF x = item[r][s] THEN Cardinality(Cells(x)) ELSE Cardinality(Cells(x)) + 1
    BY <1>3, PayloadCounted, FS_AddElement
  <2> QED  BY <2>1, <2>2, <1>4, PayloadCounted
<1>5. CASE x # p
  <2>1. Cells(x)' = Cells(x) \ {<<r, s>>}
    BY <1>2, <1>5 DEF Cells
  <2>2. Cardinality(Cells(x) \ {<<r, s>>}) =
          IF x = item[r][s] THEN Cardinality(Cells(x)) - 1 ELSE Cardinality(Cells(x))
    BY <1>3, PayloadCounted, FS_RemoveElement
  <2> QED  BY <2>1, <2>2, <1>5, PayloadCounted
<1> QED  BY <1>4, <1>5

\* Every step keeps reference_count what a count of the rows would give.
LEMMA PayloadCounts ==
    ASSUME IInv, [Next]_vars
    PROVE  \A x \in Payloads : refs'[x] = Cardinality(Cells(x)')
<1>0. /\ item \in [Responses -> [Slots -> Payloads \cup {None}]]
      /\ refs \in [Payloads -> Int]
      /\ 0 \in Slots
  BY BoundsAssumption DEF IInv, TypeOK, Slots
<1>1. ASSUME NEW r \in Responses, NEW p \in Payloads, Begin(r, p), NEW x \in Payloads
      PROVE  refs'[x] = Cardinality(Cells(x)')
  <2>1. \A s \in Slots : item[r][s] = None
    BY <1>1 DEF Begin, IInv, RowsStored
  <2>2. item[r] = NoItems
    BY <2>1, <1>0 DEF NoItems
  <2>3. RowWritten(r, 0, p)
    BY <1>1, <2>2, <1>0 DEF Begin, RowWritten
  <2>4. Cardinality(Cells(x)') = Cardinality(Cells(x)) + (IF x = p THEN 1 ELSE 0)
    <3>1. Cardinality(Cells(x)') =
            Cardinality(Cells(x)) + (IF x = p THEN 1 ELSE 0) - (IF x = item[r][0] THEN 1 ELSE 0)
      BY <2>3, <1>0, OneRow
    <3>2. x # item[r][0]
      BY <2>1, <1>0, IdsAssumption
    <3> QED  BY <3>1, <3>2, PayloadCounted
  <2>5. refs'[x] = refs[x] + (IF x = p THEN 1 ELSE 0)
    BY <1>1, <1>0 DEF Begin, UsePayload
  <2> QED  BY <2>4, <2>5, PayloadCounted
<1>2. ASSUME NEW r \in Responses, NEW s \in Slots, NEW p \in Payloads, NEW x \in Payloads,
             AppendOutput(r, s, p)
      PROVE  refs'[x] = Cardinality(Cells(x)')
  <2>1. RowWritten(r, s, p) /\ item[r][s] = None
    BY <1>2 DEF AppendOutput, RowWritten
  <2>2. Cardinality(Cells(x)') = Cardinality(Cells(x)) + (IF x = p THEN 1 ELSE 0)
    <3>1. Cardinality(Cells(x)') =
            Cardinality(Cells(x)) + (IF x = p THEN 1 ELSE 0) - (IF x = item[r][s] THEN 1 ELSE 0)
      BY <2>1, OneRow
    <3>2. x # item[r][s]
      BY <2>1, IdsAssumption
    <3> QED  BY <3>1, <3>2, PayloadCounted
  <2>3. refs'[x] = refs[x] + (IF x = p THEN 1 ELSE 0)
    BY <1>2, <1>0 DEF AppendOutput, UsePayload
  <2> QED  BY <2>2, <2>3, PayloadCounted
<1>3. ASSUME NEW r \in Responses, NEW s \in Slots, NEW p \in Payloads, NEW x \in Payloads,
             ReplaceOutput(r, s, p)
      PROVE  refs'[x] = Cardinality(Cells(x)')
  <2>1. RowWritten(r, s, p)
    BY <1>3 DEF ReplaceOutput, RowWritten
  <2>2. refs'[x] = refs[x] + (IF x = p THEN 1 ELSE 0) - (IF x = item[r][s] THEN 1 ELSE 0)
    BY <1>3 DEF ReplaceOutput, SwapRefs
  <2>3. Cardinality(Cells(x)') =
          Cardinality(Cells(x)) + (IF x = p THEN 1 ELSE 0) - (IF x = item[r][s] THEN 1 ELSE 0)
    BY <2>1, OneRow
  <2> QED  BY <2>2, <2>3, PayloadCounted
<1>4. ASSUME NEW j \in Jobs, WalkDelete(j), NEW x \in Payloads
      PROVE  refs'[x] = Cardinality(Cells(x)')
  <2> DEFINE r == job[j].cursor
  <2>1. r \in Responses
    BY <1>4 DEF WalkDelete, Collectable, IInv, TypeOK
  <2>2. \A y \in Responses, s \in Slots : item'[y][s] = IF y = r THEN None ELSE item[y][s]
    BY <1>4, <2>1, <1>0 DEF WalkDelete, NoItems
  <2>3. refs'[x] = refs[x] - Cardinality(CellsOf(r, x))
    BY <1>4 DEF WalkDelete
  <2> HIDE DEF r
  <2>4. Cells(x)' = Cells(x) \ CellsOf(r, x)
    BY <2>2, IdsAssumption DEF Cells, CellsOf
  <2>5. Cells(x) \cap CellsOf(r, x) = CellsOf(r, x)
    BY DEF CellsOf
  <2>6. Cardinality(Cells(x) \ CellsOf(r, x)) =
          Cardinality(Cells(x)) - Cardinality(Cells(x) \cap CellsOf(r, x))
    BY PayloadCounted, FS_Difference
  <2> QED  BY <2>3, <2>4, <2>5, <2>6, PayloadCounted
<1>5. CASE UNCHANGED <<item, refs>>
  BY <1>5, PayloadCounted DEF Cells
<1> QED  BY <1>1, <1>2, <1>3, <1>4, <1>5, ItemSteps

\* So every step keeps all three counters exact.
LEMMA CountersStep == IInv /\ [Next]_vars => RefcountsExact'
  BY ChildCounts, LeaseCounts, PayloadCounts DEF RefcountsExact

-----------------------------------------------------------------------------
(* The rows.                                                               *)

\* A payload is reaped with r only when every row that uses it is r's.
LEMMA FreedIsUnused ==
    ASSUME IInv, NEW r \in Responses, NEW p \in Payloads, p \in FreedPayloads(r)
    PROVE  Cells(p) = CellsOf(r, p)
<1>1. Cardinality(Cells(p)) = Cardinality(CellsOf(r, p))
  BY PayloadCounted DEF FreedPayloads
<1>2. CellsOf(r, p) \in SUBSET Cells(p) /\ IsFiniteSet(Cells(p))
  BY PayloadCounted DEF CellsOf
<1> QED  BY <1>1, <1>2, FS_Subset

\* After every step the row's record and its payload are still stored.
LEMMA ItemRowsStep ==
    ASSUME IInv, [Next]_vars
    PROVE  \A x \in Responses, t \in Slots :
               item'[x][t] # None => x \in records' /\ item'[x][t] \in payloads'
<1>0. /\ item \in [Responses -> [Slots -> Payloads \cup {None}]]
      /\ \A x \in Responses, t \in Slots :
            item[x][t] # None => x \in records /\ item[x][t] \in payloads
      /\ payloads \subseteq Payloads
  BY DEF IInv, TypeOK, RowsStored
<1>1. ASSUME NEW r \in Responses, NEW p \in Payloads, Begin(r, p)
      PROVE  \A x \in Responses, t \in Slots :
                 item'[x][t] # None => x \in records' /\ item'[x][t] \in payloads'
  BY <1>0, <1>1, BoundsAssumption DEF Begin, UsePayload, NoItems, Slots
<1>2. ASSUME NEW r \in Responses, NEW s \in Slots, NEW p \in Payloads,
             AppendOutput(r, s, p) \/ ReplaceOutput(r, s, p)
      PROVE  \A x \in Responses, t \in Slots :
                 item'[x][t] # None => x \in records' /\ item'[x][t] \in payloads'
  <2>1. /\ item' = [item EXCEPT ![r][s] = p] /\ payloads' = payloads \cup {p}
        /\ r \in records /\ records' = records
    BY <1>2 DEF AppendOutput, ReplaceOutput, UsePayload
  <2> QED  BY <1>0, <2>1
<1>3. ASSUME NEW j \in Jobs, WalkDelete(j)
      PROVE  \A x \in Responses, t \in Slots :
                 item'[x][t] # None => x \in records' /\ item'[x][t] \in payloads'
  <2> DEFINE r == job[j].cursor
  <2>1. r \in Responses
    BY <1>3 DEF WalkDelete, Collectable, IInv, TypeOK
  <2>2. /\ \A y \in Responses, s \in Slots : item'[y][s] = IF y = r THEN None ELSE item[y][s]
        /\ records' = records \ {r} /\ payloads' = payloads \ FreedPayloads(r)
    BY <1>3, <2>1, <1>0 DEF WalkDelete, NoItems
  <2> HIDE DEF r
  <2> SUFFICES ASSUME NEW x \in Responses, NEW t \in Slots, item'[x][t] # None
               PROVE  x \in records' /\ item'[x][t] \in payloads'
    OBVIOUS
  <2>3. x # r /\ item'[x][t] = item[x][t] /\ item[x][t] # None
    BY <2>2
  <2>4. x \in records /\ item[x][t] \in payloads /\ item[x][t] \in Payloads
    BY <2>3, <1>0
  <2>5. <<x, t>> \in Cells(item[x][t]) /\ <<x, t>> \notin CellsOf(r, item[x][t])
    BY <2>3 DEF Cells, CellsOf
  <2>6. item[x][t] \notin FreedPayloads(r)
    BY <2>1, <2>4, <2>5, FreedIsUnused
  <2> QED  BY <2>2, <2>3, <2>4, <2>6
<1>4. ASSUME NEW p \in Payloads, PrunePayload(p)
      PROVE  \A x \in Responses, t \in Slots :
                 item'[x][t] # None => x \in records' /\ item'[x][t] \in payloads'
  <2>1. Cells(p) = {}
    BY <1>4, ZeroMeansNone DEF PrunePayload, IInv
  <2>2. \A x \in Responses, t \in Slots : item[x][t] # p
    <3> SUFFICES ASSUME NEW x \in Responses, NEW t \in Slots, item[x][t] = p PROVE FALSE
      OBVIOUS
    <3>1. <<x, t>> \in Cells(p)
      BY DEF Cells
    <3> QED  BY <3>1, <2>1
  <2> QED  BY <1>0, <1>4, <2>2 DEF PrunePayload
<1>5. ASSUME UNCHANGED <<item, records, payloads>>
      PROVE  \A x \in Responses, t \in Slots :
                 item'[x][t] # None => x \in records' /\ item'[x][t] \in payloads'
  BY <1>0, <1>5
<1>6. ASSUME NEW r \in Responses, Request(r)
      PROVE  \/ \E p \in Payloads : Begin(r, p)
             \/ \E s \in Slots, p \in Payloads : AppendOutput(r, s, p) \/ ReplaceOutput(r, s, p)
             \/ UNCHANGED <<item, records, payloads>>
  BY <1>6 DEF Request, tables, CheckFresh, CheckPrevious, CheckConversation, Check, ReadReplay,
              BeginRejected, Finish, Transition, Abort, LostRecord, Crash
<1>7. ASSUME NEW j \in Jobs, Collect(j)
      PROVE  WalkDelete(j) \/ UNCHANGED <<item, records, payloads>>
  BY <1>7 DEF Collect, tables, CronCall, CallDone, WalkEnd
<1>8. ASSUME NEW r \in Responses, Delete(r) \/ ExpireLease(r) \/ ClaimUnreferenced(r)
      PROVE  UNCHANGED <<item, records, payloads>>
  BY <1>8 DEF Delete, ExpireLease, ClaimUnreferenced, tables
<1>9. CASE UNCHANGED vars
  BY <1>9, <1>5 DEF vars
<1> QED  BY <1>1, <1>2, <1>3, <1>4, <1>5, <1>6, <1>7, <1>8, <1>9 DEF Next

\* A walk deletes only what nothing stored refers to.
LEMMA WalkTakesUnheld ==
    ASSUME IInv, NEW j \in Jobs, WalkDelete(j)
    PROVE  /\ job[j].cursor \in Responses
           /\ Children(job[j].cursor) = {}
           /\ LeasesOn(job[j].cursor) = {}
<1>1. job[j].cursor \in Responses /\ childRefs[job[j].cursor] + leaseRefs[job[j].cursor] = 0
  BY DEF WalkDelete, Collectable, IInv, TypeOK
<1> QED  BY <1>1, ZeroMeansNone DEF IInv

\* The steps that change which records, tombstones, leases or heads there are.
LEMMA RowSteps ==
    ASSUME [Next]_vars
    PROVE  \/ \E r \in Responses, p \in Payloads : Begin(r, p)
           \/ \E r \in Responses : Finish(r) /\ conv[r] # None
           \/ \E r \in Responses : Delete(r)
           \/ \E r \in Responses : ExpireLease(r)
           \/ \E j \in Jobs : WalkDelete(j)
           \/ UNCHANGED <<records, prev, lease, head, tombstones>>
<1>1. ASSUME NEW r \in Responses, Request(r)
      PROVE  \/ \E p \in Payloads : Begin(r, p)
             \/ Finish(r) /\ conv[r] # None
             \/ UNCHANGED <<records, prev, lease, head, tombstones>>
  BY <1>1 DEF Request, tables, CheckFresh, CheckPrevious, CheckConversation, Check, ReadReplay,
              BeginRejected, AppendOutput, ReplaceOutput, Finish, Abort, LostRecord, Crash
<1>2. ASSUME NEW j \in Jobs, Collect(j)
      PROVE  WalkDelete(j) \/ UNCHANGED <<records, prev, lease, head, tombstones>>
  BY <1>2 DEF Collect, tables, CronCall, CallDone, WalkEnd
<1>3. ASSUME NEW r \in Responses, ClaimUnreferenced(r)
      PROVE  UNCHANGED <<records, prev, lease, head, tombstones>>
  BY <1>3 DEF ClaimUnreferenced, tables
<1>4. ASSUME NEW p \in Payloads, PrunePayload(p)
      PROVE  UNCHANGED <<records, prev, lease, head, tombstones>>
  BY <1>4 DEF PrunePayload
<1>5. CASE UNCHANGED vars
  BY <1>5 DEF vars
<1> QED  BY <1>1, <1>2, <1>3, <1>4, <1>5 DEF Next

\* All of RowsStored but the item rows, with what it takes to keep it.
RecordRows ==
    /\ \A r \in records : prev[r] \in records \cup {None}
    /\ \A o \in Owners : lease[o] \in records \cup {None}
    /\ \A c \in Convs : head[c] \in records \cup {None}
    /\ tombstones \subseteq records
    /\ OwnLease
    /\ HeadLeased

\* After every step what a record points at is still stored.
LEMMA RecordRowsStep == IInv /\ [Next]_vars => RecordRows'
<1> SUFFICES ASSUME IInv, [Next]_vars PROVE RecordRows'
  OBVIOUS
<1>0. /\ TypeOK
      /\ RecordRows
      /\ \A c \in Convs : c \in Owners /\ c \notin Responses
      /\ \A r \in Responses : r \in Owners /\ r # None /\ r \notin Convs
  BY IdsAssumption DEF IInv, RowsStored, RecordRows, Owners
<1>1. ASSUME NEW r \in Responses, NEW p \in Payloads, Begin(r, p) PROVE RecordRows'
  <2>1. /\ records' = records \cup {r} /\ prev' = [prev EXCEPT ![r] = parent[r]]
        /\ lease' = [lease EXCEPT ![r] = r] /\ head' = head /\ tombstones' = tombstones
        /\ parent[r] \in records \cup {None}
    BY <1>1 DEF Begin, ParentStored
  <2>2. \A x \in records' : prev'[x] \in records' \cup {None}
    BY <1>0, <2>1 DEF RecordRows, TypeOK
  <2>3. \A o \in Owners : lease'[o] = IF o = r THEN r ELSE lease[o]
    BY <1>0, <2>1 DEF TypeOK
  <2> QED  BY <1>0, <2>1, <2>2, <2>3 DEF RecordRows, OwnLease, HeadLeased
<1>2. ASSUME NEW r \in Responses, Finish(r), conv[r] # None PROVE RecordRows'
  <2>1. /\ conv[r] \in Convs /\ MoveHead(conv[r], r) /\ r \in records
        /\ UNCHANGED <<records, prev, tombstones>>
    BY <1>0, <1>2 DEF Finish, Transition, TypeOK
  <2>2. \A o \in Owners : lease'[o] = IF o = conv[r] THEN r ELSE lease[o]
    BY <1>0, <2>1 DEF MoveHead, TypeOK
  <2>3. \A c \in Convs : head'[c] = IF c = conv[r] THEN r ELSE head[c]
    BY <1>0, <2>1 DEF MoveHead, TypeOK
  <2> QED  BY <1>0, <2>1, <2>2, <2>3 DEF RecordRows, OwnLease, HeadLeased
<1>3. ASSUME NEW r \in Responses, Delete(r) PROVE RecordRows'
  <2>1. r \in records /\ tombstones' = tombstones \cup {r} /\ UNCHANGED <<records, prev>>
    BY <1>3 DEF Delete, Visible
  <2>2. \A o \in Owners :
            lease'[o] = IF o = r \/ (o \in Convs /\ head[o] = r) THEN None ELSE lease[o]
    BY <1>3 DEF Delete
  <2>3. \A c \in Convs : head'[c] = IF head[c] = r THEN None ELSE head[c]
    BY <1>3 DEF Delete
  <2>4. \A o \in Owners : lease'[o] \in records \cup {None}
    BY <1>0, <2>2 DEF RecordRows
  <2>5. OwnLease'
    BY <1>0, <2>2 DEF RecordRows, OwnLease
  <2>6. HeadLeased'
    BY <1>0, <2>2, <2>3 DEF RecordRows, HeadLeased
  <2> QED  BY <1>0, <2>1, <2>3, <2>4, <2>5, <2>6 DEF RecordRows
<1>4. ASSUME NEW r \in Responses, ExpireLease(r) PROVE RecordRows'
  <2>1. \A o \in Owners : lease'[o] = IF o = r THEN None ELSE lease[o]
    BY <1>0, <1>4 DEF ExpireLease, TypeOK
  <2>2. UNCHANGED <<records, prev, tombstones, head>>
    BY <1>4 DEF ExpireLease
  <2> QED  BY <1>0, <2>1, <2>2 DEF RecordRows, OwnLease, HeadLeased
<1>5. ASSUME NEW j \in Jobs, WalkDelete(j) PROVE RecordRows'
  <2> DEFINE r == job[j].cursor
  <2>1. r \in Responses /\ Children(r) = {} /\ LeasesOn(r) = {}
    BY <1>5, WalkTakesUnheld
  <2>2. /\ records' = records \ {r} /\ prev' = [prev EXCEPT ![r] = None]
        /\ tombstones' = tombstones \ {r} /\ UNCHANGED <<lease, head>>
    BY <1>5 DEF WalkDelete
  <2> HIDE DEF r
  <2>3. \A x \in records : prev[x] # r
    BY <2>1 DEF Children
  <2>4. \A o \in Owners : lease[o] # r
    BY <2>1 DEF LeasesOn
  <2>5. \A c \in Convs : head[c] # r
    BY <1>0, <2>4 DEF RecordRows, HeadLeased
  <2>6. \A x \in records' : prev'[x] \in records' \cup {None}
    BY <1>0, <2>2, <2>3 DEF RecordRows, TypeOK
  <2> QED  BY <1>0, <2>2, <2>4, <2>5, <2>6 DEF RecordRows, OwnLease, HeadLeased
<1>6. CASE UNCHANGED <<records, prev, lease, head, tombstones>>
  BY <1>0, <1>6 DEF RecordRows, OwnLease, HeadLeased
<1> QED  BY <1>1, <1>2, <1>3, <1>4, <1>5, <1>6, RowSteps

-----------------------------------------------------------------------------
(* The theorems.                                                           *)

\* Every write of the store and every job of the collectors keeps the invariant.
LEMMA IInvStep == IInv /\ [Next]_vars => IInv'
<1> SUFFICES ASSUME IInv, [Next]_vars PROVE IInv'
  OBVIOUS
<1>1. TypeOK' /\ JobsBounded'
  BY TypeStep DEF IInv
<1>2. RefcountsExact'
  BY CountersStep
<1>3. RowsStored' /\ OwnLease' /\ HeadLeased'
  BY RecordRowsStep, ItemRowsStep DEF RecordRows, RowsStored
<1> QED  BY <1>1, <1>2, <1>3 DEF IInv

\* The inductive invariant holds in every reachable state.
THEOREM Invariance == Spec => []IInv
<1>1. Init => IInv
  BY InitIInv
<1>2. IInv /\ [Next]_vars => IInv'
  BY IInvStep
<1> QED  BY <1>1, <1>2, PTL DEF Spec

\* Every table and every request's local state stays well typed.
THEOREM TypeCorrect == Spec => []TypeOK
<1>1. IInv => TypeOK
  BY DEF IInv
<1> QED  BY <1>1, Invariance, PTL

\* child_refcount, lease_refcount and payloads.refcount, which the triggers of
\* migration 0002 maintain, always count exactly the rows they stand for.
THEOREM CountersCorrect == Spec => []RefcountsExact
<1>1. IInv => RefcountsExact
  BY DEF IInv
<1> QED  BY <1>1, Invariance, PTL

\* Previous responses, leased responses, conversation heads, tombstoned
\* responses, and the record and payload of every item row are stored.
THEOREM ReferencesStored == Spec => []RowsStored
<1>1. IInv => RowsStored
  BY DEF IInv
<1> QED  BY <1>1, Invariance, PTL

\* A conversation's live lease is on its head.
THEOREM HeadIsLeased == Spec => []HeadLeased
<1>1. IInv => HeadLeased
  BY DEF IInv
<1> QED  BY <1>1, Invariance, PTL

\* No job, and nobody else, removes a record that a stored child or a live
\* lease holds, whatever requests and deletes it is interleaved with.
THEOREM HeldRecordsAreKept == Spec => HeldRecordsStay
<1> DEFINE Kept == \A r \in records : Children(r) # {} \/ LeasesOn(r) # {} => r \in records'
<1>1. IInv /\ [Next]_vars => [Kept]_vars
  <2> SUFFICES ASSUME IInv, [Next]_vars, NEW r \in records, Children(r) # {} \/ LeasesOn(r) # {}
               PROVE  r \in records'
    OBVIOUS
  <2>1. ASSUME NEW x \in Responses, NEW p \in Payloads, Begin(x, p) PROVE r \in records'
    BY <2>1 DEF Begin
  <2>2. ASSUME NEW j \in Jobs, WalkDelete(j) PROVE r \in records'
    <3>1. job[j].cursor # r
      BY <2>2, WalkTakesUnheld
    <3> QED  BY <2>2, <3>1 DEF WalkDelete
  <2>3. CASE UNCHANGED <<records, prev, childRefs>>
    BY <2>3
  <2> QED  BY <2>1, <2>2, <2>3, ChildSteps
<1> QED  BY <1>1, Invariance, PTL DEF Spec, HeldRecordsStay

-----------------------------------------------------------------------------
(* The lineages.                                                           *)

\* A request that has been to begin_response will not go there again, so its
\* id, once reaped, stays absent.
Begun(x) == pc[x] \in {"running", "ended"}

\* A record is its request's, and continues what its request named.
Progress ==
    /\ \A r \in records : Begun(r) /\ prev[r] = parent[r]
    /\ \A r \in Responses : parent[r] # None => Begun(parent[r])

\* A request waits for nobody: what it is about to continue was settled when
\* it was checked, and has not changed or is gone.
ParentsSettled ==
    \A r \in Responses :
        pc[r] \in {"checked", "prepared"} /\ parent[r] \in records =>
            status[parent[r]] \in Terminal

\* The chain of previous responses descends, in the order of their creation.
Descends(rank) == \A r \in records : prev[r] # None => rank[prev[r]] < rank[r]

\* Some ranking of the responses descends along every chain.
Acyclic == \E rank \in [Responses -> Nat] : Descends(rank)

\* The replay base is copied down the chain from a response without one.
BasesInherited == \A r \in records : base[r] = IF prev[r] = None THEN r ELSE base[prev[r]]

\* What a request has read stays what its parent's replay returns, for as long
\* as the parent is stored.
ContextsCurrent ==
    \A r \in Responses :
        pc[r] \in {"prepared", "running"} /\ parent[r] \in records =>
            context[r] = Lineage(parent[r])

\* What holds of the chains of stored responses.
Chains == Progress /\ SettledParents /\ ParentsSettled /\ BasesInherited /\ Acyclic /\ BasesStored

\* The inductive invariant: nothing refers to what the collectors take, so the
\* chains that their counters protect stay whole.
LInv == IInv /\ Chains /\ ContextsCurrent

-----------------------------------------------------------------------------
(* What a step leaves of the rows it does not take.                        *)

\* The steps that change the records or their chains.
LEMMA ChainSteps ==
    ASSUME [Next]_vars
    PROVE  \/ \E r \in Responses, p \in Payloads : Begin(r, p)
           \/ \E j \in Jobs : WalkDelete(j)
           \/ UNCHANGED <<records, prev, base>>
<1>1. ASSUME NEW r \in Responses, Request(r)
      PROVE  (\E p \in Payloads : Begin(r, p)) \/ UNCHANGED <<records, prev, base>>
  BY <1>1 DEF Request, tables, CheckFresh, CheckPrevious, CheckConversation, Check, ReadReplay,
              BeginRejected, AppendOutput, ReplaceOutput, Finish, Transition, Abort, LostRecord, Crash
<1>2. ASSUME NEW j \in Jobs, Collect(j)
      PROVE  WalkDelete(j) \/ UNCHANGED <<records, prev, base>>
  BY <1>2 DEF Collect, tables, CronCall, CallDone, WalkEnd
<1>3. ASSUME NEW r \in Responses, Delete(r) \/ ExpireLease(r) \/ ClaimUnreferenced(r)
      PROVE  UNCHANGED <<records, prev, base>>
  BY <1>3 DEF Delete, ExpireLease, ClaimUnreferenced, tables
<1>4. ASSUME NEW p \in Payloads, PrunePayload(p) PROVE UNCHANGED <<records, prev, base>>
  BY <1>4 DEF PrunePayload
<1>5. CASE UNCHANGED vars
  BY <1>5 DEF vars
<1> QED  BY <1>1, <1>2, <1>3, <1>4, <1>5 DEF Next

\* The effect of begin_response on the chains.
Begins(r) ==
    /\ r \in Responses \ records /\ pc[r] = "prepared"
    /\ parent[r] \in records \cup {None}
    /\ records' = records \cup {r}
    /\ prev' = [prev EXCEPT ![r] = parent[r]]
    /\ base' = [base EXCEPT ![r] = IF parent[r] = None THEN r ELSE base[parent[r]]]

\* The effect of a deletion by a collector on the chains.
Reaps(r) ==
    /\ r \in records /\ Children(r) = {} /\ LeasesOn(r) = {}
    /\ records' = records \ {r}
    /\ prev' = [prev EXCEPT ![r] = None]
    /\ base' = [base EXCEPT ![r] = None]

\* Only the creation of a response and the garbage collector write the chain's columns.
LEMMA ChainChanges ==
    ASSUME IInv, [Next]_vars
    PROVE  \/ \E r \in Responses : Begins(r)
           \/ \E r \in Responses : Reaps(r)
           \/ UNCHANGED <<records, prev, base>>
<1>1. ASSUME NEW r \in Responses, NEW p \in Payloads, Begin(r, p) PROVE Begins(r)
  BY <1>1 DEF Begin, ParentStored, Begins
<1>2. ASSUME NEW j \in Jobs, WalkDelete(j) PROVE Reaps(job[j].cursor)
  BY <1>2, WalkTakesUnheld DEF WalkDelete, Collectable, Reaps
<1> QED  BY <1>1, <1>2, ChainSteps, WalkTakesUnheld

\* A record that stays keeps its place in the chain, and so does the record it
\* continues: that one has a child.
LEMMA ChainStays ==
    ASSUME IInv, [Next]_vars, NEW x \in records, x \in records'
    PROVE  /\ prev'[x] = prev[x] /\ base'[x] = base[x]
           /\ prev[x] # None => prev[x] \in records /\ prev[x] \in records'
<1>1. /\ x \in Responses /\ x # None
      /\ prev \in [Responses -> Responses \cup {None}]
      /\ base \in [Responses -> Responses \cup {None}]
      /\ prev[x] \in records \cup {None}
  BY IdsAssumption DEF IInv, TypeOK, RowsStored
<1>2. ASSUME NEW r \in Responses, Begins(r)
      PROVE  prev'[x] = prev[x] /\ base'[x] = base[x] /\ records \subseteq records'
  BY <1>1, <1>2 DEF Begins
<1>3. ASSUME NEW r \in Responses, Reaps(r)
      PROVE  prev'[x] = prev[x] /\ base'[x] = base[x] /\ prev[x] # r /\ records' = records \ {r}
  BY <1>1, <1>3 DEF Reaps, Children
<1> QED  BY <1>1, <1>2, <1>3, ChainChanges

-----------------------------------------------------------------------------
(* Progress of the requests.                                               *)

\* How the phase and the parent of a request change: its own steps only.
LEMMA PhaseSteps ==
    ASSUME TypeOK, [Next]_vars, NEW x \in Responses
    PROVE  \/ pc'[x] = pc[x] /\ parent'[x] = parent[x]
           \/ pc[x] = "idle" /\ pc'[x] = "checked" /\ UNCHANGED records
                /\ \/ parent'[x] = None
                   \/ Replayable(parent'[x])
                   \/ \E c \in Convs : parent'[x] = head[c]
           \/ pc[x] = "checked" /\ pc'[x] = "prepared" /\ parent'[x] = parent[x]
                /\ ReadReplay(x)
           \/ pc[x] = "prepared" /\ pc'[x] = "running" /\ parent'[x] = parent[x]
           \/ pc[x] # "idle" /\ pc'[x] = "ended" /\ parent'[x] = parent[x]
<1> USE DEF TypeOK
<1>1. ASSUME NEW r \in Responses, NEW p, NEW c, Check(r, p, c)
      PROVE  /\ pc'[x] = IF x = r THEN "checked" ELSE pc[x]
             /\ parent'[x] = IF x = r THEN p ELSE parent[x]
             /\ pc[r] = "idle" /\ UNCHANGED records
  BY <1>1 DEF Check, tables
<1>2. ASSUME NEW r \in Responses, ReadReplay(r)
      PROVE  /\ pc'[x] = IF x = r THEN "prepared" ELSE pc[x]
             /\ parent'[x] = parent[x] /\ pc[r] = "checked"
  BY <1>2 DEF ReadReplay
<1>3. ASSUME NEW r \in Responses, NEW p \in Payloads, Begin(r, p)
      PROVE  /\ pc'[x] = IF x = r THEN "running" ELSE pc[x]
             /\ parent'[x] = parent[x] /\ pc[r] = "prepared"
  BY <1>3 DEF Begin
<1>4. ASSUME NEW r \in Responses, BeginRejected(r) \/ Finish(r) \/ Abort(r) \/ LostRecord(r) \/ Crash(r)
      PROVE  /\ pc'[x] = IF x = r THEN "ended" ELSE pc[x]
             /\ parent'[x] = parent[x] /\ pc[r] # "idle"
  BY <1>4 DEF BeginRejected, Finish, Transition, Abort, LostRecord, Crash
<1>5. ASSUME NEW r \in Responses, \E s \in Slots, p \in Payloads : AppendOutput(r, s, p) \/ ReplaceOutput(r, s, p)
      PROVE  UNCHANGED <<pc, parent>>
  BY <1>5 DEF AppendOutput, ReplaceOutput, requests
<1>6. ASSUME NEW r \in Responses, Delete(r) \/ ExpireLease(r) \/ ClaimUnreferenced(r)
      PROVE  UNCHANGED <<pc, parent>>
  BY <1>6 DEF Delete, ExpireLease, ClaimUnreferenced, requests
<1>7. ASSUME NEW j \in Jobs, Collect(j) PROVE UNCHANGED <<pc, parent>>
  BY <1>7 DEF Collect, CronCall, CallDone, WalkDelete, WalkEnd, requests
<1>8. ASSUME NEW p \in Payloads, PrunePayload(p) PROVE UNCHANGED <<pc, parent>>
  BY <1>8 DEF PrunePayload, requests
<1>9. CASE UNCHANGED vars
  BY <1>9 DEF vars
<1>10. ASSUME NEW r \in Responses, CheckFresh(r)
       PROVE  Check(r, None, None)
  BY <1>10 DEF CheckFresh
<1>11. ASSUME NEW r \in Responses, NEW p \in Responses, CheckPrevious(r, p)
       PROVE  Check(r, p, None) /\ Replayable(p)
  BY <1>11 DEF CheckPrevious
<1>12. ASSUME NEW r \in Responses, NEW c \in Convs, CheckConversation(r, c)
       PROVE  Check(r, head[c], c)
  BY <1>12 DEF CheckConversation
<1>13. ASSUME NEW r \in Responses, Request(r)
       PROVE  \/ CheckFresh(r) \/ \E p \in Responses : CheckPrevious(r, p)
              \/ \E c \in Convs : CheckConversation(r, c)
              \/ ReadReplay(r) \/ \E p \in Payloads : Begin(r, p)
              \/ BeginRejected(r) \/ Finish(r) \/ Abort(r) \/ LostRecord(r) \/ Crash(r)
              \/ UNCHANGED <<pc, parent>>
  BY <1>13, <1>5 DEF Request
<1>14. ASSUME NEW r \in Responses, CheckFresh(r) \/ \E p \in Responses : CheckPrevious(r, p)
                                      \/ \E c \in Convs : CheckConversation(r, c)
       PROVE  \/ pc'[x] = pc[x] /\ parent'[x] = parent[x]
              \/ pc[x] = "idle" /\ pc'[x] = "checked" /\ UNCHANGED records
                   /\ \/ parent'[x] = None
                      \/ Replayable(parent'[x])
                      \/ \E c \in Convs : parent'[x] = head[c]
  <2>1. CASE CheckFresh(r)
    BY <2>1, <1>10, <1>1
  <2>2. ASSUME NEW p \in Responses, CheckPrevious(r, p)
        PROVE  \/ pc'[x] = pc[x] /\ parent'[x] = parent[x]
               \/ pc[x] = "idle" /\ pc'[x] = "checked" /\ UNCHANGED records /\ Replayable(parent'[x])
    BY <2>2, <1>11, <1>1
  <2>3. ASSUME NEW c \in Convs, CheckConversation(r, c)
        PROVE  \/ pc'[x] = pc[x] /\ parent'[x] = parent[x]
               \/ pc[x] = "idle" /\ pc'[x] = "checked" /\ UNCHANGED records /\ parent'[x] = head[c]
    BY <2>3, <1>12, <1>1
  <2> QED  BY <1>14, <2>1, <2>2, <2>3
<1>15. ASSUME NEW r \in Responses,
              \/ ReadReplay(r) \/ \E p \in Payloads : Begin(r, p)
              \/ BeginRejected(r) \/ Finish(r) \/ Abort(r) \/ LostRecord(r) \/ Crash(r)
       PROVE  \/ pc'[x] = pc[x] /\ parent'[x] = parent[x]
              \/ pc[x] = "checked" /\ pc'[x] = "prepared" /\ parent'[x] = parent[x] /\ ReadReplay(x)
              \/ pc[x] = "prepared" /\ pc'[x] = "running" /\ parent'[x] = parent[x]
              \/ pc[x] # "idle" /\ pc'[x] = "ended" /\ parent'[x] = parent[x]
  <2>1. CASE ReadReplay(r)
    BY <2>1, <1>2
  <2>2. CASE \E p \in Payloads : Begin(r, p)
    BY <2>2, <1>3
  <2>3. CASE BeginRejected(r) \/ Finish(r) \/ Abort(r) \/ LostRecord(r) \/ Crash(r)
    BY <2>3, <1>4
  <2> QED  BY <1>15, <2>1, <2>2, <2>3
<1>16. ASSUME NEW r \in Responses, Request(r)
       PROVE  \/ CheckFresh(r) \/ \E p \in Responses : CheckPrevious(r, p)
              \/ \E c \in Convs : CheckConversation(r, c)
              \/ ReadReplay(r) \/ \E p \in Payloads : Begin(r, p)
              \/ BeginRejected(r) \/ Finish(r) \/ Abort(r) \/ LostRecord(r) \/ Crash(r)
              \/ pc'[x] = pc[x] /\ parent'[x] = parent[x]
  BY <1>16, <1>13
<1>17. CASE UNCHANGED <<pc, parent>>
  BY <1>17
<1>18. ASSUME NEW r \in Responses, Request(r)
       PROVE  \/ pc'[x] = pc[x] /\ parent'[x] = parent[x]
              \/ pc[x] = "idle" /\ pc'[x] = "checked" /\ UNCHANGED records
                   /\ \/ parent'[x] = None
                      \/ Replayable(parent'[x])
                      \/ \E c \in Convs : parent'[x] = head[c]
              \/ pc[x] = "checked" /\ pc'[x] = "prepared" /\ parent'[x] = parent[x] /\ ReadReplay(x)
              \/ pc[x] = "prepared" /\ pc'[x] = "running" /\ parent'[x] = parent[x]
              \/ pc[x] # "idle" /\ pc'[x] = "ended" /\ parent'[x] = parent[x]
  BY <1>14, <1>15, <1>16, <1>18
<1> QED  BY <1>6, <1>7, <1>8, <1>9, <1>17, <1>18 DEF Next

\* A transaction's progress (what it has read and checked so far) only grows within it.
LEMMA ProgressStep ==
    ASSUME IInv, Progress, [Next]_vars
    PROVE  Progress'
<1>0. /\ TypeOK /\ None \notin Responses
      /\ \A r \in records : Begun(r) /\ prev[r] = parent[r] /\ r \in Responses
      /\ \A r \in Responses : parent[r] # None => Begun(parent[r]) /\ parent[r] \in Responses
      /\ \A c \in Convs : head[c] \in records \cup {None}
  BY IdsAssumption DEF IInv, Progress, RowsStored, TypeOK

\* Who has begun stays so, and keeps its parent.
<1>1. ASSUME NEW x \in Responses, Begun(x) PROVE Begun(x)' /\ parent'[x] = parent[x]
  BY <1>0, <1>1, PhaseSteps DEF Begun
<1>2. ASSUME NEW x \in records' PROVE Begun(x)' /\ prev'[x] = parent'[x]
  <2>1. ASSUME NEW r \in Responses, Begins(r), x = r PROVE Begun(x)' /\ prev'[x] = parent'[x]
    <3>1. ASSUME NEW y \in Responses, NEW p \in Payloads, Begin(y, p)
          PROVE  pc'[y] = "running" /\ parent' = parent /\ records' = records \cup {y}
      BY <1>0, <3>1 DEF Begin, TypeOK
    <3>2. ASSUME NEW j \in Jobs, WalkDelete(j) PROVE r \notin records'
      BY <2>1, <3>2 DEF WalkDelete, Begins
    <3>3. r \in records' /\ r \notin records /\ prev'[r] = parent[r]
      BY <1>0, <2>1 DEF Begins, TypeOK
    <3>4. PICK y \in Responses, p \in Payloads : Begin(y, p)
      BY <3>2, <3>3, ChainSteps
    <3> QED  BY <2>1, <3>1, <3>3, <3>4 DEF Begun
  <2>2. CASE x \in records
    BY <1>0, <1>1, <2>2, ChainStays
  <2>3. ASSUME NEW r \in Responses, Reaps(r) PROVE x \in records
    BY <2>3 DEF Reaps
  <2>4. ASSUME NEW r \in Responses, Begins(r) PROVE x = r \/ x \in records
    BY <2>4 DEF Begins
  <2> QED  BY <2>1, <2>2, <2>3, <2>4, ChainChanges
<1>3. ASSUME NEW x \in Responses, NEW y \in Responses, y = parent'[x] PROVE Begun(y)'
  <2>1. CASE parent'[x] = parent[x]
    BY <1>0, <1>1, <1>3, <2>1
  <2>2. CASE parent'[x] # parent[x]
    <3>1. y \in records
      BY <1>0, <1>3, <2>2, PhaseSteps DEF Replayable, Visible
    <3> QED  BY <1>0, <1>1, <3>1
  <2> QED  BY <2>1, <2>2
<1>4. TypeOK'
  BY TypeStep DEF IInv
<1>5. \A x \in Responses : parent'[x] # None => parent'[x] \in Responses
  BY <1>4 DEF TypeOK
<1> QED  BY <1>2, <1>3, <1>5 DEF Progress, Begun

-----------------------------------------------------------------------------
(* Settled responses.                                                      *)

\* A stored response that has ended keeps its status for as long as it is
\* stored.
LEMMA StatusStays ==
    ASSUME IInv, [Next]_vars, NEW x \in records, x \in records', status[x] \in Terminal
    PROVE  status'[x] \in Terminal
<1>0. TypeOK /\ x \in Responses /\ status[x] # "in_progress"
  BY DEF IInv, TypeOK, Terminal
<1>1. ASSUME NEW r \in Responses, NEW p \in Payloads, Begin(r, p) PROVE status'[x] = status[x]
  BY <1>0, <1>1 DEF Begin, TypeOK
<1>2. ASSUME NEW r \in Responses, Finish(r) \/ Abort(r) PROVE status'[x] = status[x]
  BY <1>0, <1>2 DEF Finish, Abort, Transition, TypeOK
<1>3. ASSUME NEW r \in Responses, Request(r)
      PROVE  (\E p \in Payloads : Begin(r, p)) \/ Finish(r) \/ Abort(r) \/ UNCHANGED status
  BY <1>3 DEF Request, tables, CheckFresh, CheckPrevious, CheckConversation, Check, ReadReplay,
              BeginRejected, AppendOutput, ReplaceOutput, LostRecord, Crash
<1>4. ASSUME NEW j \in Jobs, Collect(j) PROVE status'[x] = status[x]
  <2>1. ASSUME WalkDelete(j) PROVE status'[x] = status[x]
    BY <1>0, <2>1 DEF WalkDelete, TypeOK
  <2> QED  BY <1>4, <2>1 DEF Collect, tables, CronCall, CallDone, WalkEnd
<1>5. ASSUME NEW r \in Responses, Delete(r) \/ ExpireLease(r) \/ ClaimUnreferenced(r)
      PROVE  UNCHANGED status
  BY <1>5 DEF Delete, ExpireLease, ClaimUnreferenced, tables
<1>6. ASSUME NEW p \in Payloads, PrunePayload(p) PROVE UNCHANGED status
  BY <1>6 DEF PrunePayload
<1>7. CASE UNCHANGED vars
  BY <1>7 DEF vars
<1> QED  BY <1>1, <1>2, <1>3, <1>4, <1>5, <1>6, <1>7 DEF Next

\* A head is where it was, or is a response that finishes in this step.
LEMMA HeadSteps ==
    ASSUME IInv, [Next]_vars, NEW c \in Convs
    PROVE  \/ head'[c] = None
           \/ head'[c] = head[c] /\ head[c] \in records /\ head[c] \in records'
           \/ head'[c] \in records /\ head'[c] \in records' /\ status'[head'[c]] = "completed"
<1>0. TypeOK /\ head[c] \in records \cup {None} /\ lease[c] = head[c] /\ c \in Owners
  BY DEF IInv, RowsStored, HeadLeased, Owners
<1>1. ASSUME NEW r \in Responses, NEW p \in Payloads, Begin(r, p)
      PROVE  head' = head /\ records \subseteq records'
  BY <1>1 DEF Begin
<1>2. ASSUME NEW r \in Responses, Finish(r), conv[r] # None
      PROVE  /\ head'[c] = head[c] \/ head'[c] = r
             /\ r \in records /\ records' = records /\ status'[r] = "completed"
  <2>1. conv[r] \in Convs /\ MoveHead(conv[r], r)
    BY <1>0, <1>2 DEF Finish, TypeOK
  <2>2. head'[c] = head[c] \/ head'[c] = r
    BY <1>0, <2>1 DEF MoveHead, TypeOK
  <2> QED  BY <1>0, <1>2, <2>2 DEF Finish, Transition, TypeOK
<1>3. ASSUME NEW r \in Responses, Delete(r)
      PROVE  head'[c] \in {None, head[c]} /\ records' = records
  BY <1>3 DEF Delete
<1>4. ASSUME NEW r \in Responses, ExpireLease(r) PROVE head' = head /\ records' = records
  BY <1>4 DEF ExpireLease
<1>5. ASSUME NEW j \in Jobs, WalkDelete(j)
      PROVE  head' = head /\ records' = records \ {job[j].cursor} /\ head[c] # job[j].cursor
  <2>1. head' = head /\ records' = records \ {job[j].cursor}
    BY <1>5 DEF WalkDelete
  <2>2. c \notin LeasesOn(job[j].cursor)
    BY <1>5, WalkTakesUnheld
  <2> QED  BY <1>0, <2>1, <2>2 DEF LeasesOn
<1>6. CASE UNCHANGED <<records, prev, lease, head, tombstones>>
  BY <1>0, <1>6
<1>7. ASSUME NEW r \in Responses, Finish(r), conv[r] # None
      PROVE  \/ head'[c] = None
             \/ head'[c] = head[c] /\ head[c] \in records /\ head[c] \in records'
             \/ head'[c] \in records /\ head'[c] \in records' /\ status'[head'[c]] = "completed"
  BY <1>0, <1>2, <1>7
<1> QED  BY <1>0, <1>1, <1>3, <1>4, <1>5, <1>6, <1>7, RowSteps

\* No step of another transaction or collector unsettles a parent: a finished response
\* never runs again, and only its own deletion takes it away.
LEMMA SettledStep ==
    ASSUME IInv, Progress, SettledParents, ParentsSettled, [Next]_vars
    PROVE  SettledParents' /\ ParentsSettled'
<1>0. /\ TypeOK /\ None \notin records
      /\ \A r \in records : r \in Responses /\ prev[r] \in records \cup {None}
      /\ \A c \in Convs : head[c] \in records \cup {None}
  BY IdsAssumption DEF IInv, RowsStored, TypeOK
<1>1. ASSUME NEW r \in records', prev'[r] # None PROVE status'[prev'[r]] \in Terminal
  <2>1. CASE r \in records
    <3>1. prev'[r] = prev[r] /\ prev[r] \in records /\ prev[r] \in records'
      BY <1>1, <2>1, ChainStays
    <3>2. status[prev[r]] \in Terminal
      BY <1>1, <2>1, <3>1 DEF SettledParents
    <3> QED  BY <3>1, <3>2, StatusStays
  <2>2. CASE r \notin records
    <3>1. Begins(r)
      <4>1. ASSUME NEW x \in Responses, Reaps(x) PROVE FALSE
        BY <2>2, <4>1 DEF Reaps
      <4>2. ASSUME NEW x \in Responses, Begins(x) PROVE x = r
        BY <2>2, <4>2 DEF Begins
      <4> QED  BY <2>2, <4>1, <4>2, ChainChanges
    <3>2. prev'[r] = parent[r] /\ pc[r] = "prepared" /\ parent[r] \in records \cup {None}
          /\ records \subseteq records'
      BY <1>0, <3>1 DEF Begins, TypeOK
    <3>3. status[parent[r]] \in Terminal
      BY <1>1, <3>1, <3>2 DEF ParentsSettled, Begins
    <3> QED  BY <1>1, <3>2, <3>3, StatusStays
  <2> QED  BY <2>1, <2>2
<1>2. ASSUME NEW c \in Convs, head'[c] # None PROVE status'[head'[c]] \in Terminal
  <2>1. CASE head'[c] = head[c] /\ head[c] \in records /\ head[c] \in records'
    <3>1. status[head[c]] \in Terminal
      BY <1>2, <2>1 DEF SettledParents
    <3> QED  BY <2>1, <3>1, StatusStays
  <2>2. CASE status'[head'[c]] = "completed"
    BY <2>2 DEF Terminal
  <2> QED  BY <1>2, <2>1, <2>2, HeadSteps
<1>3. ASSUME NEW r \in Responses, pc'[r] \in {"checked", "prepared"}, parent'[r] \in records'
      PROVE  status'[parent'[r]] \in Terminal
  <2>1. CASE pc[r] \in {"checked", "prepared"}
    <3>1. parent'[r] = parent[r]
      BY <1>0, <2>1, PhaseSteps
    <3>2. parent[r] \in records
      <4> SUFFICES ASSUME parent[r] \notin records PROVE FALSE
        OBVIOUS
      <4>1. PICK x \in Responses : Begins(x) /\ x = parent[r]
        <5>1. ASSUME NEW x \in Responses, Reaps(x) PROVE FALSE
          BY <1>3, <3>1, <5>1 DEF Reaps
        <5>2. ASSUME NEW x \in Responses, Begins(x) PROVE x = parent[r]
          BY <1>3, <3>1, <5>2 DEF Begins
        <5> QED  BY <1>3, <3>1, <5>1, <5>2, ChainChanges
      <4> QED  BY <4>1, IdsAssumption DEF Begins, Progress, Begun
    <3>3. status[parent[r]] \in Terminal
      BY <2>1, <3>2 DEF ParentsSettled
    <3> QED  BY <1>3, <3>1, <3>2, <3>3, StatusStays
  <2>2. CASE pc[r] \notin {"checked", "prepared"}
    <3>1. /\ pc[r] = "idle" /\ records' = records
          /\ \/ parent'[r] = None
             \/ Replayable(parent'[r])
             \/ \E c \in Convs : parent'[r] = head[c]
      BY <1>0, <1>3, <2>2, PhaseSteps
    <3>2. parent'[r] \in records /\ status[parent'[r]] \in Terminal
      BY <1>0, <1>3, <3>1 DEF Replayable, Visible, SettledParents
    <3> QED  BY <1>3, <3>2, StatusStays
  <2> QED  BY <2>1, <2>2
<1> QED  BY <1>1, <1>2, <1>3 DEF SettledParents, ParentsSettled

-----------------------------------------------------------------------------
(* Chains and replay bases.                                                *)

\* S holds a record whenever it holds the one that record continues.
FollowsChains(S) == \A x \in records : (prev[x] # None => prev[x] \in S) => x \in S

\* Induction along the chains, over the set of the records with a property.
LEMMA ChainInduction ==
    ASSUME TypeOK, RowsStored, Acyclic, NEW S, FollowsChains(S)
    PROVE  records \subseteq S
<1>1. PICK rank \in [Responses -> Nat] : Descends(rank)
  BY DEF Acyclic
<1> DEFINE Ranks == {rank[x] : x \in records \ S}
<1> SUFFICES ASSUME records \ S # {} PROVE FALSE
  OBVIOUS
<1>2. Ranks \in SUBSET Nat /\ Ranks # {}
  BY DEF TypeOK
<1>3. PICK n \in Ranks : \A m \in Ranks : n <= m
  <2> HIDE DEF Ranks
  <2> QED  BY <1>2, LeastNumber
<1>4. PICK x \in records \ S : n = rank[x]
  OBVIOUS
<1>5. prev[x] # None /\ prev[x] \notin S
  BY <1>4 DEF FollowsChains
<1>6. prev[x] \in records \ S /\ rank[prev[x]] < rank[x]
  BY <1>1, <1>4, <1>5 DEF RowsStored, Descends
<1>7. rank[prev[x]] \in Ranks
  BY <1>6
<1>8. n \in Nat /\ rank[prev[x]] \in Nat
  BY <1>2, <1>7
<1> HIDE DEF Ranks
<1> QED  BY <1>3, <1>4, <1>6, <1>7, <1>8

\* The chain holds the replay base: below it there is always a stored child.
LEMMA BaseHeld ==
    ASSUME IInv, Chains, NEW x \in records
    PROVE  base[x] = x \/ Children(base[x]) # {}
<1> DEFINE S == {y \in records : base[y] = y \/ Children(base[y]) # {}}
<1>1. ASSUME NEW y \in records, prev[y] # None => prev[y] \in S PROVE y \in S
  <2>1. CASE prev[y] = None
    BY <2>1 DEF Chains, BasesInherited
  <2>2. CASE prev[y] # None
    <3>1. base[y] = base[prev[y]] /\ prev[y] \in S
      BY <1>1, <2>2 DEF Chains, BasesInherited
    <3>2. y \in Children(prev[y])
      BY DEF Children
    <3> QED  BY <3>1, <3>2
  <2> QED  BY <2>1, <2>2
<1>2. FollowsChains(S)
  <2> HIDE DEF S
  <2> QED  BY <1>1 DEF FollowsChains
<1>3. records \subseteq S
  <2> HIDE DEF S
  <2> QED  BY <1>2, ChainInduction DEF IInv, Chains
<1> QED  BY <1>3

\* No step closes a loop: a new response points at an older one, and nothing repoints.
LEMMA AcyclicStep ==
    ASSUME IInv, Chains, [Next]_vars
    PROVE  Acyclic'
<1>0. /\ TypeOK /\ None \notin Responses /\ records \subseteq Responses
      /\ \A x \in records : prev[x] \in records \cup {None}
  BY IdsAssumption DEF IInv, TypeOK, RowsStored
<1>1. PICK rank \in [Responses -> Nat] : Descends(rank)
  BY DEF Chains, Acyclic
<1>2. ASSUME NEW r \in Responses, Begins(r) PROVE Acyclic'
  <2> DEFINE new == [rank EXCEPT ![r] = IF parent[r] = None THEN 0 ELSE rank[parent[r]] + 1]
  <2>1. r \notin records /\ records' = records \cup {r} /\ parent[r] \in records \cup {None}
        /\ prev' = [prev EXCEPT ![r] = parent[r]] /\ parent[r] # r
    BY <1>0, <1>2 DEF Begins
  <2>2. new \in [Responses -> Nat]
    BY <1>0, <2>1
  <2>3. ASSUME NEW x \in records', prev'[x] # None PROVE new[prev'[x]] < new[x]
    <3>1. CASE x = r
      <4>1. prev'[x] = parent[r] /\ parent[r] \in records
        BY <1>0, <2>1, <2>3, <3>1 DEF TypeOK
      <4> QED  BY <1>0, <2>1, <3>1, <4>1
    <3>2. CASE x # r
      <4>1. prev'[x] = prev[x] /\ x \in records /\ prev[x] \in records /\ prev[x] # r /\ x \in Responses
        BY <1>0, <2>1, <2>3, <3>2 DEF TypeOK
      <4>2. rank[prev[x]] < rank[x]
        BY <1>1, <2>3, <4>1 DEF Descends
      <4>3. new[x] = rank[x] /\ new[prev[x]] = rank[prev[x]]
        BY <1>0, <3>2, <4>1
      <4> QED  BY <4>1, <4>2, <4>3
    <3> QED  BY <3>1, <3>2
  <2> HIDE DEF new
  <2>4. PICK f \in [Responses -> Nat] : f = new
    BY <2>2
  <2>5. Descends(f)'
    BY <2>3, <2>4 DEF Descends
  <2> QED  BY <2>5 DEF Acyclic
<1>3. ASSUME \A x \in records' : x \in records PROVE Acyclic'
  <2>1. Descends(rank)'
    BY <1>1, <1>3, ChainStays DEF Descends
  <2> QED  BY <2>1 DEF Acyclic
<1>4. ASSUME NEW r \in Responses, Reaps(r) PROVE \A x \in records' : x \in records
  BY <1>4 DEF Reaps
<1> QED  BY <1>2, <1>3, <1>4, ChainChanges

\* A response takes its replay base from its parent or is its own, and the collectors
\* leave the base that a stored response still names.
LEMMA BasesStep ==
    ASSUME IInv, Chains, [Next]_vars
    PROVE  BasesInherited' /\ BasesStored'
<1>0. /\ TypeOK /\ None \notin Responses /\ records \subseteq Responses
      /\ \A x \in records : prev[x] \in records \cup {None} /\ base[x] \in records
      /\ \A x \in records : base[x] = IF prev[x] = None THEN x ELSE base[prev[x]]
  BY IdsAssumption DEF IInv, TypeOK, RowsStored, Chains, BasesStored, BasesInherited

\* A record that was there.
<1>1. ASSUME NEW x \in records, x \in records'
      PROVE  base'[x] = (IF prev'[x] = None THEN x ELSE base'[prev'[x]]) /\ base'[x] \in records'
  <2>1. base'[x] = IF prev'[x] = None THEN x ELSE base'[prev'[x]]
    <3>1. prev'[x] = prev[x] /\ base'[x] = base[x]
      BY <1>1, ChainStays
    <3>2. ASSUME prev[x] # None PROVE base'[prev[x]] = base[prev[x]]
      <4>1. prev[x] \in records /\ prev[x] \in records'
        BY <1>1, <3>2, ChainStays
      <4> QED  BY <4>1, ChainStays
    <3> QED  BY <1>0, <3>1, <3>2
  <2>2. base[x] \in records'
    <3>1. ASSUME NEW r \in Responses, Reaps(r) PROVE base[x] # r /\ records' = records \ {r}
      BY <1>1, <3>1, BaseHeld DEF Reaps
    <3>2. ASSUME NEW r \in Responses, Begins(r) PROVE records \subseteq records'
      BY <3>2 DEF Begins
    <3> QED  BY <1>0, <3>1, <3>2, ChainChanges
  <2> QED  BY <1>1, <2>1, <2>2, ChainStays

\* A new one.
<1>2. ASSUME NEW x \in Responses, Begins(x)
      PROVE  base'[x] = (IF prev'[x] = None THEN x ELSE base'[prev'[x]]) /\ base'[x] \in records'
  <2>1. /\ x \notin records /\ parent[x] \in records \cup {None} /\ parent[x] # x
        /\ records' = records \cup {x} /\ prev'[x] = parent[x]
        /\ base'[x] = IF parent[x] = None THEN x ELSE base[parent[x]]
        /\ parent[x] # None => base'[parent[x]] = base[parent[x]]
    BY <1>0, <1>2 DEF Begins, TypeOK
  <2> QED  BY <1>0, <2>1
<1>3. ASSUME NEW x \in records'
      PROVE  base'[x] = (IF prev'[x] = None THEN x ELSE base'[prev'[x]]) /\ base'[x] \in records'
  <2>1. CASE x \in records
    BY <1>1, <2>1
  <2>2. CASE x \notin records
    <3>1. ASSUME NEW r \in Responses, Reaps(r) PROVE FALSE
      BY <2>2, <3>1 DEF Reaps
    <3>2. ASSUME NEW r \in Responses, Begins(r) PROVE x = r
      BY <2>2, <3>2 DEF Begins
    <3>3. x \in Responses /\ Begins(x)
      BY <2>2, <3>1, <3>2, ChainChanges
    <3> QED  BY <1>2, <3>3
  <2> QED  BY <2>1, <2>2
<1> QED  BY <1>3 DEF BasesInherited, BasesStored

-----------------------------------------------------------------------------
(* What list_response_replay returns.                                      *)

\* f gives each response the chain from it up to b.
ChainsTo(f, b) ==
    f = [x \in Responses |->
            IF x \notin records THEN {}
            ELSE {x} \cup IF x = b \/ prev[x] = None THEN {} ELSE f[prev[x]]]

\* The recursive query terminates: its result is the least set that holds the
\* response and with each record the one it continues.
LEMMA ChainExists ==
    ASSUME TypeOK, NEW b
    PROVE  \E f : ChainsTo(f, b)
<1> DEFINE Closed(S) ==
               \A y \in S : y \in records /\ y # b /\ prev[y] # None /\ prev[y] \in records
                                => prev[y] \in S
           Up(x) == {y \in Responses : \A S \in SUBSET Responses : x \in S /\ Closed(S) => y \in S}
           f == [x \in Responses |-> IF x \in records THEN Up(x) ELSE {}]
<1>0. \A x \in Responses : prev[x] \in Responses \cup {None}
  BY DEF TypeOK
<1>1. ASSUME NEW x \in Responses, x \in records, x = b \/ prev[x] = None \/ prev[x] \notin records
      PROVE  Up(x) = {x}
  <2>1. Closed({x})
    BY <1>1
  <2> HIDE DEF Closed
  <2> QED  BY <2>1
<1>2. ASSUME NEW x \in Responses, x \in records, x # b, prev[x] # None, prev[x] \in records
      PROVE  Up(x) = {x} \cup Up(prev[x])
  <2>1. Closed(Up(prev[x])) /\ prev[x] \in Up(prev[x])
    BY <1>0, <1>2
  <2>2. Closed({x} \cup Up(prev[x]))
    BY <1>2, <2>1
  <2>3. ASSUME NEW S \in SUBSET Responses, x \in S, Closed(S) PROVE prev[x] \in S
    BY <1>2, <2>3
  <2> HIDE DEF Closed
  <2>4. Up(x) \subseteq {x} \cup Up(prev[x])
    <3>1. {x} \cup Up(prev[x]) \in SUBSET Responses
      OBVIOUS
    <3> QED  BY <2>2, <3>1
  <2>5. {x} \cup Up(prev[x]) \subseteq Up(x)
    BY <2>3
  <2> QED  BY <2>4, <2>5
<1>3. ASSUME NEW x \in Responses
      PROVE  f[x] = IF x \notin records THEN {}
                    ELSE {x} \cup IF x = b \/ prev[x] = None THEN {} ELSE f[prev[x]]
  <2> HIDE DEF Up
  <2> QED  BY <1>0, <1>1, <1>2
<1>4. ChainsTo(f, b)
  <2>1. f = [x \in Responses |-> f[x]]
    OBVIOUS
  <2> HIDE DEF f
  <2> QED  BY <1>3, <2>1 DEF ChainsTo
<1> QED  BY <1>4

\* The lineage that list_response_replay walks is the record and its parent's lineage,
\* up to the replay base.
LEMMA LineageUnfolds ==
    ASSUME TypeOK, RowsStored, BasesInherited, NEW x \in records
    PROVE  Lineage(x) =
             {x} \cup IF x = base[x] \/ prev[x] = None THEN {} ELSE Lineage(prev[x])
<1> DEFINE up(b) == CHOOSE f : ChainsTo(f, b)
<1>1. \A b : ChainsTo(up(b), b)
  BY ChainExists
<1>2. \A r : Lineage(r) = {y \in Responses : y \in up(base[r])[r]}
  BY DEF Lineage, ChainsTo
<1>3. x \in Responses /\ prev[x] \in records \cup {None}
  BY DEF TypeOK, RowsStored
<1> HIDE DEF up
<1>4. up(base[x])[x] =
        {x} \cup IF x = base[x] \/ prev[x] = None THEN {} ELSE up(base[x])[prev[x]]
  BY <1>1, <1>3 DEF ChainsTo
<1>5. prev[x] # None => base[prev[x]] = base[x]
  BY DEF BasesInherited
<1> QED  BY <1>2, <1>3, <1>4, <1>5

\* A stored response's replay is complete: from itself to its replay base, and
\* all of it stored.
LEMMA LineageWhole ==
    ASSUME IInv, Chains, NEW x \in records
    PROVE  x \in Lineage(x) /\ base[x] \in Lineage(x) /\ Lineage(x) \subseteq records
<1> DEFINE S == {y \in records : y \in Lineage(y) /\ base[y] \in Lineage(y) /\ Lineage(y) \subseteq records}
<1>0. TypeOK /\ RowsStored /\ BasesInherited /\ Acyclic
  BY DEF IInv, Chains
<1>1. ASSUME NEW y \in records, prev[y] # None => prev[y] \in S PROVE y \in S
  <2>1. Lineage(y) = {y} \cup IF y = base[y] \/ prev[y] = None THEN {} ELSE Lineage(prev[y])
    BY <1>0, LineageUnfolds
  <2>2. base[y] = IF prev[y] = None THEN y ELSE base[prev[y]]
    BY <1>0 DEF BasesInherited
  <2> QED  BY <1>1, <2>1, <2>2
<1>2. FollowsChains(S)
  <2> HIDE DEF S
  <2> QED  BY <1>1 DEF FollowsChains
<1>3. records \subseteq S
  <2> HIDE DEF S
  <2> QED  BY <1>0, <1>2, ChainInduction
<1> QED  BY <1>3

\* A step leaves the replay of every response that stays stored as it was.
Unfolded ==
    \A x \in records :
        Lineage(x) = {x} \cup IF x = base[x] \/ prev[x] = None THEN {} ELSE Lineage(prev[x])

\* The same of the lineages after a step.
LEMMA UnfoldedNext == (TypeOK /\ RowsStored /\ BasesInherited => Unfolded)'
<1>1. TypeOK /\ RowsStored /\ BasesInherited => Unfolded
  BY LineageUnfolds DEF Unfolded
<1> QED  BY <1>1, PTL

\* While a record is stored, no step changes the lineage that is read from it.
LEMMA LineageStays ==
    ASSUME IInv, Chains, [Next]_vars, NEW x \in records, x \in records'
    PROVE  Lineage(x)' = Lineage(x)
<1>0. TypeOK /\ RowsStored /\ BasesInherited /\ Acyclic /\ IInv'
  BY IInvStep DEF IInv, Chains
<1>1. Unfolded'
  BY <1>0, UnfoldedNext, BasesStep DEF IInv
<1>2. PICK S : S = {y \in records : y \in records' => Lineage(y)' = Lineage(y)}
  OBVIOUS
<1>3. ASSUME NEW y \in records, prev[y] # None => prev[y] \in S, y \in records'
      PROVE  Lineage(y)' = Lineage(y)
  <2>1. Lineage(y) = {y} \cup IF y = base[y] \/ prev[y] = None THEN {} ELSE Lineage(prev[y])
    BY <1>0, LineageUnfolds
  <2>2. Lineage(y)' = {y} \cup IF y = base'[y] \/ prev'[y] = None THEN {} ELSE Lineage(prev[y])'
    <3>1. prev'[y] = prev[y]
      BY <1>3, ChainStays
    <3> QED  BY <1>1, <1>3, <3>1 DEF Unfolded
  <2>3. prev'[y] = prev[y] /\ base'[y] = base[y]
    BY <1>3, ChainStays
  <2>4. CASE prev[y] # None
    <3>1. prev[y] \in S /\ prev[y] \in records'
      BY <1>3, <2>4, ChainStays
    <3>2. PICK z : z = prev[y]
      OBVIOUS
    <3>3. Lineage(z)' = Lineage(z)
      BY <1>2, <3>1, <3>2
    <3> QED  BY <2>1, <2>2, <2>3, <3>2, <3>3
  <2> QED  BY <2>1, <2>2, <2>3, <2>4
<1>4. FollowsChains(S)
  BY <1>2, <1>3 DEF FollowsChains
<1>5. records \subseteq S
  BY <1>0, <1>4, ChainInduction
<1> QED  BY <1>2, <1>5

-----------------------------------------------------------------------------
(* What the requests have read.                                            *)

\* Only _replay_items changes what a request has read.
LEMMA ContextSteps ==
    ASSUME TypeOK, [Next]_vars, NEW x \in Responses
    PROVE  context'[x] = context[x] \/ ReadReplay(x)
<1>1. ASSUME NEW r \in Responses, Request(r) PROVE context'[x] = context[x] \/ ReadReplay(x)
  <2>1. ASSUME ReadReplay(r) PROVE context'[x] = context[x] \/ ReadReplay(x)
    <3>1. CASE x = r
      BY <2>1, <3>1
    <3>2. CASE x # r
      BY <2>1, <3>2 DEF ReadReplay, TypeOK
    <3> QED  BY <3>1, <3>2
  <2> QED  BY <1>1, <2>1
           DEF Request, CheckFresh, CheckPrevious, CheckConversation, Check, Begin, requests,
               BeginRejected, AppendOutput, ReplaceOutput, Finish, Abort, LostRecord, Crash
<1>2. ASSUME NEW j \in Jobs, Collect(j) PROVE UNCHANGED context
  BY <1>2 DEF Collect, requests, CronCall, CallDone, WalkDelete, WalkEnd
<1>3. ASSUME NEW r \in Responses, Delete(r) \/ ExpireLease(r) \/ ClaimUnreferenced(r)
      PROVE  UNCHANGED context
  BY <1>3 DEF Delete, ExpireLease, ClaimUnreferenced, requests
<1>4. ASSUME NEW p \in Payloads, PrunePayload(p) PROVE UNCHANGED context
  BY <1>4 DEF PrunePayload, requests
<1>5. CASE UNCHANGED vars
  BY <1>5 DEF vars
<1> QED  BY <1>1, <1>2, <1>3, <1>4, <1>5 DEF Next

\* A response that has begun and is stored after a step was stored before it.
LEMMA NotReborn ==
    ASSUME IInv, [Next]_vars, NEW x \in records', Begun(x)
    PROVE  x \in records
<1>1. ASSUME NEW r \in Responses, Begins(r) PROVE x \in records
  BY <1>1 DEF Begins, Begun
<1>2. ASSUME NEW r \in Responses, Reaps(r) PROVE x \in records
  BY <1>2 DEF Reaps
<1> QED  BY <1>1, <1>2, ChainChanges

\* What a prepared or running request has read stays what the store would give it.
LEMMA ContextsStep ==
    ASSUME LInv, [Next]_vars
    PROVE  ContextsCurrent'
<1>0. /\ IInv /\ TypeOK /\ Chains /\ IInv' /\ None \notin records'
      /\ \A r \in Responses : parent[r] # None => Begun(parent[r])
  BY IInvStep, IdsAssumption DEF LInv, IInv, TypeOK, Chains, Progress
<1>1. ASSUME NEW r \in Responses, pc'[r] \in {"prepared", "running"}, NEW y \in records', y = parent'[r]
      PROVE  context'[r] = Lineage(y)'
  <2>1. parent'[r] = parent[r] /\ pc[r] # "idle"
    BY <1>0, <1>1, PhaseSteps
  <2>2. y \in records
    BY <1>0, <1>1, <2>1, NotReborn
  <2>3. Lineage(y)' = Lineage(y)
    BY <1>0, <2>2, LineageStays
  <2>4. CASE ReadReplay(r)
    BY <1>0, <1>1, <2>1, <2>3, <2>4 DEF ReadReplay, TypeOK
  <2>5. CASE ~ReadReplay(r)
    <3>1. context'[r] = context[r] /\ pc[r] \in {"prepared", "running"}
      BY <1>0, <1>1, <2>5, PhaseSteps, ContextSteps
    <3> QED  BY <1>1, <2>1, <2>2, <2>3, <3>1 DEF LInv, ContextsCurrent
  <2> QED  BY <2>4, <2>5
<1> QED  BY <1>1 DEF ContextsCurrent

-----------------------------------------------------------------------------
(* The theorems.                                                           *)

\* The empty store satisfies the invariant.
LEMMA InitLInv == Init => LInv
<1> SUFFICES ASSUME Init PROVE LInv
  OBVIOUS
<1>1. IInv
  BY InitIInv
<1>2. Progress /\ SettledParents /\ ParentsSettled /\ BasesInherited /\ BasesStored
  BY IdsAssumption DEF Init, Progress, SettledParents, ParentsSettled, BasesInherited, BasesStored
<1>3. Acyclic
  <2>1. [x \in Responses |-> 0] \in [Responses -> Nat]
    OBVIOUS
  <2> QED  BY <2>1 DEF Init, Acyclic, Descends
<1>4. ContextsCurrent
  BY DEF Init, ContextsCurrent
<1> QED  BY <1>1, <1>2, <1>3, <1>4 DEF LInv, Chains

\* Every write of the store and every job of the collectors keeps the invariant.
LEMMA LInvStep == LInv /\ [Next]_vars => LInv'
<1> SUFFICES ASSUME LInv, [Next]_vars PROVE LInv'
  OBVIOUS
<1>0. IInv /\ Chains
  BY DEF LInv
<1>1. IInv'
  BY <1>0, IInvStep
<1>2. Chains'
  BY <1>0, ProgressStep, SettledStep, BasesStep, AcyclicStep DEF Chains
<1> QED  BY <1>1, <1>2, ContextsStep DEF LInv

\* The chains of the log are whole and what requests have read of them is
\* current, in every reachable state.
THEOREM LineageInvariance == Spec => []LInv
<1> QED  BY InitLInv, LInvStep, PTL DEF Spec

\* No row names a row that is not there, the replay bases included, although
\* nothing counts the rows that name a replay base: the collector, which looks
\* at the two counters alone, breaks no reference.
THEOREM NothingDangles == Spec => []NoDangling
<1>1. LInv => NoDangling
  BY DEF LInv, IInv, Chains, NoDangling
<1> QED  BY <1>1, LineageInvariance, PTL

\* Conversation heads and previous responses of stored records have ended,
\* although begin_response reads no status and the checks of prepare_request
\* are two transactions earlier.
THEOREM ParentsAreSettled == Spec => []SettledParents
<1>1. LInv => SettledParents
  BY DEF LInv, Chains
<1> QED  BY <1>1, LineageInvariance, PTL

\* A running request executes on its parent's whole transcript, whatever was
\* reaped, deleted or moved since prepare_request read it.
THEOREM ContextIsComplete == Spec => []ContextComplete
<1>1. ASSUME LInv PROVE ContextComplete
  <2> SUFFICES ASSUME NEW r \in Responses, pc[r] = "running", r \in records, parent[r] # None
               PROVE  /\ parent[r] \in context[r]
                      /\ base[r] \in context[r]
                      /\ context[r] = Lineage(parent[r])
    BY DEF ContextComplete
  <2>1. prev[r] = parent[r] /\ prev[r] \in records
    BY <1>1 DEF LInv, IInv, Chains, Progress, RowsStored
  <2>2. base[r] = base[parent[r]]
    BY <1>1, <2>1 DEF LInv, Chains, BasesInherited
  <2>3. context[r] = Lineage(parent[r])
    BY <1>1, <2>1 DEF LInv, ContextsCurrent
  <2> QED  BY <1>1, <2>1, <2>2, <2>3, LineageWhole DEF LInv
<1> QED  BY <1>1, LineageInvariance, PTL

-----------------------------------------------------------------------------
(* The refinement of ReplayLog.                                            *)

-----------------------------------------------------------------------------
(* Sequences put together along a chain.                                   *)

\* f[x] is what P's chain from x, up to b, has of its own, the oldest first.
Joins(f, D, P, nil, own, b) ==
    f = [x \in D |-> (IF x = b \/ P[x] = nil THEN <<>> ELSE f[P[x]]) \o own[x]]

\* P's chains descend, through sequences over X.
Descending(D, P, nil, X, own, rank) ==
    /\ IsFiniteSet(D)
    /\ P \in [D -> D \cup {nil}]
    /\ own \in [D -> Seq(X)]
    /\ rank \in [D -> Nat]
    /\ \A x \in D : P[x] # nil => rank[P[x]] < rank[x]

\* On a finite domain the ranks have a bound.
LEMMA RanksBounded ==
    ASSUME NEW D, IsFiniteSet(D), NEW rank \in [D -> Nat]
    PROVE  \E N \in Nat : \A x \in D : rank[x] < N
<1> DEFINE Used == {rank[x] : x \in D}
           Ranks == Used \cup {0}
<1>1. IsFiniteSet(Ranks)
  <2>1. rank \in Surjection(D, Used)
    BY DEF Surjection
  <2>2. IsFiniteSet(Used)
    <3> HIDE DEF Used
    <3> QED  BY <2>1, FS_Surjection
  <2> HIDE DEF Used
  <2> QED  BY <2>2, FS_AddElement
<1>2. Ranks \in SUBSET Nat /\ Ranks # {} /\ \A x \in D : rank[x] \in Ranks
  OBVIOUS
<1> HIDE DEF Ranks, Used
<1>3. PICK n \in Ranks : \A m \in Ranks : n >= m
  BY <1>1, <1>2, LargestNumber
<1>4. n + 1 \in Nat /\ \A x \in D : rank[x] < n + 1
  BY <1>2, <1>3
<1> QED  BY <1>4

\* f is the one way to put the sequences together.
OnlyJoin(f, D, P, nil, X, own, b) ==
    /\ f \in [D -> Seq(X)] /\ Joins(f, D, P, nil, own, b)
    /\ \A g : Joins(g, D, P, nil, own, b) => g = f

\* There is exactly one way to put the sequences together: the ranks descend
\* along the chain.
LEMMA JoinsExist ==
    ASSUME NEW D, NEW nil, NEW P, NEW X, NEW own, NEW b, NEW rank,
           Descending(D, P, nil, X, own, rank)
    PROVE  \E f : OnlyJoin(f, D, P, nil, X, own, b)
<1> USE DEF Descending
<1> DEFINE At(f, x) == (IF x = b \/ P[x] = nil THEN <<>> ELSE f[P[x]]) \o own[x]
           Good == {n \in Nat : \E f \in [D -> Seq(X)] : \A x \in D : rank[x] < n => f[x] = At(f, x)}
<1>0. \A f \in [D -> Seq(X)] : \A x \in D : At(f, x) \in Seq(X)
  BY ConcatProperties
<1>1. 0 \in Good
  <2>1. [x \in D |-> own[x]] \in [D -> Seq(X)] /\ \A x \in D : ~(rank[x] < 0)
    OBVIOUS
  <2> HIDE DEF At
  <2> QED  BY <2>1
<1>2. ASSUME NEW n \in Nat, n \in Good PROVE n + 1 \in Good
  <2>1. PICK f \in [D -> Seq(X)] : \A x \in D : rank[x] < n => f[x] = At(f, x)
    BY <1>2
  <2> DEFINE g == [x \in D |-> IF rank[x] = n THEN At(f, x) ELSE f[x]]
  <2>2. g \in [D -> Seq(X)]
    <3> HIDE DEF At
    <3> QED  BY <1>0
  <2>3. ASSUME NEW x \in D, rank[x] < n + 1 PROVE g[x] = At(g, x)
    <3>1. P[x] # nil => P[x] \in D /\ rank[P[x]] < n
      BY <2>3
    <3>2. P[x] # nil => g[P[x]] = f[P[x]]
      BY <3>1
    <3>3. At(g, x) = At(f, x)
      BY <3>2
    <3> HIDE DEF At
    <3> QED  BY <2>1, <2>3, <3>3
  <2> HIDE DEF g, At
  <2> QED  BY <2>2, <2>3
<1>3. PICK N \in Nat : \A x \in D : rank[x] < N
  BY RanksBounded
<1>4. N \in Good
  <2> HIDE DEF Good
  <2>1. Inductive(Good, N)
    BY <1>1, <1>2 DEF Inductive
  <2> QED  BY <2>1, UptoInduction
<1>5. PICK f \in [D -> Seq(X)] : \A x \in D : f[x] = At(f, x)
  <2> HIDE DEF At
  <2> QED  BY <1>3, <1>4
<1>6. Joins(f, D, P, nil, own, b)
  <2>1. f = [x \in D |-> f[x]]
    OBVIOUS
  <2> QED  BY <1>5, <2>1 DEF Joins
<1>7. ASSUME NEW g, Joins(g, D, P, nil, own, b) PROVE g = f
  <2>1. \A x \in D : g[x] = At(g, x)
    BY <1>7 DEF Joins
  <2> DEFINE Bad == {x \in D : g[x] # f[x]}
             Ranks == {rank[x] : x \in Bad}
  <2>2. Bad = {}
    <3> SUFFICES ASSUME Bad # {} PROVE FALSE
      OBVIOUS
    <3>1. Ranks \in SUBSET Nat /\ Ranks # {}
      OBVIOUS
    <3>2. PICK n \in Ranks : \A m \in Ranks : n <= m
      <4> HIDE DEF Ranks
      <4> QED  BY <3>1, LeastNumber
    <3>3. PICK x \in Bad : n = rank[x]
      OBVIOUS
    <3>4. P[x] # nil => P[x] \in D /\ rank[P[x]] < n /\ rank[P[x]] \in Nat /\ n \in Nat
      BY <3>3
    <3>5. P[x] # nil => P[x] \notin Bad
      <4>1. \A y \in Bad : rank[y] \in Ranks
        OBVIOUS
      <4> HIDE DEF Bad, Ranks
      <4> QED  BY <3>2, <3>4, <4>1
    <3>6. At(g, x) = At(f, x)
      BY <3>4, <3>5
    <3> HIDE DEF At
    <3> QED  BY <1>5, <2>1, <3>3, <3>6
  <2>3. g = [x \in D |-> g[x]]
    BY <1>7 DEF Joins
  <2>4. f = [x \in D |-> f[x]]
    OBVIOUS
  <2> QED  BY <2>2, <2>3, <2>4
<1> QED  BY <1>6, <1>7 DEF OnlyJoin

-----------------------------------------------------------------------------
(* The items of one response.                                              *)

\* The rows of one response are without gaps.
Gapless(row) == \A s \in Slots \ {0} : row[s] # None => row[s - 1] # None

\* q lists the contents of a row without gaps.
Lists(q, row) ==
    /\ q \in Seq(Payloads)
    /\ \A s \in Slots : row[s] # None <=> s < Len(q)
    /\ \A s \in Slots : s < Len(q) => q[s + 1] = row[s]
    /\ Len(q) <= MaxOutputs + 1

\* The rows of a response, gathered slot by slot, are listed in the order of the slots.
LEMMA RowsListed ==
    ASSUME NEW row \in [Slots -> Payloads \cup {None}],
           NEW up, up \in [Slots -> Seq(Payloads)],
           \A s \in Slots : up[s] = (IF s = 0 THEN <<>> ELSE up[s - 1])
                                      \o (IF row[s] = None THEN <<>> ELSE <<row[s]>>),
           Gapless(row)
    PROVE  Lists(up[MaxOutputs], row)
<1> USE BoundsAssumption, IdsAssumption
<1> DEFINE Empty == {s \in Slots : row[s] = None} \cup {MaxOutputs + 1}
<1>1. Empty \in SUBSET Nat /\ Empty # {}
  BY DEF Slots
<1>2. PICK n \in Empty : \A m \in Empty : n <= m
  <2> HIDE DEF Empty
  <2> QED  BY <1>1, LeastNumber
<1>3. n \in 0..(MaxOutputs + 1) /\ \A s \in Slots : s < n => row[s] # None
  BY <1>1, <1>2 DEF Slots
<1>4. \A s \in Slots : s >= n => row[s] = None
  <2> DEFINE Late == {s \in Slots : s >= n /\ row[s] # None}
  <2> SUFFICES ASSUME Late # {} PROVE FALSE
    OBVIOUS
  <2>1. Late \in SUBSET Nat
    BY DEF Slots
  <2>2. PICK s \in Late : \A m \in Late : s <= m
    <3> HIDE DEF Late
    <3> QED  BY <2>1, LeastNumber
  <2>3. s \in Slots /\ s > n
    BY <1>1, <1>2, <2>2 DEF Slots
  <2>4. s - 1 \in Slots /\ s - 1 >= n /\ s \in Slots \ {0}
    BY <1>3, <2>3 DEF Slots
  <2>5. s - 1 \in Late
    BY <2>2, <2>4 DEF Gapless
  <2> QED  BY <2>1, <2>2, <2>5
<1> DEFINE Good == {s \in Slots : /\ Len(up[s]) = IF s < n THEN s + 1 ELSE n
                                  /\ \A t \in Slots : t < Len(up[s]) => up[s][t + 1] = row[t]}
<1>5. 0 \in Good
  <2>0. 0 \in Slots
    BY DEF Slots
  <2>1. up[0] = <<>> \o (IF row[0] = None THEN <<>> ELSE <<row[0]>>)
    BY <2>0
  <2>2. CASE n = 0
    <3>1. up[0] = <<>>
      BY <1>4, <2>0, <2>1, <2>2
    <3> QED  BY <2>0, <2>2, <3>1 DEF Slots
  <2>3. CASE n > 0
    <3>1. row[0] # None /\ row[0] \in Payloads
      BY <1>3, <2>0, <2>3
    <3>2. up[0] = <<row[0]>>
      BY <2>1, <3>1
    <3>3. Len(up[0]) = 1 /\ up[0][1] = row[0]
      BY <3>1, <3>2
    <3>4. \A t \in Slots : t < 1 => t = 0
      BY DEF Slots
    <3>5. \A t \in Slots : t < Len(up[0]) => up[0][t + 1] = row[t]
      BY <3>3, <3>4
    <3>6. Len(up[0]) = IF 0 < n THEN 0 + 1 ELSE n
      BY <2>3, <3>3
    <3> QED  BY <2>0, <3>5, <3>6
  <2> QED  BY <1>3, <2>2, <2>3
<1>6. ASSUME NEW s \in 0..(MaxOutputs - 1), s \in Good PROVE s + 1 \in Good
  <2>1. s \in Slots /\ s + 1 \in Slots /\ s + 1 # 0 /\ (s + 1) - 1 = s
    BY DEF Slots
  <2>2. up[s + 1] = up[s] \o (IF row[s + 1] = None THEN <<>> ELSE <<row[s + 1]>>)
    BY <2>1
  <2>3. up[s] \in Seq(Payloads)
    BY <2>1
  <2>4. CASE s + 1 < n
    <3>1. row[s + 1] # None /\ row[s + 1] \in Payloads
      BY <1>3, <2>1, <2>4
    <3>2. up[s + 1] = Append(up[s], row[s + 1]) /\ Len(up[s]) = s + 1
      BY <1>6, <2>2, <2>3, <2>4, <3>1
    <3>3. Len(up[s + 1]) = (s + 1) + 1 /\ up[s + 1][s + 2] = row[s + 1]
      BY <2>3, <3>1, <3>2
    <3>4. \A i \in 1..(s + 1) : up[s + 1][i] = up[s][i]
      BY <2>3, <3>1, <3>2
    <3>5. ASSUME NEW t \in Slots, t < s + 2 PROVE up[s + 1][t + 1] = row[t]
      <4>1. CASE t = s + 1
        BY <3>3, <4>1
      <4>2. CASE t # s + 1
        <5>1. t < s + 1 /\ t + 1 \in 1..(s + 1)
          BY <3>5, <4>2 DEF Slots
        <5> QED  BY <1>6, <3>2, <3>4, <5>1
      <4> QED  BY <4>1, <4>2
    <3> QED  BY <2>1, <2>4, <3>3, <3>5
  <2>5. CASE s + 1 >= n
    <3>1. row[s + 1] = None
      BY <1>4, <2>1, <2>5
    <3>2. up[s + 1] = up[s]
      BY <2>2, <2>3, <3>1
    <3> QED  BY <1>3, <1>6, <2>1, <2>5, <3>2
  <2> QED  BY <1>3, <2>4, <2>5
<1>7. MaxOutputs \in Good
  <2> HIDE DEF Good
  <2>1. Inductive(Good, MaxOutputs)
    BY <1>5, <1>6 DEF Inductive
  <2> QED  BY <2>1, UptoInduction
<1>8. Len(up[MaxOutputs]) = n /\ up[MaxOutputs] \in Seq(Payloads)
  BY <1>3, <1>7 DEF Slots
<1> QED  BY <1>3, <1>4, <1>7, <1>8 DEF Lists, Slots

\* So are a response's own output items.
LEMMA OwnItemsListed ==
    ASSUME TypeOK, NEW r \in Responses, Gapless(item[r])
    PROVE  Lists(OwnItems(r), item[r])
<1> DEFINE back == [s \in Slots |-> s - 1]
           own == [s \in Slots |-> IF item[r][s] = None THEN <<>> ELSE <<item[r][s]>>]
           rank == [s \in Slots |-> s]
           Fits(f) == f = [s \in Slots |-> (IF s = 0 THEN <<>> ELSE f[s - 1])
                                             \o (IF item[r][s] = None THEN <<>> ELSE <<item[r][s]>>)]
           up == CHOOSE f : Fits(f)
<1>1. item[r] \in [Slots -> Payloads \cup {None}]
  BY DEF TypeOK
<1>2. Descending(Slots, back, -1, Payloads, own, rank)
  BY <1>1, FiniteSets, BoundsAssumption DEF Descending, Slots
<1>3. PICK f \in [Slots -> Seq(Payloads)] :
          /\ Joins(f, Slots, back, -1, own, -1)
          /\ \A g : Joins(g, Slots, back, -1, own, -1) => g = f
  <2> HIDE DEF back, own, rank
  <2>1. PICK f : OnlyJoin(f, Slots, back, -1, Payloads, own, -1)
    BY <1>2, JoinsExist, Zenon
  <2> QED  BY <2>1 DEF OnlyJoin
<1>4. \A g : Fits(g) <=> Joins(g, Slots, back, -1, own, -1)
  <2>1. \A s \in Slots : /\ back[s] = s - 1 /\ (s = -1 \/ back[s] = -1 <=> s = 0)
                         /\ own[s] = IF item[r][s] = None THEN <<>> ELSE <<item[r][s]>>
    BY BoundsAssumption DEF Slots
  <2> HIDE DEF back, own
  <2>2. ASSUME NEW g
        PROVE  [s \in Slots |-> (IF s = -1 \/ back[s] = -1 THEN <<>> ELSE g[back[s]]) \o own[s]]
                = [s \in Slots |-> (IF s = 0 THEN <<>> ELSE g[s - 1])
                                     \o (IF item[r][s] = None THEN <<>> ELSE <<item[r][s]>>)]
    BY <2>1
  <2> QED  BY <2>2 DEF Joins
<1>5. Fits(up) /\ up = f
  <2> HIDE DEF Fits
  <2> QED  BY <1>3, <1>4
<1>6. Lists(up[MaxOutputs], item[r])
  <2>1. \A s \in Slots : up[s] = (IF s = 0 THEN <<>> ELSE up[s - 1])
                                      \o (IF item[r][s] = None THEN <<>> ELSE <<item[r][s]>>)
    BY <1>5
  <2> HIDE DEF up
  <2> QED  BY <1>1, <1>3, <1>5, <2>1, RowsListed
<1> QED  BY <1>6 DEF OwnItems

-----------------------------------------------------------------------------
(* The invariant of the refinement.                                        *)

\* Who writes items has an open record.
WritersOpen == \A r \in records : pc[r] = "running" => status[r] = "in_progress"

\* An absent response continues nothing.
AbsentBlank == \A r \in Responses \ records : prev[r] = None

\* A record is inserted with its input, and its outputs are added in order.
ItemsInOrder == \A r \in records : item[r][0] # None /\ Gapless(item[r])

\* The inductive invariant of the refinement.
RInv == LInv /\ WritersOpen /\ AbsentBlank /\ ItemsInOrder

\* A request that may still write is the one of a response that has not finished.
LEMMA WritersOpenStep ==
    ASSUME LInv, WritersOpen, [Next]_vars
    PROVE  WritersOpen'
<1>0. IInv /\ TypeOK /\ records \subseteq Responses
  BY DEF LInv, IInv, TypeOK
<1>1. ASSUME NEW x \in records', pc'[x] = "running", pc[x] = "running"
      PROVE  status'[x] = "in_progress"
  <2>1. x \in records
    BY <1>0, <1>1, NotReborn DEF Begun
  <2>2. status[x] = "in_progress" /\ x \in Responses
    BY <1>0, <1>1, <2>1 DEF WritersOpen
  <2>3. ASSUME NEW r \in Responses, NEW p \in Payloads, Begin(r, p) PROVE status'[x] = "in_progress"
    BY <1>0, <2>2, <2>3 DEF Begin, TypeOK
  <2>4. ASSUME NEW r \in Responses, Finish(r) \/ Abort(r) PROVE status'[x] = status[x]
    BY <1>0, <1>1, <2>2, <2>4 DEF Finish, Abort, Transition, TypeOK
  <2>5. ASSUME NEW r \in Responses, Request(r)
        PROVE  (\E p \in Payloads : Begin(r, p)) \/ Finish(r) \/ Abort(r) \/ UNCHANGED status
    BY <2>5 DEF Request, tables, CheckFresh, CheckPrevious, CheckConversation, Check, ReadReplay,
                BeginRejected, AppendOutput, ReplaceOutput, LostRecord, Crash
  <2>6. ASSUME NEW j \in Jobs, WalkDelete(j) PROVE status'[x] = "in_progress"
    BY <1>0, <2>2, <2>6 DEF WalkDelete, TypeOK
  <2>7. ASSUME NEW j \in Jobs, Collect(j) PROVE WalkDelete(j) \/ UNCHANGED status
    BY <2>7 DEF Collect, tables, CronCall, CallDone, WalkEnd
  <2>8. ASSUME NEW r \in Responses, Delete(r) \/ ExpireLease(r) \/ ClaimUnreferenced(r)
        PROVE  UNCHANGED status
    BY <2>8 DEF Delete, ExpireLease, ClaimUnreferenced, tables
  <2>9. ASSUME NEW p \in Payloads, PrunePayload(p) PROVE UNCHANGED status
    BY <2>9 DEF PrunePayload
  <2>10. CASE UNCHANGED vars
    BY <2>2, <2>10 DEF vars
  <2> QED  BY <2>2, <2>3, <2>4, <2>5, <2>6, <2>7, <2>8, <2>9, <2>10 DEF Next
<1>2. ASSUME NEW x \in records', pc'[x] = "running", pc[x] # "running"
      PROVE  status'[x] = "in_progress"
  <2>1. x \in Responses
    BY <1>0, TypeStep DEF LInv, IInv, TypeOK
  <2>2. ASSUME NEW r \in Responses, NEW p \in Payloads, Begin(r, p) PROVE status'[x] = "in_progress"
    BY <1>0, <1>2, <2>1, <2>2 DEF Begin, TypeOK
  <2>3. \E r \in Responses, p \in Payloads : Begin(r, p)
    <3>1. ASSUME NEW r \in Responses, Request(r) PROVE \E p \in Payloads : Begin(r, p)
      BY <1>0, <1>2, <2>1, <3>1
      DEF Request, CheckFresh, CheckPrevious, CheckConversation, Check, ReadReplay, TypeOK, requests,
          BeginRejected, AppendOutput, ReplaceOutput, Finish, Abort, Transition, LostRecord, Crash
    <3>2. ASSUME NEW j \in Jobs, Collect(j) PROVE UNCHANGED pc
      BY <3>2 DEF Collect, requests, CronCall, CallDone, WalkDelete, WalkEnd
    <3>3. ASSUME NEW r \in Responses, Delete(r) \/ ExpireLease(r) \/ ClaimUnreferenced(r)
          PROVE  UNCHANGED pc
      BY <3>3 DEF Delete, ExpireLease, ClaimUnreferenced, requests
    <3>4. ASSUME NEW p \in Payloads, PrunePayload(p) PROVE UNCHANGED pc
      BY <3>4 DEF PrunePayload, requests
    <3>5. ~ UNCHANGED pc
      BY <1>2
    <3>6. ~ UNCHANGED vars
      BY <3>5 DEF vars
    <3> QED  BY <3>1, <3>2, <3>3, <3>4, <3>5, <3>6 DEF Next
  <2> QED  BY <2>2, <2>3
<1> QED  BY <1>1, <1>2 DEF WritersOpen

\* What is not stored has no rows.
LEMMA AbsentBlankStep ==
    ASSUME IInv, AbsentBlank, [Next]_vars
    PROVE  AbsentBlank'
<1>0. prev \in [Responses -> Responses \cup {None}]
  BY DEF IInv, TypeOK
<1>1. ASSUME NEW r \in Responses, Begins(r) PROVE AbsentBlank'
  BY <1>0, <1>1 DEF Begins, AbsentBlank
<1>2. ASSUME NEW r \in Responses, Reaps(r) PROVE AbsentBlank'
  BY <1>0, <1>2 DEF Reaps, AbsentBlank
<1>3. CASE UNCHANGED <<records, prev, base>>
  BY <1>3 DEF AbsentBlank
<1> QED  BY <1>1, <1>2, <1>3, ChainChanges

\* Output is appended slot after slot, and the collector takes a response's rows together.
LEMMA ItemsInOrderStep ==
    ASSUME IInv, ItemsInOrder, [Next]_vars
    PROVE  ItemsInOrder'
<1>0. /\ item \in [Responses -> [Slots -> Payloads \cup {None}]] /\ records \subseteq Responses
      /\ 0 \in Slots /\ \A s \in Slots \ {0} : s - 1 \in Slots
      /\ None \notin Payloads
  BY BoundsAssumption, IdsAssumption DEF IInv, TypeOK, Slots
<1>1. ASSUME NEW r \in Responses, NEW p \in Payloads, Begin(r, p) PROVE ItemsInOrder'
  <2>1. item' = [item EXCEPT ![r] = [NoItems EXCEPT ![0] = p]] /\ records' = records \cup {r}
    BY <1>1 DEF Begin
  <2>2. item'[r][0] = p /\ \A s \in Slots \ {0} : item'[r][s] = None
    BY <1>0, <2>1 DEF NoItems
  <2>3. \A x \in records : x # r => item'[x] = item[x]
    BY <1>0, <2>1
  <2> QED  BY <1>0, <2>1, <2>2, <2>3 DEF ItemsInOrder, Gapless
<1>2. ASSUME NEW r \in Responses, NEW s \in Slots, NEW p \in Payloads,
             AppendOutput(r, s, p) \/ ReplaceOutput(r, s, p)
      PROVE  ItemsInOrder'
  <2>1. /\ item' = [item EXCEPT ![r][s] = p] /\ records' = records /\ r \in records
        /\ s \in Slots \ {0} /\ (item[r][s - 1] # None \/ item[r][s] # None)
    BY <1>2 DEF AppendOutput, ReplaceOutput
  <2>2. \A x \in records, t \in Slots : item'[x][t] = IF x = r /\ t = s THEN p ELSE item[x][t]
    BY <1>0, <2>1
  <2>3. item[r][s - 1] # None
    BY <2>1 DEF ItemsInOrder, Gapless
  <2> QED  BY <1>0, <2>1, <2>2, <2>3 DEF ItemsInOrder, Gapless
<1>3. ASSUME NEW j \in Jobs, WalkDelete(j) PROVE ItemsInOrder'
  <2>1. \A x \in records' : x \in records /\ item'[x] = item[x]
    BY <1>0, <1>3 DEF WalkDelete
  <2> QED  BY <2>1 DEF ItemsInOrder
<1>4. CASE UNCHANGED <<item, refs>>
  <2>1. ASSUME NEW r \in Responses, NEW p \in Payloads, Begin(r, p) PROVE ItemsInOrder'
    BY <1>1, <2>1
  <2>2. ASSUME NEW j \in Jobs, WalkDelete(j) PROVE ItemsInOrder'
    BY <1>3, <2>2
  <2>3. CASE UNCHANGED <<records, prev, base>>
    BY <1>4, <2>3 DEF ItemsInOrder
  <2> QED  BY <2>1, <2>2, <2>3, ChainSteps
<1> QED  BY <1>1, <1>2, <1>3, <1>4, ItemSteps

\* Every step keeps what the refinement needs.
LEMMA RInvStep == RInv /\ [Next]_vars => RInv'
<1> SUFFICES ASSUME RInv, [Next]_vars PROVE RInv'
  OBVIOUS
<1>1. IInv
  BY DEF RInv, LInv
<1> QED  BY <1>1, LInvStep, WritersOpenStep, AbsentBlankStep, ItemsInOrderStep DEF RInv

\* The empty store satisfies it.
LEMMA RInvInit == Init => RInv
<1> SUFFICES ASSUME Init PROVE RInv
  OBVIOUS
<1>1. WritersOpen /\ AbsentBlank /\ ItemsInOrder
  BY DEF Init, WritersOpen, AbsentBlank, ItemsInOrder
<1> QED  BY <1>1, InitLInv DEF RInv

-----------------------------------------------------------------------------
(* Replays.                                                                *)

\* Only a response that continues nothing is its own replay base.
LEMMA BaseIsFirst ==
    ASSUME IInv, Chains, NEW x \in records, prev[x] # None
    PROVE  base[x] # x
<1>0. /\ TypeOK /\ RowsStored /\ Acyclic
      /\ \A y \in records : base[y] = IF prev[y] = None THEN y ELSE base[prev[y]]
  BY DEF IInv, Chains, BasesInherited
<1>1. PICK rank \in [Responses -> Nat] : Descends(rank)
  BY <1>0 DEF Acyclic
<1> DEFINE S == {y \in records : base[y] \in Responses /\ rank[base[y]] <= rank[y]}
<1>2. ASSUME NEW y \in records, prev[y] # None => prev[y] \in S PROVE y \in S
  <2>1. y \in Responses
    BY <1>0 DEF TypeOK
  <2>2. CASE prev[y] = None
    BY <1>0, <2>1, <2>2
  <2>3. CASE prev[y] # None
    <3>1. rank[prev[y]] < rank[y] /\ prev[y] \in Responses
      BY <1>0, <1>1, <2>1, <2>3 DEF Descends, TypeOK
    <3>2. base[y] = base[prev[y]] /\ base[y] \in Responses /\ rank[base[y]] <= rank[prev[y]]
      BY <1>0, <1>2, <2>3
    <3> QED  BY <2>1, <3>1, <3>2
  <2> QED  BY <2>2, <2>3
<1>3. FollowsChains(S)
  <2> HIDE DEF S
  <2> QED  BY <1>2 DEF FollowsChains
<1>4. records \subseteq S
  <2> HIDE DEF S
  <2> QED  BY <1>0, <1>3, ChainInduction
<1>5. prev[x] \in records /\ prev[x] \in S /\ base[x] = base[prev[x]] /\ x \in Responses
  BY <1>0, <1>4 DEF RowsStored, TypeOK
<1>6. rank[prev[x]] < rank[x] /\ rank[base[x]] <= rank[prev[x]]
  BY <1>1, <1>5 DEF Descends
<1>7. rank[prev[x]] \in Nat /\ rank[x] \in Nat /\ rank[base[x]] \in Nat
  BY <1>5, <1>0 DEF TypeOK
<1> QED  BY <1>6, <1>7

\* The items of one response, as its rows give them; none of an absent one.
OwnItemsRight ==
    \A x \in Responses :
        /\ Lists(OwnItems(x), item[x])
        /\ x \notin records => OwnItems(x) = <<>>

\* A response's replay is that of the response it continues and its own items.
Unrolled ==
    \A x \in Responses :
        /\ Replay(x) \in Seq(Payloads)
        /\ Replay(x) = IF x \in records
                       THEN (IF prev[x] = None THEN <<>> ELSE Replay(prev[x])) \o OwnItems(x)
                       ELSE <<>>

\* A response's own part of the transcript is its rows.
LEMMA OwnItemsAreRows == RInv => OwnItemsRight
<1> SUFFICES ASSUME RInv, NEW x \in Responses
             PROVE  /\ Lists(OwnItems(x), item[x])
                    /\ x \notin records => OwnItems(x) = <<>>
  BY DEF OwnItemsRight
<1>1. TypeOK /\ (x \notin records => \A s \in Slots : item[x][s] = None)
  BY DEF RInv, LInv, IInv, RowsStored
<1>2. Gapless(item[x])
  BY <1>1, BoundsAssumption DEF RInv, ItemsInOrder, Gapless, Slots
<1>3. Lists(OwnItems(x), item[x])
  BY <1>1, <1>2, OwnItemsListed
<1>4. ASSUME x \notin records PROVE OwnItems(x) = <<>>
  <2>1. 0 \in Slots /\ item[x][0] = None
    BY <1>1, <1>4, BoundsAssumption DEF Slots
  <2>2. Len(OwnItems(x)) = 0 /\ OwnItems(x) \in Seq(Payloads)
    BY <1>3, <2>1 DEF Lists
  <2> QED  BY <2>2
<1> QED  BY <1>3, <1>4

\* A response's transcript is its parent's and its own rows.
LEMMA ReplayUnrolls == RInv => Unrolled
<1> SUFFICES ASSUME RInv PROVE Unrolled
  OBVIOUS
<1> DEFINE own == [x \in Responses |-> OwnItems(x)]
           up(b) == CHOOSE f : f = [x \in Responses |->
                       (IF x = b \/ prev[x] = None THEN <<>> ELSE f[prev[x]]) \o OwnItems(x)]
<1>0. /\ TypeOK /\ IInv /\ Chains /\ AbsentBlank /\ IsFiniteSet(Responses)
      /\ \A x \in records : x \in Responses /\ prev[x] \in records \cup {None}
      /\ None \notin Responses
  BY IdsAssumption DEF RInv, LInv, IInv, TypeOK, RowsStored
<1>1. \A x \in Responses : OwnItems(x) \in Seq(Payloads)
  BY OwnItemsAreRows DEF OwnItemsRight, Lists
<1>2. PICK rank \in [Responses -> Nat] : Descends(rank)
  BY <1>0 DEF Chains, Acyclic
<1>3. Descending(Responses, prev, None, Payloads, own, rank)
  BY <1>0, <1>1, <1>2 DEF Descending, Descends, AbsentBlank, TypeOK
<1>4. ASSUME NEW b
      PROVE  /\ up(b) \in [Responses -> Seq(Payloads)]
             /\ \A x \in Responses : up(b)[x] =
                   (IF x = b \/ prev[x] = None THEN <<>> ELSE up(b)[prev[x]]) \o OwnItems(x)
  <2>1. \A g : Joins(g, Responses, prev, None, own, b) <=>
               g = [x \in Responses |->
                       (IF x = b \/ prev[x] = None THEN <<>> ELSE g[prev[x]]) \o OwnItems(x)]
    BY DEF Joins
  <2>2. PICK f \in [Responses -> Seq(Payloads)] :
            /\ Joins(f, Responses, prev, None, own, b)
            /\ \A g : Joins(g, Responses, prev, None, own, b) => g = f
    <3> HIDE DEF own
    <3>1. PICK f : OnlyJoin(f, Responses, prev, None, Payloads, own, b)
      BY <1>3, JoinsExist, Zenon
    <3> QED  BY <3>1 DEF OnlyJoin
  <2>3. up(b) = [x \in Responses |->
                    (IF x = b \/ prev[x] = None THEN <<>> ELSE up(b)[prev[x]]) \o OwnItems(x)]
    BY <2>1, <2>2, Zenon
  <2>4. up(b) = f
    BY <2>1, <2>2, <2>3
  <2> HIDE DEF up
  <2> QED  BY <2>2, <2>3, <2>4
<1>5. ASSUME NEW x \in Responses PROVE Replay(x) = IF x \in records THEN up(base[x])[x] ELSE <<>>
  BY DEF Replay
<1> HIDE DEF up, own
<1>6. ASSUME NEW x \in records
      PROVE  Replay(x) = (IF prev[x] = None THEN <<>> ELSE Replay(prev[x])) \o OwnItems(x)
  <2>1. Replay(x) = (IF x = base[x] \/ prev[x] = None THEN <<>> ELSE up(base[x])[prev[x]])
                      \o OwnItems(x)
    BY <1>0, <1>4, <1>5
  <2>2. CASE prev[x] = None
    BY <2>1, <2>2
  <2>3. CASE prev[x] # None
    <3>1. base[x] # x /\ base[x] = base[prev[x]] /\ prev[x] \in records /\ prev[x] \in Responses
      BY <1>0, <2>3, BaseIsFirst DEF Chains, BasesInherited
    <3> QED  BY <1>5, <2>1, <2>3, <3>1
  <2> QED  BY <2>2, <2>3
<1>7. ASSUME NEW x \in Responses PROVE Replay(x) \in Seq(Payloads)
  <2>1. up(base[x]) \in [Responses -> Seq(Payloads)]
    BY <1>4
  <2>2. up(base[x])[x] \in Seq(Payloads)
    BY <2>1, <1>7
  <2>3. <<>> \in Seq(Payloads)
    OBVIOUS
  <2> QED  BY <1>5, <2>2, <2>3
<1> QED  BY <1>5, <1>6, <1>7 DEF Unrolled

\* Both hold of the transcripts after a step as well.
LEMMA AfterStep == (RInv => OwnItemsRight /\ Unrolled)'
<1>1. RInv => OwnItemsRight /\ Unrolled
  BY OwnItemsAreRows, ReplayUnrolls
<1> QED  BY <1>1, PTL

\* The rows determine the list.
LEMMA ListUnique ==
    ASSUME NEW row, NEW p, NEW q, Lists(p, row), Lists(q, row)
    PROVE  p = q
<1>1. p \in Seq(Payloads) /\ q \in Seq(Payloads) /\ Len(p) \in Nat /\ Len(q) \in Nat
  BY DEF Lists
<1>2. Len(p) = Len(q)
  <2>1. ASSUME NEW a, NEW b, Lists(a, row), Lists(b, row), Len(a) < Len(b), Len(a) \in Nat, Len(b) \in Nat
        PROVE  FALSE
    <3>1. Len(a) \in Slots
      BY <2>1, BoundsAssumption DEF Lists, Slots
    <3>2. row[Len(a)] # None /\ ~(row[Len(a)] # None)
      BY <2>1, <3>1 DEF Lists
    <3> QED  BY <3>2
  <2>2. ~(Len(p) < Len(q)) /\ ~(Len(q) < Len(p))
    BY <1>1, <2>1
  <2> QED  BY <1>1, <2>2
<1>3. ASSUME NEW i \in 1..Len(p) PROVE p[i] = q[i]
  <2>1. i - 1 \in Slots /\ i - 1 < Len(p) /\ (i - 1) + 1 = i
    BY <1>1, BoundsAssumption DEF Lists, Slots
  <2>2. p[(i - 1) + 1] = row[i - 1] /\ q[(i - 1) + 1] = row[i - 1]
    BY <1>2, <2>1 DEF Lists
  <2> QED  BY <2>1, <2>2
<1> QED  BY <1>1, <1>2, <1>3, SeqEqual

\* A step that leaves the items of a response and of all that are continued
\* leaves the response's replay.
LEMMA ReplayStays ==
    ASSUME RInv, [Next]_vars,
           \A y \in records : prev[y] # None => item'[prev[y]] = item[prev[y]],
           NEW x \in records, x \in records', item'[x] = item[x]
    PROVE  Replay(x)' = Replay(x)
<1>0. /\ IInv /\ TypeOK /\ RowsStored /\ Acyclic /\ RInv'
      /\ records \subseteq Responses
  BY RInvStep DEF RInv, LInv, IInv, Chains, TypeOK
<1>1. OwnItemsRight /\ Unrolled /\ OwnItemsRight' /\ Unrolled'
  BY <1>0, OwnItemsAreRows, ReplayUnrolls, AfterStep
<1>2. PICK S : S = {y \in records : y \in records' /\ item'[y] = item[y] => Replay(y)' = Replay(y)}
  OBVIOUS
<1>3. ASSUME NEW y \in records, prev[y] # None => prev[y] \in S, y \in records', item'[y] = item[y]
      PROVE  Replay(y)' = Replay(y)
  <2>1. y \in Responses
    BY <1>0
  <2>2. OwnItems(y)' = OwnItems(y)
    <3>1. Lists(OwnItems(y), item[y])
      BY <1>1, <2>1 DEF OwnItemsRight
    <3>2. Lists(OwnItems(y)', item'[y])
      BY <1>1, <2>1 DEF OwnItemsRight, Lists
    <3> QED  BY <1>3, <3>1, <3>2, ListUnique
  <2>3. prev'[y] = prev[y]
    BY <1>0, <1>3, ChainStays
  <2>4. Replay(y) = (IF prev[y] = None THEN <<>> ELSE Replay(prev[y])) \o OwnItems(y)
    BY <1>1, <2>1 DEF Unrolled
  <2>5. Replay(y)' = (IF prev'[y] = None THEN <<>> ELSE Replay(prev[y])') \o OwnItems(y)'
    BY <1>1, <1>3, <2>1 DEF Unrolled
  <2>6. CASE prev[y] # None
    <3>1. PICK z : z = prev[y]
      OBVIOUS
    <3>2. z \in S /\ z \in records /\ z \in records' /\ item'[z] = item[z]
      BY <1>0, <1>3, <2>6, <3>1, ChainStays
    <3>3. Replay(z)' = Replay(z)
      BY <1>2, <3>2
    <3> QED  BY <2>2, <2>3, <2>4, <2>5, <3>1, <3>3
  <2> QED  BY <2>2, <2>3, <2>4, <2>5, <2>6
<1>4. FollowsChains(S)
  BY <1>2, <1>3 DEF FollowsChains
<1>5. records \subseteq S
  BY <1>0, <1>4, ChainInduction
<1> QED  BY <1>2, <1>5

\* What the replay log shows of a response is what it showed.
ShowsTheSame(x) ==
    Phase(x)' = Phase(x) /\ Replay(x)' = Replay(x) /\ Inherited(x)' = Inherited(x)

\* A record that stays, with its items and those of all that are continued,
\* shows the same but for its phase.
LEMMA TranscriptStays ==
    ASSUME RInv, [Next]_vars,
           \A y \in records : prev[y] # None => item'[prev[y]] = item[prev[y]],
           NEW x \in records, x \in records', item'[x] = item[x]
    PROVE  Replay(x)' = Replay(x) /\ Inherited(x)' = Inherited(x)
<1>1. Replay(x)' = Replay(x)
  BY ReplayStays
<1>2. IInv
  BY DEF RInv, LInv
<1>3. prev'[x] = prev[x]
  BY <1>2, ChainStays
<1>4. CASE prev[x] # None
  <2>1. PICK z : z = prev[x]
    OBVIOUS
  <2>2. z \in records /\ z \in records' /\ item'[z] = item[z]
    BY <1>2, <1>4, <2>1, ChainStays
  <2>3. Replay(z)' = Replay(z)
    BY <2>2, ReplayStays
  <2> QED  BY <1>1, <1>3, <1>4, <2>1, <2>3 DEF Inherited
<1>5. CASE prev[x] = None
  BY <1>1, <1>3, <1>5 DEF Inherited
<1> QED  BY <1>4, <1>5

\* An absent response shows nothing.
LEMMA AbsentShows ==
    RInv => \A x \in Responses \ records :
                Phase(x) = "absent" /\ Replay(x) = <<>> /\ Inherited(x) = 0
  BY ReplayUnrolls DEF RInv, AbsentBlank, Unrolled, Phase, Inherited

\* After a step, too, what is not stored shows a client nothing.
LEMMA AbsentShowsNext ==
    (RInv => \A x \in Responses \ records :
                 Phase(x) = "absent" /\ Replay(x) = <<>> /\ Inherited(x) = 0)'
<1>1. RInv => \A x \in Responses \ records :
                  Phase(x) = "absent" /\ Replay(x) = <<>> /\ Inherited(x) = 0
  BY AbsentShows
<1> QED  BY <1>1, PTL

-----------------------------------------------------------------------------
(* What each transaction shows.                                            *)

\* begin_response: an absent response opens with its input after the
\* transcript of a closed one, or after nothing.
LEMMA BeginShows ==
    ASSUME RInv, NEW r \in Responses, NEW p \in Payloads, Begin(r, p)
    PROVE  /\ \A x \in Responses : x # r => ShowsTheSame(x)
           /\ Phase(r) = "absent" /\ Phase(r)' = "open" /\ head' = head
           /\ \/ parent[r] = None /\ Replay(r)' = Append(<<>>, p) /\ Inherited(r)' = 0
              \/ /\ parent[r] \in Responses /\ Phase(parent[r]) = "closed"
                 /\ Replay(r)' = Append(Replay(parent[r]), p)
                 /\ Inherited(r)' = Len(Replay(parent[r]))
<1>0. [Next]_vars
  BY DEF Next, Request
<1>1. /\ TypeOK /\ IInv /\ RInv' /\ ParentsSettled
      /\ \A y \in records : y \in Responses /\ prev[y] \in records \cup {None}
      /\ None \notin Responses
  BY <1>0, RInvStep, IdsAssumption DEF RInv, LInv, Chains, IInv, TypeOK, RowsStored
<1>2. /\ r \notin records /\ records' = records \cup {r} /\ parent[r] \in records \cup {None}
      /\ status' = [status EXCEPT ![r] = "in_progress"] /\ pc[r] = "prepared"
      /\ item' = [item EXCEPT ![r] = [NoItems EXCEPT ![0] = p]] /\ head' = head
      /\ prev' = [prev EXCEPT ![r] = parent[r]]
  BY DEF Begin, ParentStored
<1>3. \A y \in Responses : y # r => item'[y] = item[y] /\ status'[y] = status[y]
  BY <1>1, <1>2 DEF TypeOK
<1>4. \A y \in records : prev[y] # None => item'[prev[y]] = item[prev[y]]
  BY <1>1, <1>2, <1>3
<1>5. ASSUME NEW x \in Responses, x # r PROVE ShowsTheSame(x)
  <2>1. Phase(x)' = Phase(x)
    BY <1>2, <1>3, <1>5 DEF Phase
  <2>2. CASE x \in records
    <3>1. Replay(x)' = Replay(x) /\ Inherited(x)' = Inherited(x)
      BY <1>0, <1>2, <1>3, <1>4, <1>5, <2>2, TranscriptStays
    <3> QED  BY <2>1, <3>1 DEF ShowsTheSame
  <2>3. CASE x \notin records
    <3>1. x \notin records'
      BY <1>2, <1>5, <2>3
    <3> QED  BY <1>1, <2>1, <2>3, <3>1, AbsentShows, AbsentShowsNext DEF ShowsTheSame
  <2> QED  BY <2>2, <2>3
<1>6. Phase(r) = "absent" /\ Phase(r)' = "open"
  BY <1>1, <1>2 DEF Phase, Terminal, TypeOK
<1>7. OwnItems(r)' = <<p>>
  <2>0. 0 \in Slots /\ item'[r] = [NoItems EXCEPT ![0] = p]
    BY <1>1, <1>2, BoundsAssumption DEF Slots, TypeOK
  <2>1. \A s \in Slots : item'[r][s] = IF s = 0 THEN p ELSE None
    BY <2>0 DEF NoItems
  <2>2. Lists(<<p>>, item'[r])
    BY <2>1, BoundsAssumption, IdsAssumption DEF Lists, Slots
  <2>3. Lists(OwnItems(r)', item'[r])
    BY <1>1, AfterStep DEF OwnItemsRight, Lists
  <2> QED  BY <2>2, <2>3, ListUnique
<1>8. /\ prev'[r] = parent[r] /\ r \in records'
      /\ Replay(r)' = (IF prev'[r] = None THEN <<>> ELSE Replay(prev[r])') \o OwnItems(r)'
  BY <1>1, <1>2, AfterStep DEF Unrolled, TypeOK
<1>9. CASE parent[r] = None
  <2>1. Replay(r)' = <<>> \o <<p>>
    BY <1>7, <1>8, <1>9
  <2>2. Replay(r)' = Append(<<>>, p)
    BY <2>1
  <2> QED  BY <1>2, <1>5, <1>6, <1>8, <1>9, <2>2 DEF Inherited
<1>10. CASE parent[r] # None
  <2>1. PICK q \in Responses : q = parent[r] /\ q # r /\ q \in records
    BY <1>1, <1>2, <1>10
  <2>2. Replay(q)' = Replay(q) /\ Replay(q) \in Seq(Payloads)
    BY <1>5, <2>1, ReplayUnrolls DEF ShowsTheSame, Unrolled
  <2>3. Replay(r)' = Append(Replay(q), p)
    <3>1. Replay(r)' = Replay(q) \o <<p>>
      BY <1>1, <1>7, <1>8, <2>1, <2>2
    <3> QED  BY <2>2, <3>1
  <2>4. Inherited(r)' = Len(Replay(q))
    BY <1>1, <1>8, <2>1, <2>2 DEF Inherited
  <2>5. Phase(q) = "closed"
    BY <1>1, <1>2, <2>1 DEF ParentsSettled, Phase
  <2> QED  BY <1>2, <1>5, <1>6, <2>1, <2>3, <2>4, <2>5
<1> QED  BY <1>9, <1>10

\* q with e in place of its element k.
Changed(q, k, e) == [q EXCEPT ![k] = e]

\* A change in the second of two sequences, put together.
LEMMA ChangedLater ==
    ASSUME NEW X, NEW a \in Seq(X), NEW b \in Seq(X), NEW k \in 1..Len(b), NEW e \in X
    PROVE  a \o Changed(b, k, e) = Changed(a \o b, Len(a) + k, e)
<1> USE DEF Changed
<1>0. Len(a) \in Nat /\ Len(b) \in Nat
  OBVIOUS
<1>1. PICK c \in Seq(X) : /\ c = [b EXCEPT ![k] = e] /\ Len(c) = Len(b)
                          /\ \A j \in 1..Len(b) : c[j] = IF j = k THEN e ELSE b[j]
  <2>1. [b EXCEPT ![k] = e] \in Seq(X) /\ Len([b EXCEPT ![k] = e]) = Len(b)
        /\ \A j \in 1..Len(b) : [b EXCEPT ![k] = e][j] = IF j = k THEN e ELSE b[j]
    BY ExceptSeq
  <2> WITNESS [b EXCEPT ![k] = e] \in Seq(X)
  <2> QED  BY <2>1
<1>2. PICK ab \in Seq(X) : /\ ab = a \o b /\ Len(ab) = Len(a) + Len(b)
                           /\ \A j \in 1..Len(a) : ab[j] = a[j]
                           /\ \A j \in 1..Len(b) : ab[Len(a) + j] = b[j]
  <2>1. /\ a \o b \in Seq(X) /\ Len(a \o b) = Len(a) + Len(b)
        /\ \A j \in 1..Len(a) : (a \o b)[j] = a[j]
        /\ \A j \in 1..Len(b) : (a \o b)[Len(a) + j] = b[j]
    OBVIOUS
  <2> WITNESS a \o b \in Seq(X)
  <2> QED  BY <2>1
<1>3. PICK ac \in Seq(X) : /\ ac = a \o c /\ Len(ac) = Len(a) + Len(b)
                           /\ \A j \in 1..Len(a) : ac[j] = a[j]
                           /\ \A j \in 1..Len(b) : ac[Len(a) + j] = c[j]
  <2>1. /\ a \o c \in Seq(X) /\ Len(a \o c) = Len(a) + Len(c)
        /\ \A j \in 1..Len(a) : (a \o c)[j] = a[j]
        /\ \A j \in 1..Len(c) : (a \o c)[Len(a) + j] = c[j]
    OBVIOUS
  <2>2. Len(c) = Len(b)
    BY <1>1
  <2> WITNESS a \o c \in Seq(X)
  <2> QED  BY <2>1, <2>2
<1>4. PICK i \in 1..Len(ab) : i = Len(a) + k
  BY <1>0, <1>2
<1>5. PICK d \in Seq(X) : /\ d = [ab EXCEPT ![i] = e] /\ Len(d) = Len(ab)
                          /\ \A j \in 1..Len(ab) : d[j] = IF j = i THEN e ELSE ab[j]
  <2>1. [ab EXCEPT ![i] = e] \in Seq(X) /\ Len([ab EXCEPT ![i] = e]) = Len(ab)
        /\ \A j \in 1..Len(ab) : [ab EXCEPT ![i] = e][j] = IF j = i THEN e ELSE ab[j]
    BY ExceptSeq
  <2> WITNESS [ab EXCEPT ![i] = e] \in Seq(X)
  <2> QED  BY <2>1
<1>6. ASSUME NEW j \in 1..Len(ac) PROVE ac[j] = d[j]
  <2>1. CASE j \in 1..Len(a)
    BY <1>0, <1>2, <1>3, <1>4, <1>5, <2>1
  <2>2. CASE j \notin 1..Len(a)
    <3>1. PICK m \in 1..Len(b) : j = Len(a) + m
      <4>1. j - Len(a) \in 1..Len(b) /\ j = Len(a) + (j - Len(a))
        BY <1>0, <1>3, <2>2
      <4> QED  BY <4>1
    <3>2. ac[j] = c[m] /\ ab[j] = b[m] /\ (j = i <=> m = k) /\ j \in 1..Len(ab)
      BY <1>0, <1>2, <1>3, <1>4, <3>1
    <3> QED  BY <1>1, <1>5, <3>2
  <2> QED  BY <2>1, <2>2
<1>7. ac = d
  BY <1>2, <1>3, <1>5, <1>6, SeqEqual
<1> QED  BY <1>1, <1>2, <1>3, <1>4, <1>5, <1>7

\* append_output_item adds at the end, and replace_output_item changes one of
\* the outputs, of an open response, which nobody has continued.
LEMMA WriteShows ==
    ASSUME RInv, NEW r \in Responses, NEW s \in Slots, NEW p \in Payloads,
           AppendOutput(r, s, p) \/ ReplaceOutput(r, s, p)
    PROVE  /\ \A x \in Responses : x # r => ShowsTheSame(x)
           /\ Phase(r) = "open" /\ Phase(r)' = "open" /\ head' = head
           /\ Inherited(r)' = Inherited(r)
           /\ \/ Replay(r)' = Append(Replay(r), p)
              \/ \E i \in Inherited(r) + 2 .. Len(Replay(r)) : Replay(r)' = [Replay(r) EXCEPT ![i] = p]
<1>0. [Next]_vars
  BY DEF Next, Request
<1>1. /\ TypeOK /\ IInv /\ RInv' /\ SettledParents /\ WritersOpen /\ ItemsInOrder
      /\ \A y \in records : y \in Responses /\ prev[y] \in records \cup {None}
      /\ None \notin Responses /\ None \notin Payloads
  BY <1>0, RInvStep, IdsAssumption DEF RInv, LInv, Chains, IInv, TypeOK, RowsStored
<1>2. /\ item' = [item EXCEPT ![r][s] = p] /\ pc[r] = "running" /\ r \in records /\ s \in Slots \ {0}
      /\ UNCHANGED <<records, prev, status, head>>
      /\ \/ item[r][s] = None /\ item[r][s - 1] # None
         \/ item[r][s] # None
  BY DEF AppendOutput, ReplaceOutput
<1>3. status[r] = "in_progress"
  BY <1>1, <1>2 DEF WritersOpen
<1>4. \A y \in records : prev[y] # r
  BY <1>1, <1>3 DEF SettledParents, Terminal
<1>5. \A y \in Responses : y # r => item'[y] = item[y]
  BY <1>1, <1>2 DEF TypeOK
<1>6. \A y \in records : prev[y] # None => item'[prev[y]] = item[prev[y]]
  BY <1>1, <1>4, <1>5
<1>7. ASSUME NEW x \in Responses, x # r PROVE ShowsTheSame(x)
  <2>1. Phase(x)' = Phase(x)
    BY <1>2 DEF Phase
  <2>2. CASE x \in records
    <3>1. Replay(x)' = Replay(x) /\ Inherited(x)' = Inherited(x)
      BY <1>0, <1>2, <1>5, <1>6, <1>7, <2>2, TranscriptStays
    <3> QED  BY <2>1, <3>1 DEF ShowsTheSame
  <2>3. CASE x \notin records
    BY <1>1, <1>2, <2>1, <2>3, AbsentShows, AbsentShowsNext DEF ShowsTheSame
  <2> QED  BY <2>2, <2>3
<1>8. Phase(r) = "open" /\ Phase(r)' = "open"
  BY <1>2, <1>3 DEF Phase, Terminal

\* The transcript before the response's own items.
<1>9. PICK before \in Seq(Payloads) :
          /\ Replay(r) = before \o OwnItems(r) /\ Replay(r)' = before \o OwnItems(r)'
          /\ Inherited(r) = Len(before) /\ Inherited(r)' = Len(before)
  <2>1. /\ Replay(r) = (IF prev[r] = None THEN <<>> ELSE Replay(prev[r])) \o OwnItems(r)
        /\ Replay(r)' = (IF prev'[r] = None THEN <<>> ELSE Replay(prev[r])') \o OwnItems(r)'
    BY <1>1, <1>2, ReplayUnrolls, AfterStep DEF Unrolled
  <2>2. CASE prev[r] = None
    <3>1. <<>> \in Seq(Payloads) /\ Len(<<>>) = 0
      OBVIOUS
    <3> QED  BY <1>2, <2>1, <2>2, <3>1 DEF Inherited
  <2>3. CASE prev[r] # None
    <3>1. PICK z : z = prev[r]
      OBVIOUS
    <3>2. z \in Responses /\ z # r
      BY <1>1, <1>2, <1>4, <2>3, <3>1
    <3>3. Replay(z)' = Replay(z) /\ Replay(z) \in Seq(Payloads)
      BY <1>7, <3>2, ReplayUnrolls DEF ShowsTheSame, Unrolled
    <3> QED  BY <1>2, <2>1, <2>3, <3>1, <3>3 DEF Inherited
  <2> QED  BY <2>2, <2>3
<1>10. /\ Lists(OwnItems(r), item[r]) /\ OwnItems(r) \in Seq(Payloads)
       /\ Lists(OwnItems(r)', item'[r])
  BY <1>1, OwnItemsAreRows, AfterStep DEF OwnItemsRight, Lists
<1>11. PICK own \in Seq(Payloads) : own = OwnItems(r)
  BY <1>10
<1>12. /\ \A t \in Slots : item[r][t] # None <=> t < Len(own)
       /\ \A t \in Slots : t < Len(own) => own[t + 1] = item[r][t]
       /\ Len(own) <= MaxOutputs + 1 /\ Len(own) \in Nat
  BY <1>10, <1>11 DEF Lists
<1>13. \A t \in Slots : item'[r][t] = IF t = s THEN p ELSE item[r][t]
  BY <1>1, <1>2 DEF TypeOK
<1>14. s - 1 \in Slots /\ s \in 1..MaxOutputs
  BY <1>2, BoundsAssumption DEF Slots
<1>15. CASE item[r][s] = None
  <2>1. Len(own) = s
    BY <1>2, <1>12, <1>14, <1>15
  <2>2. Lists(Append(own, p), item'[r])
    <3>1. Append(own, p) \in Seq(Payloads) /\ Len(Append(own, p)) = s + 1
      BY <2>1
    <3>2. \A t \in Slots : item'[r][t] # None <=> t < s + 1
      BY <1>1, <1>12, <1>13, <2>1, BoundsAssumption DEF Slots
    <3>3. ASSUME NEW t \in Slots, t < s + 1 PROVE Append(own, p)[t + 1] = item'[r][t]
      <4>1. CASE t = s
        BY <1>13, <2>1, <4>1
      <4>2. CASE t # s
        <5>1. t < Len(own) /\ t \in Nat
          BY <2>1, <3>3, <4>2, <1>14 DEF Slots
        <5>2. Append(own, p)[t + 1] = own[t + 1]
          BY <5>1
        <5> QED  BY <1>12, <1>13, <4>2, <5>1, <5>2
      <4> QED  BY <4>1, <4>2
    <3>4. s + 1 <= MaxOutputs + 1
      BY <1>14, BoundsAssumption
    <3> QED  BY <3>1, <3>2, <3>3, <3>4 DEF Lists
  <2>3. OwnItems(r)' = Append(own, p)
    BY <1>10, <2>2, ListUnique
  <2>4. before \o Append(own, p) = Append(before \o own, p)
    OBVIOUS
  <2> QED  BY <1>2, <1>7, <1>8, <1>9, <1>11, <2>3, <2>4
<1>16. CASE item[r][s] # None
  <2>1. s < Len(own)
    BY <1>12, <1>16
  <2> DEFINE new == [own EXCEPT ![s + 1] = p]
  <2>2. new \in Seq(Payloads) /\ Len(new) = Len(own)
        /\ \A j \in 1..Len(own) : new[j] = IF j = s + 1 THEN p ELSE own[j]
    BY <1>12, <1>14, <2>1, ExceptSeq
  <2> HIDE DEF new
  <2>3. Lists(new, item'[r])
    <3>1. \A t \in Slots : item'[r][t] # None <=> t < Len(new)
      BY <1>1, <1>12, <1>13, <2>1, <2>2
    <3>2. ASSUME NEW t \in Slots, t < Len(new) PROVE new[t + 1] = item'[r][t]
      <4>1. t + 1 \in 1..Len(own) /\ (t + 1 = s + 1 <=> t = s)
        BY <1>12, <1>14, <2>2, <3>2 DEF Slots
      <4> QED  BY <1>12, <1>13, <2>2, <3>2, <4>1
    <3> QED  BY <1>12, <2>2, <3>1, <3>2 DEF Lists
  <2>4. OwnItems(r)' = new
    BY <1>10, <2>3, ListUnique
  <2> DEFINE i == Len(before) + s + 1
  <2>5. i \in Inherited(r) + 2 .. Len(Replay(r))
    BY <1>9, <1>11, <1>12, <1>14, <2>1
  <2>6. before \o new = [before \o own EXCEPT ![i] = p]
    <3>1. s + 1 \in 1..Len(own)
      BY <1>12, <1>14, <2>1
    <3>2. i = Len(before) + (s + 1)
      BY <1>14
    <3>3. before \o [own EXCEPT ![s + 1] = p] = [before \o own EXCEPT ![Len(before) + (s + 1)] = p]
      <4>1. ASSUME NEW k \in 1..Len(own)
            PROVE  before \o Changed(own, k, p) = Changed(before \o own, Len(before) + k, p)
        BY ChangedLater
      <4> QED  BY <3>1, <4>1 DEF Changed
    <3> HIDE DEF i
    <3> QED  BY <3>2, <3>3 DEF new
  <2>7. Replay(r)' = [Replay(r) EXCEPT ![i] = p]
    BY <1>9, <1>11, <2>4, <2>6
  <2> HIDE DEF i
  <2> QED  BY <1>2, <1>7, <1>8, <1>9, <2>5, <2>7
<1> QED  BY <1>15, <1>16

\* A step that leaves the records and their items leaves every transcript.
LEMMA TranscriptsStay ==
    ASSUME RInv, [Next]_vars, UNCHANGED <<records, item>>, NEW x \in Responses
    PROVE  Replay(x)' = Replay(x) /\ Inherited(x)' = Inherited(x)
<1>0. RInv'
  BY RInvStep
<1>1. CASE x \in records
  BY <1>1, TranscriptStays
<1>2. CASE x \notin records
  BY <1>0, <1>2, AbsentShows, AbsentShowsNext
<1> QED  BY <1>1, <1>2

\* The terminal transitions close an open response, and finish_response may
\* move a conversation to it.
LEMMA EndShows ==
    ASSUME RInv, NEW r \in Responses, Finish(r) \/ Abort(r)
    PROVE  /\ \A x \in Responses : x # r => ShowsTheSame(x)
           /\ Phase(r) = "open" /\ Phase(r)' = "closed"
           /\ Replay(r)' = Replay(r) /\ Inherited(r)' = Inherited(r)
           /\ head' = head \/ \E c \in Convs : head' = [head EXCEPT ![c] = r]
<1>0. [Next]_vars /\ TypeOK
  BY DEF Next, Request, RInv, LInv, IInv
<1>1. /\ UNCHANGED <<records, item>> /\ r \in records /\ status[r] = "in_progress"
      /\ status'[r] \in Terminal
      /\ \A x \in Responses : x # r => status'[x] = status[x]
      /\ head' = head \/ \E c \in Convs : head' = [head EXCEPT ![c] = r]
  BY <1>0 DEF Finish, Abort, Transition, MoveHead, TypeOK, Terminal
<1>2. Phase(r) = "open" /\ Phase(r)' = "closed"
  BY <1>1 DEF Phase, Terminal
<1>3. \A x \in Responses : x # r => Phase(x)' = Phase(x)
  BY <1>1 DEF Phase
<1>4. \A x \in Responses : Replay(x)' = Replay(x) /\ Inherited(x)' = Inherited(x)
  BY <1>0, <1>1, TranscriptsStay
<1> QED  BY <1>1, <1>2, <1>3, <1>4 DEF ShowsTheSame

\* A collector's deletion forgets the response, and no conversation is at it.
LEMMA ReapShows ==
    ASSUME RInv, NEW j \in Jobs, WalkDelete(j)
    PROVE  \E r \in Responses :
               /\ \A x \in Responses : x # r => ShowsTheSame(x)
               /\ Phase(r)' = "absent" /\ Replay(r)' = <<>> /\ Inherited(r)' = 0
               /\ head' = head /\ \A c \in Convs : head[c] # r
<1>0. [Next]_vars /\ TypeOK /\ IInv /\ RInv' /\ HeadLeased
      /\ \A y \in records : y \in Responses /\ prev[y] \in records \cup {None}
  BY RInvStep DEF Next, Collect, RInv, LInv, IInv, TypeOK, RowsStored
<1>1. PICK r : r = job[j].cursor
  OBVIOUS
<1>2. /\ r \in Responses /\ Children(r) = {} /\ LeasesOn(r) = {}
      /\ records' = records \ {r} /\ head' = head
      /\ \A x \in Responses : x # r => item'[x] = item[x] /\ status'[x] = status[x]
  BY <1>0, <1>1, WalkTakesUnheld DEF WalkDelete, TypeOK
<1>3. \A c \in Convs : head[c] # r
  BY <1>0, <1>2 DEF HeadLeased, LeasesOn, Owners
<1>4. \A y \in records : prev[y] # r
  BY <1>2 DEF Children
<1>5. \A y \in records : prev[y] # None => item'[prev[y]] = item[prev[y]]
  BY <1>0, <1>2, <1>4
<1>6. ASSUME NEW x \in Responses, x # r PROVE ShowsTheSame(x)
  <2>1. Phase(x)' = Phase(x)
    BY <1>2, <1>6 DEF Phase
  <2>2. CASE x \in records
    <3>1. Replay(x)' = Replay(x) /\ Inherited(x)' = Inherited(x)
      BY <1>0, <1>2, <1>5, <1>6, <2>2, TranscriptStays
    <3> QED  BY <2>1, <3>1 DEF ShowsTheSame
  <2>3. CASE x \notin records
    <3>1. x \notin records'
      BY <1>2, <2>3
    <3> QED  BY <1>0, <2>1, <2>3, <3>1, AbsentShows, AbsentShowsNext DEF ShowsTheSame
  <2> QED  BY <2>2, <2>3
<1>7. Phase(r)' = "absent" /\ Replay(r)' = <<>> /\ Inherited(r)' = 0
  BY <1>0, <1>2, AbsentShowsNext
<1> QED  BY <1>1, <1>2, <1>3, <1>6, <1>7

\* delete_response shows in the conversations alone.
LEMMA DeleteShows ==
    ASSUME RInv, NEW r \in Responses, Delete(r)
    PROVE  /\ \A x \in Responses : ShowsTheSame(x)
           /\ head' = [c \in Convs |-> IF head[c] = r THEN None ELSE head[c]]
<1>1. [Next]_vars /\ UNCHANGED <<records, item, status>>
  BY DEF Next, Delete
<1>2. \A x \in Responses : Phase(x)' = Phase(x)
  BY <1>1 DEF Phase
<1>3. \A x \in Responses : Replay(x)' = Replay(x) /\ Inherited(x)' = Inherited(x)
  BY <1>1, TranscriptsStay
<1>4. head' = [c \in Convs |-> IF head[c] = r THEN None ELSE head[c]]
  BY DEF Delete
<1> QED  BY <1>2, <1>3, <1>4 DEF ShowsTheSame

\* The steps that can show, and that the others do not.
LEMMA ShowingSteps ==
    ASSUME RInv, [Next]_vars
    PROVE  \/ \E r \in Responses, p \in Payloads : Begin(r, p)
           \/ \E r \in Responses, s \in Slots, p \in Payloads :
                 AppendOutput(r, s, p) \/ ReplaceOutput(r, s, p)
           \/ \E r \in Responses : Finish(r) \/ Abort(r)
           \/ \E r \in Responses : Delete(r)
           \/ \E j \in Jobs : WalkDelete(j)
           \/ (\A x \in Responses : ShowsTheSame(x)) /\ head' = head
<1>1. ASSUME NEW r \in Responses, Request(r)
      PROVE  \/ \E p \in Payloads : Begin(r, p)
             \/ \E s \in Slots, p \in Payloads : AppendOutput(r, s, p) \/ ReplaceOutput(r, s, p)
             \/ Finish(r) \/ Abort(r)
             \/ UNCHANGED <<records, item, status, head>>
  BY <1>1 DEF Request, tables, CheckFresh, CheckPrevious, CheckConversation, Check, ReadReplay,
              BeginRejected, LostRecord, Crash
<1>2. ASSUME NEW j \in Jobs, Collect(j)
      PROVE  WalkDelete(j) \/ UNCHANGED <<records, item, status, head>>
  BY <1>2 DEF Collect, tables, CronCall, CallDone, WalkEnd
<1>3. ASSUME NEW r \in Responses, ExpireLease(r) \/ ClaimUnreferenced(r)
      PROVE  UNCHANGED <<records, item, status, head>>
  BY <1>3 DEF ExpireLease, ClaimUnreferenced, tables
<1>4. ASSUME NEW p \in Payloads, PrunePayload(p) PROVE UNCHANGED <<records, item, status, head>>
  BY <1>4 DEF PrunePayload
<1>6. ASSUME UNCHANGED <<records, item, status, head>>
      PROVE  (\A x \in Responses : ShowsTheSame(x)) /\ head' = head
  <2>1. \A x \in Responses : Phase(x)' = Phase(x)
    BY <1>6 DEF Phase
  <2>2. \A x \in Responses : Replay(x)' = Replay(x) /\ Inherited(x)' = Inherited(x)
    BY <1>6, TranscriptsStay
  <2> QED  BY <1>6, <2>1, <2>2 DEF ShowsTheSame
<1>7. ASSUME NEW r \in Responses, Request(r)
      PROVE  \/ \E y \in Responses, p \in Payloads : Begin(y, p)
             \/ \E y \in Responses, s \in Slots, p \in Payloads :
                   AppendOutput(y, s, p) \/ ReplaceOutput(y, s, p)
             \/ \E y \in Responses : Finish(y) \/ Abort(y)
             \/ UNCHANGED <<records, item, status, head>>
  BY <1>1, <1>7
<1>8. \/ \E r \in Responses, p \in Payloads : Begin(r, p)
      \/ \E r \in Responses, s \in Slots, p \in Payloads :
            AppendOutput(r, s, p) \/ ReplaceOutput(r, s, p)
      \/ \E r \in Responses : Finish(r) \/ Abort(r)
      \/ \E r \in Responses : Delete(r)
      \/ \E j \in Jobs : WalkDelete(j)
      \/ UNCHANGED <<records, item, status, head>>
  <2>1. CASE Next
    BY <2>1, <1>2, <1>3, <1>4, <1>7 DEF Next
  <2>2. CASE UNCHANGED vars
    BY <2>2 DEF vars
  <2> QED  BY <2>1, <2>2
<1> QED  BY <1>6, <1>8

-----------------------------------------------------------------------------
(* The refinement.                                                         *)

\* The empty store is the empty log.
LEMMA LogInit == Init => Log!Init
  BY DEF Init, Log!Init, Phase, Replay, Inherited

\* A step that shows at r alone.
LEMMA OneShows ==
    ASSUME NEW r \in Responses, \A x \in Responses : x # r => ShowsTheSame(x)
    PROVE  /\ [x \in Responses |-> Phase(x)]' = [[x \in Responses |-> Phase(x)] EXCEPT ![r] = Phase(r)']
           /\ [x \in Responses |-> Replay(x)]' = [[x \in Responses |-> Replay(x)] EXCEPT ![r] = Replay(r)']
           /\ [x \in Responses |-> Inherited(x)]'
                = [[x \in Responses |-> Inherited(x)] EXCEPT ![r] = Inherited(r)']
BY DEF ShowsTheSame

\* A step that shows at no response leaves the log as it is.
LEMMA NoneShows ==
    ASSUME \A x \in Responses : ShowsTheSame(x)
    PROVE  /\ [x \in Responses |-> Phase(x)]' = [x \in Responses |-> Phase(x)]
           /\ [x \in Responses |-> Replay(x)]' = [x \in Responses |-> Replay(x)]
           /\ [x \in Responses |-> Inherited(x)]' = [x \in Responses |-> Inherited(x)]
BY DEF ShowsTheSame

\* Every step of the store is a step of the log, or a client sees nothing of it.
LEMMA LogStep == RInv /\ [Next]_vars => [Log!Next]_(Log!vars)
<1> SUFFICES ASSUME RInv, [Next]_vars PROVE Log!Next \/ UNCHANGED Log!vars
  OBVIOUS
<1>1. ASSUME NEW r \in Responses, NEW p \in Payloads, Begin(r, p) PROVE Log!Next
  <2>1. /\ \A x \in Responses : x # r => ShowsTheSame(x)
        /\ Phase(r) = "absent" /\ Phase(r)' = "open" /\ head' = head
    BY <1>1, BeginShows
  <2>2. CASE parent[r] = None /\ Replay(r)' = Append(<<>>, p) /\ Inherited(r)' = 0
    <3>1. Log!Open(r, <<>>, p)
      BY <2>1, <2>2, OneShows DEF Log!Open
    <3> QED  BY <3>1 DEF Log!Next, Log!Start
  <2>3. CASE /\ parent[r] \in Responses /\ Phase(parent[r]) = "closed"
             /\ Replay(r)' = Append(Replay(parent[r]), p)
             /\ Inherited(r)' = Len(Replay(parent[r]))
    <3>1. Log!Open(r, Replay(parent[r]), p)
      BY <2>1, <2>3, OneShows DEF Log!Open
    <3>2. Log!Continue(r, parent[r], p)
      BY <2>3, <3>1 DEF Log!Continue
    <3> QED  BY <2>3, <3>2 DEF Log!Next
  <2> QED  BY <1>1, <2>2, <2>3, BeginShows
<1>2. ASSUME NEW r \in Responses, NEW s \in Slots, NEW p \in Payloads,
             AppendOutput(r, s, p) \/ ReplaceOutput(r, s, p)
      PROVE  Log!Next
  <2>1. Log!Write(r, p)
    <3>1. /\ \A x \in Responses : x # r => ShowsTheSame(x)
          /\ Phase(r) = "open" /\ Phase(r)' = "open" /\ head' = head
          /\ Inherited(r)' = Inherited(r)
      BY <1>2, WriteShows
    <3>2. /\ [x \in Responses |-> Phase(x)]' = [x \in Responses |-> Phase(x)]
          /\ [x \in Responses |-> Inherited(x)]' = [x \in Responses |-> Inherited(x)]
      BY <3>1 DEF ShowsTheSame
    <3>3. [x \in Responses |-> Replay(x)]' = [[x \in Responses |-> Replay(x)] EXCEPT ![r] = Replay(r)']
      BY <3>1, OneShows
    <3>4. CASE Replay(r)' = Append(Replay(r), p)
      BY <3>1, <3>2, <3>3, <3>4 DEF Log!Write
    <3>5. ASSUME NEW i \in Inherited(r) + 2 .. Len(Replay(r)), Replay(r)' = [Replay(r) EXCEPT ![i] = p]
          PROVE  Log!Write(r, p)
      <4>1. [x \in Responses |-> Replay(x)]' = [[x \in Responses |-> Replay(x)] EXCEPT ![r][i] = p]
        BY <3>3, <3>5
      <4>2. /\ [x \in Responses |-> Phase(x)][r] = "open"
            /\ i \in [x \in Responses |-> Inherited(x)][r] + 2 .. Len([x \in Responses |-> Replay(x)][r])
        BY <3>1, <3>5
      <4> QED  BY <3>1, <3>2, <4>1, <4>2 DEF Log!Write
    <3> QED  BY <1>2, <3>4, <3>5, WriteShows
  <2> QED  BY <2>1 DEF Log!Next
<1>3. ASSUME NEW r \in Responses, Finish(r) \/ Abort(r) PROVE Log!Next
  <2>1. Log!Close(r)
    BY <1>3, EndShows, OneShows DEF Log!Close
  <2> QED  BY <2>1 DEF Log!Next
<1>4. ASSUME NEW r \in Responses, Delete(r) PROVE Log!Next
  <2>1. Log!Delete(r)
    BY <1>4, DeleteShows, NoneShows DEF Log!Delete
  <2> QED  BY <2>1 DEF Log!Next
<1>5. ASSUME NEW j \in Jobs, WalkDelete(j) PROVE Log!Next
  <2>1. PICK r \in Responses : Log!Forget(r)
    BY <1>5, ReapShows, OneShows DEF Log!Forget
  <2> QED  BY <2>1 DEF Log!Next
<1>6. CASE (\A x \in Responses : ShowsTheSame(x)) /\ head' = head
  BY <1>6, NoneShows DEF Log!vars
<1> QED  BY <1>1, <1>2, <1>3, <1>4, <1>5, <1>6, ShowingSteps

\* The delta log is a replay log: transcripts are written by their own open
\* response alone and only at its end, stand once it is closed, and outlive
\* every other response.
THEOREM Refinement == Spec => ImplementsReplayLog
<1>1. Init => Log!Init
  BY LogInit
<1>2. RInv /\ [Next]_vars => [Log!Next]_(Log!vars)
  BY LogStep
<1>3. Spec => []RInv
  BY RInvInit, RInvStep, PTL DEF Spec
<1> QED  BY <1>1, <1>2, <1>3, PTL DEF Spec, ImplementsReplayLog, Log!Spec
=============================================================================
