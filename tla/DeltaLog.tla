------------------------------ MODULE DeltaLog ------------------------------
(***************************************************************************)
(* The response delta log: the tables of the `responses` schema            *)
(* (migrations 0002-0004), the ResponseStore operations that write them,   *)
(* and the pg_cron jobs that garbage-collect them, for one scope.          *)
(*                                                                         *)
(* A row of response_records is a member of `records'; its columns are the *)
(* functions prev, base, status, childRefs and leaseRefs.  The item tables *)
(* are one function `item': slot 0 is the stored input and slot i the      *)
(* output item of index i-1.  A payload is named by its content, because   *)
(* the table is unique on the content's hash.  The live leases are a       *)
(* function of their owner, because uq_response_leases_live_owner is a     *)
(* unique index on the owner.                                              *)
(*                                                                         *)
(* Each request that is to be stored runs as one process, named by the     *)
(* response id it was given.  Every transaction is one action; the two     *)
(* reads of prepare_request are two actions because READ COMMITTED gives   *)
(* each its own snapshot.                                                  *)
(***************************************************************************)
EXTENDS Integers, FiniteSets

CONSTANTS
    Responses,    \* response ids (each one is also the request that mints it)
    Convs,        \* conversation ids
    Payloads,     \* distinct payload contents
    None,         \* SQL null
    MaxOutputs,   \* bound: output items of one response
    Batch         \* p_batch_size of the cron jobs

ASSUME IdsAssumption ==
    /\ IsFiniteSet(Responses) /\ IsFiniteSet(Convs) /\ IsFiniteSet(Payloads)
    /\ Responses \cap Convs = {}
    /\ None \notin Responses \cup Convs \cup Payloads
ASSUME BoundsAssumption == MaxOutputs \in Nat /\ Batch \in Nat \ {0}

VARIABLES
    records,      \* response_records: the ids present
    prev,         \* prev_response_id
    base,         \* replay_base_response_id
    status,       \* status
    childRefs,    \* child_refcount
    leaseRefs,    \* lease_refcount
    item,         \* response_input_items and response_output_items
    payloads,     \* payloads: the contents present
    refs,         \* payloads.refcount
    lease,        \* live rows of response_leases, by owner
    tombstones,   \* response_tombstones
    head,         \* conversations.current_response_id
    pc,           \* progress of each request
    parent,       \* PreparedRequest.response_request.previous_response_id
    conv,         \* PreparedRequest.response_request.conversation_id
    context,      \* the responses whose items _replay_items returned
    job           \* the local state of each cron job

tables == <<records, prev, base, status, childRefs, leaseRefs, item, payloads,
            refs, lease, tombstones, head>>
requests == <<pc, parent, conv, context>>
vars == <<records, prev, base, status, childRefs, leaseRefs, item, payloads,
          refs, lease, tombstones, head, pc, parent, conv, context, job>>

Slots == 0..MaxOutputs
Owners == Responses \cup Convs
\* completed and incomplete are one value here, and so are failed and cancelled:
\* the store treats the members of each pair alike.
Terminal == {"completed", "aborted"}
Statuses == {"in_progress"} \cup Terminal
Phases == {"idle", "checked", "prepared", "running", "ended"}
Jobs == {"expire_leases", "prune_unreferenced"}

\* left is v_remaining, cursor the response the walk is at, deleted the walk's
\* v_deleted; a job is out of call when left = 0.
JobStates == [left : 0..Batch, cursor : Responses \cup {None}, deleted : 0..Batch]
JobAt(l, c, d) == [left |-> l, cursor |-> c, deleted |-> d]
IdleJob == JobAt(0, None, 0)

NoItems == [s \in Slots |-> None]

Init ==
    /\ records = {} /\ payloads = {} /\ tombstones = {}
    /\ prev = [r \in Responses |-> None]
    /\ base = [r \in Responses |-> None]
    /\ status = [r \in Responses |-> "in_progress"]
    /\ childRefs = [r \in Responses |-> 0]
    /\ leaseRefs = [r \in Responses |-> 0]
    /\ item = [r \in Responses |-> NoItems]
    /\ refs = [p \in Payloads |-> 0]
    /\ lease = [o \in Owners |-> None]
    /\ head = [c \in Convs |-> None]
    /\ pc = [r \in Responses |-> "idle"]
    /\ parent = [r \in Responses |-> None]
    /\ conv = [r \in Responses |-> None]
    /\ context = [r \in Responses |-> {}]
    /\ job = [j \in Jobs |-> IdleJob]

-----------------------------------------------------------------------------
(* Reads.                                                                  *)

\* The recursive query of list_response_replay: from r towards its ancestors,
\* up to r's replay base.  A row that is not there ends the join.
Lineage(r) ==
    LET up[x \in Responses] ==
            IF x \notin records THEN {}
            ELSE {x} \cup IF x = base[r] \/ prev[x] = None THEN {} ELSE up[prev[x]]
    IN  {x \in Responses : x \in up[r]}

\* _response_exists: a record no client has deleted.
Visible(r) == r \in records /\ r \notin tombstones

\* Mutated form: any stored status may be continued from.
ReplayableAnyStatus(r) == Visible(r)

\* _require_replayable_response.
Replayable(r) == Visible(r) /\ status[r] \in Terminal

-----------------------------------------------------------------------------
(* A request: ResponseStore.prepare_request, begin_response, the item       *)
(* writes, and the terminal transitions.                                   *)

Check(r, p, c) ==
    /\ pc[r] = "idle"
    /\ pc' = [pc EXCEPT ![r] = "checked"]
    /\ parent' = [parent EXCEPT ![r] = p]
    /\ conv' = [conv EXCEPT ![r] = c]
    /\ UNCHANGED <<tables, context, job>>

CheckPrevious(r, p) == Replayable(p) /\ Check(r, p, None)

\* _conversation_head looks at no tombstone and no status.
CheckConversation(r, c) == Check(r, head[c], c)

CheckFresh(r) == Check(r, None, None)

\* _replay_items.
ReadReplay(r) ==
    /\ pc[r] = "checked"
    /\ pc' = [pc EXCEPT ![r] = "prepared"]
    /\ context' = [context EXCEPT ![r] = IF parent[r] = None THEN {} ELSE Lineage(parent[r])]
    /\ UNCHANGED <<tables, parent, conv, job>>

\* get_or_create_payload and the refcount trigger of the row that then uses p.
UsePayload(p) ==
    /\ payloads' = payloads \cup {p}
    /\ refs' = [refs EXCEPT ![p] = @ + 1]

\* Mutated form: the previous response is not looked up.
ParentUnchecked(r) == TRUE

\* create_response_record reads the previous response's replay base, and raises
\* when it finds none.
ParentStored(r) == parent[r] # None => parent[r] \in records

\* begin_response: create_response_record, with its retention lease and its
\* input item, and the triggers those inserts fire.
Begin(r, p) ==
    /\ pc[r] = "prepared"
    /\ r \notin records
    /\ ParentStored(r)
    /\ records' = records \cup {r}
    /\ prev' = [prev EXCEPT ![r] = parent[r]]
    /\ base' = [base EXCEPT ![r] = IF parent[r] = None THEN r ELSE base[parent[r]]]
    /\ status' = [status EXCEPT ![r] = "in_progress"]
    /\ childRefs' = [x \in Responses |-> IF x = parent[r] THEN childRefs[x] + 1 ELSE childRefs[x]]
    /\ lease' = [lease EXCEPT ![r] = r]
    /\ leaseRefs' = [leaseRefs EXCEPT ![r] = @ + 1]
    /\ item' = [item EXCEPT ![r] = [NoItems EXCEPT ![0] = p]]
    /\ UsePayload(p)
    /\ pc' = [pc EXCEPT ![r] = "running"]
    /\ UNCHANGED <<tombstones, head, parent, conv, context, job>>

BeginRejected(r) ==
    /\ pc[r] = "prepared"
    /\ ~ParentStored(r)
    /\ pc' = [pc EXCEPT ![r] = "ended"]
    /\ UNCHANGED <<tables, parent, conv, context, job>>

\* append_output_item, at the next index: the coordinator passes len(output).
AppendOutput(r, s, p) ==
    /\ pc[r] = "running" /\ r \in records
    /\ s \in Slots \ {0} /\ item[r][s] = None /\ item[r][s - 1] # None
    /\ item' = [item EXCEPT ![r][s] = p]
    /\ UsePayload(p)
    /\ UNCHANGED <<records, prev, base, status, childRefs, leaseRefs, lease, tombstones,
                   head, requests, job>>

\* Payload refcounts when a row using old is replaced by a row using new.
SwapRefs(old, new) ==
    [x \in Payloads |-> refs[x] + (IF x = new THEN 1 ELSE 0) - (IF x = old THEN 1 ELSE 0)]

\* replace_output_item: the old row is deleted and a new one inserted, in one
\* transaction.
ReplaceOutput(r, s, p) ==
    /\ pc[r] = "running" /\ r \in records
    /\ s \in Slots \ {0} /\ item[r][s] # None
    /\ item' = [item EXCEPT ![r][s] = p]
    /\ payloads' = payloads \cup {p}
    /\ refs' = SwapRefs(item[r][s], p)
    /\ UNCHANGED <<records, prev, base, status, childRefs, leaseRefs, lease, tombstones,
                   head, requests, job>>

\* Mutated form: the request goes on after its terminal transition.
TransitionAndGoOn(r, st) ==
    /\ pc[r] = "running" /\ r \in records /\ status[r] = "in_progress"
    /\ status' = [status EXCEPT ![r] = st]
    /\ UNCHANGED pc

\* The UPDATE every terminal transition makes; it finds only open records.
Transition(r, st) ==
    /\ pc[r] = "running" /\ r \in records /\ status[r] = "in_progress"
    /\ status' = [status EXCEPT ![r] = st]
    /\ pc' = [pc EXCEPT ![r] = "ended"]

\* Mutated form: the trigger leases the head on insert and not on update.
MoveHeadInsertOnly(c, r) ==
    /\ head' = [head EXCEPT ![c] = r]
    /\ lease' = [lease EXCEPT ![c] = IF @ = None THEN r ELSE @]
    /\ leaseRefs' = [x \in Responses |->
                        IF x = r /\ lease[c] = None THEN leaseRefs[x] + 1 ELSE leaseRefs[x]]

\* move_conversation_head and maintain_conversation_response_lease: the
\* conversation's live lease follows its head.
MoveHead(c, r) ==
    /\ head' = [head EXCEPT ![c] = r]
    /\ lease' = [lease EXCEPT ![c] = r]
    /\ leaseRefs' = [x \in Responses |-> leaseRefs[x] + (IF x = r THEN 1 ELSE 0)
                                                      - (IF x = lease[c] THEN 1 ELSE 0)]

\* finish_response.
Finish(r) ==
    /\ Transition(r, "completed")
    /\ IF conv[r] = None THEN UNCHANGED <<head, lease, leaseRefs>> ELSE MoveHead(conv[r], r)
    /\ UNCHANGED <<records, prev, base, childRefs, item, payloads, refs, tombstones,
                   parent, conv, context, job>>

\* fail_response and cancel_response.
Abort(r) ==
    /\ Transition(r, "aborted")
    /\ UNCHANGED <<records, prev, base, childRefs, leaseRefs, item, payloads, refs, lease,
                   tombstones, head, parent, conv, context, job>>

\* A write that finds its record gone raises, and the request ends.
LostRecord(r) ==
    /\ pc[r] = "running" /\ r \notin records
    /\ pc' = [pc EXCEPT ![r] = "ended"]
    /\ UNCHANGED <<tables, parent, conv, context, job>>

\* The server process dies, the client never reads the stream, or the final
\* commit raises: nothing more is written for r.
Crash(r) ==
    /\ pc[r] \in {"checked", "prepared", "running"}
    /\ pc' = [pc EXCEPT ![r] = "ended"]
    /\ UNCHANGED <<tables, parent, conv, context, job>>

-----------------------------------------------------------------------------
(* delete_response.                                                        *)

\* The conversations whose head is deleted go with it, and so do their leases.
Delete(r) ==
    LET heads == {c \in Convs : head[c] = r}
        dropped == {o \in Owners : o = r \/ o \in heads}
    IN  /\ Visible(r)
        /\ tombstones' = tombstones \cup {r}
        /\ head' = [c \in Convs |-> IF c \in heads THEN None ELSE head[c]]
        /\ lease' = [o \in Owners |-> IF o \in dropped THEN None ELSE lease[o]]
        /\ leaseRefs' = [x \in Responses |->
                            leaseRefs[x] - Cardinality({o \in dropped : lease[o] = x})]
        /\ UNCHANGED <<records, prev, base, status, childRefs, item, payloads, refs,
                       requests, job>>

-----------------------------------------------------------------------------
(* The cron jobs.  A call is one transaction that keeps the row locks it    *)
(* takes; here each deletion is a step of its own, so that a job may be     *)
(* overtaken between any two of them.                                      *)

CronCall(j) ==
    /\ job[j].left = 0
    /\ job' = [job EXCEPT ![j] = JobAt(Batch, None, 0)]
    /\ UNCHANGED <<tables, requests>>

CanClaim(j) == job[j].left > 0 /\ job[j].cursor = None /\ job[j].deleted = 0

\* The record's 30 days have passed.  No request runs that long.
RetentionOver(r) == lease[r] # None /\ pc[r] # "running"

\* gc_expire_response_leases: one expired lease goes, the walk starts at its
\* response.
ExpireLease(r) ==
    /\ CanClaim("expire_leases")
    /\ RetentionOver(r)
    /\ lease' = [lease EXCEPT ![r] = None]
    /\ leaseRefs' = [x \in Responses |-> IF x = lease[r] THEN leaseRefs[x] - 1 ELSE leaseRefs[x]]
    /\ job' = [job EXCEPT !["expire_leases"] = JobAt(@.left, lease[r], 0)]
    /\ UNCHANGED <<records, prev, base, status, childRefs, item, payloads, refs, tombstones,
                   head, requests>>

\* Mutated form: only responses that ended are claimed.
ClaimEnded(r) ==
    /\ CanClaim("prune_unreferenced")
    /\ r \in records /\ childRefs[r] = 0 /\ leaseRefs[r] = 0 /\ status[r] \in Terminal
    /\ job' = [job EXCEPT !["prune_unreferenced"] = JobAt(@.left, r, 0)]
    /\ UNCHANGED <<tables, requests>>

\* gc_prune_unreferenced_responses claims a record nothing refers to.
ClaimUnreferenced(r) ==
    /\ CanClaim("prune_unreferenced")
    /\ r \in records /\ childRefs[r] = 0 /\ leaseRefs[r] = 0
    /\ job' = [job EXCEPT !["prune_unreferenced"] = JobAt(@.left, r, 0)]
    /\ UNCHANGED <<tables, requests>>

\* exit when not found: the call returns.
CallDone(j) ==
    /\ CanClaim(j)
    /\ CASE j = "expire_leases" -> \A r \in Responses : ~RetentionOver(r)
         [] j = "prune_unreferenced" ->
                \A r \in records : childRefs[r] > 0 \/ leaseRefs[r] > 0
    /\ job' = [job EXCEPT ![j] = IdleJob]
    /\ UNCHANGED <<tables, requests>>

\* Mutated forms: one of the two counters is not looked at.
CollectableChildless(j) ==
    /\ job[j].cursor \in records
    /\ childRefs[job[j].cursor] = 0
    /\ job[j].deleted < job[j].left
CollectableUnleased(j) ==
    /\ job[j].cursor \in records
    /\ leaseRefs[job[j].cursor] = 0
    /\ job[j].deleted < job[j].left

\* What the walk of job j may delete next.
Collectable(j) ==
    /\ job[j].cursor \in records
    /\ childRefs[job[j].cursor] + leaseRefs[job[j].cursor] = 0
    /\ job[j].deleted < job[j].left

\* The item rows, of anyone and of r, that use payload p.
Cells(p) == {x \in Responses \X Slots : item[x[1]][x[2]] = p}
CellsOf(r, p) == {x \in Cells(p) : x[1] = r}

\* The touched payloads that lose their last use with r.
FreedPayloads(r) ==
    {p \in payloads : CellsOf(r, p) # {} /\ refs[p] = Cardinality(CellsOf(r, p))}

\* apply_response_refcounts on the deletion of r.
\* Mutated form: only insertions are counted.
OrphanRefs(r) == childRefs
ChildGone(r) == [x \in Responses |-> IF x = prev[r] THEN childRefs[x] - 1 ELSE childRefs[x]]

\* One turn of gc_delete_response_if_unreferenced: the record goes, its items
\* and tombstone with it, then the payloads it touched that nothing else uses.
WalkDelete(j) ==
    LET r == job[j].cursor
    IN  /\ r # None /\ Collectable(j)
        /\ records' = records \ {r}
        /\ childRefs' = ChildGone(r)
        /\ prev' = [prev EXCEPT ![r] = None]
        /\ base' = [base EXCEPT ![r] = None]
        /\ status' = [status EXCEPT ![r] = "in_progress"]
        /\ item' = [item EXCEPT ![r] = NoItems]
        /\ tombstones' = tombstones \ {r}
        /\ refs' = [p \in Payloads |-> refs[p] - Cardinality(CellsOf(r, p))]
        /\ payloads' = payloads \ FreedPayloads(r)
        /\ job' = [job EXCEPT ![j] = JobAt(@.left, prev[r], @.deleted + 1)]
        /\ UNCHANGED <<leaseRefs, lease, head, requests>>

\* The walk ends; its deletions, or one if it made none, come off the batch.
\* Mutated form: the turn that found nothing to delete is charged too.
CostOfTurns(d) == d + 1
Cost(d) == IF d > 0 THEN d ELSE 1
WalkEnd(j) ==
    LET cost == Cost(job[j].deleted)
        walking == job[j].cursor # None \/ job[j].deleted > 0
    IN  /\ walking /\ (job[j].cursor = None \/ ~Collectable(j))
        /\ job' = [job EXCEPT ![j] = JobAt(@.left - cost, None, 0)]
        /\ UNCHANGED <<tables, requests>>

\* gc_prune_payloads.
PrunePayload(p) ==
    /\ p \in payloads /\ refs[p] = 0
    /\ payloads' = payloads \ {p}
    /\ UNCHANGED <<records, prev, base, status, childRefs, leaseRefs, item, refs, lease,
                   tombstones, head, requests, job>>

-----------------------------------------------------------------------------
Request(r) ==
    \/ CheckFresh(r)
    \/ \E p \in Responses : CheckPrevious(r, p)
    \/ \E c \in Convs : CheckConversation(r, c)
    \/ ReadReplay(r)
    \/ \E p \in Payloads : Begin(r, p)
    \/ BeginRejected(r)
    \/ \E s \in Slots, p \in Payloads : AppendOutput(r, s, p) \/ ReplaceOutput(r, s, p)
    \/ Finish(r)
    \/ Abort(r)
    \/ LostRecord(r)
    \/ Crash(r)

Collect(j) ==
    \/ CronCall(j)
    \/ CallDone(j)
    \/ WalkDelete(j)
    \/ WalkEnd(j)

Next ==
    \/ \E r \in Responses : Request(r) \/ Delete(r) \/ ExpireLease(r) \/ ClaimUnreferenced(r)
    \/ \E j \in Jobs : Collect(j)
    \/ \E p \in Payloads : PrunePayload(p)

Spec == Init /\ [][Next]_vars

\* pg_cron keeps calling the jobs and retention keeps running out.  Nothing is
\* assumed of clients or of running requests.
Fairness ==
    /\ \A j \in Jobs : WF_vars(Collect(j))
    /\ WF_vars(\E r \in Responses : ExpireLease(r))
    /\ WF_vars(\E r \in Responses : ClaimUnreferenced(r))
    /\ WF_vars(\E p \in Payloads : PrunePayload(p))

FairSpec == Spec /\ Fairness

-----------------------------------------------------------------------------
(* Properties.                                                             *)

TypeOK ==
    /\ records \in SUBSET Responses
    /\ prev \in [Responses -> Responses \cup {None}]
    /\ base \in [Responses -> Responses \cup {None}]
    /\ status \in [Responses -> Statuses]
    /\ childRefs \in [Responses -> Int]
    /\ leaseRefs \in [Responses -> Int]
    /\ item \in [Responses -> [Slots -> Payloads \cup {None}]]
    /\ payloads \in SUBSET Payloads
    /\ refs \in [Payloads -> Int]
    /\ lease \in [Owners -> Responses \cup {None}]
    /\ tombstones \in SUBSET Responses
    /\ head \in [Convs -> Responses \cup {None}]
    /\ pc \in [Responses -> Phases]
    /\ parent \in [Responses -> Responses \cup {None}]
    /\ conv \in [Responses -> Convs \cup {None}]
    /\ context \in [Responses -> SUBSET Responses]
    /\ job \in [Jobs -> JobStates]

Children(r) == {x \in records : prev[x] = r}
LeasesOn(r) == {o \in Owners : lease[o] = r}

\* The three counters that the triggers maintain are exact counts of the rows
\* they stand for, after every transaction of requests, clients and jobs.
RefcountsExact ==
    /\ \A r \in Responses : childRefs[r] = Cardinality(Children(r))
    /\ \A r \in Responses : leaseRefs[r] = Cardinality(LeasesOn(r))
    /\ \A p \in Payloads : refs[p] = Cardinality(Cells(p))

\* Every row that the tables' foreign keys and the live leases name is there.
RowsStored ==
    /\ \A r \in records : prev[r] \in records \cup {None}
    /\ \A o \in Owners : lease[o] \in records \cup {None}
    /\ \A c \in Convs : head[c] \in records \cup {None}
    /\ tombstones \subseteq records
    /\ \A r \in Responses, s \in Slots :
            item[r][s] # None => r \in records /\ item[r][s] \in payloads

\* The replay base, which no counter counts, is kept by the chain to it alone.
BasesStored == \A r \in records : base[r] \in records

\* No row names a row that is not there: the garbage collector, which trusts
\* the counters alone, never trips over a foreign key or leaves a hole in a
\* lineage, a conversation or a transcript.
NoDangling == RowsStored /\ BasesStored

\* A conversation's lease is on its head and nowhere else, through moves,
\* deletions and re-creations of the conversation.
HeadLeased == \A c \in Convs : lease[c] = head[c]

\* Whatever was reaped between the reads of prepare_request and begin_response,
\* a running request executes on its parent's whole transcript, down to the
\* replay base, or it is not running at all.
ContextComplete ==
    \A r \in Responses :
        pc[r] = "running" /\ r \in records /\ parent[r] # None =>
            /\ parent[r] \in context[r]
            /\ base[r] \in context[r]
            /\ context[r] = Lineage(parent[r])

\* What a response can be continued from is settled: a conversation head and
\* the previous response of any stored record are never still being written.
SettledParents ==
    /\ \A r \in records : prev[r] # None => status[prev[r]] \in Terminal
    /\ \A c \in Convs : head[c] # None => status[head[c]] \in Terminal

\* The collector takes no record that a live lease or a stored child holds, and
\* nobody else removes one.
HeldRecordsStay ==
    [][\A r \in records : Children(r) # {} \/ LeasesOn(r) # {} => r \in records']_vars

\* Responses somebody can still reach: heads, requests still running, and all
\* they replay.
Reachable ==
    UNION {Lineage(r) : r \in {x \in records : pc[x] = "running"}
                              \cup {x \in records : \E c \in Convs : head[c] = x}}

\* Storage converges: in the end only what a conversation or a running request
\* reaches is stored, whatever was deleted, abandoned or cut off by a batch.
GarbageGoes ==
    <>[](/\ records \subseteq Reachable
         /\ \A p \in payloads : \E r \in records, s \in Slots : item[r][s] = p)
=============================================================================
