--------------------------- MODULE ItemReferences ---------------------------
(***************************************************************************)
(* Item references (responses/store.py): a client names an item the store  *)
(* has instead of sending it, as an item_reference or, of a reasoning item,*)
(* by its id without its sealed content.  prepare_request looks the ids up *)
(* among the items of all responses of the scope that are not deleted,     *)
(* stores the references, and looks them up again whenever the response is *)
(* replayed, so what a name stands for depends on what other requests have *)
(* stored, resent or deleted in between.                                   *)
(*                                                                         *)
(* A request is named by the id of its response.  Its i-th input without   *)
(* an id is stored as <<r, i>> (in_<response>_<index>), its one output, a  *)
(* reasoning item, as <<r, 0>>; the body of that is in part until it is    *)
(* replaced for the last time.  Rows reaped by the collectors, replay      *)
(* bases and conversations are modelled in DeltaLog.                       *)
(***************************************************************************)
EXTENDS Naturals, Sequences, FiniteSets

CONSTANTS
    Requests,    \* the requests to be stored, by their response ids
    NoId         \* the id of an item without one, and no previous response

ASSUME NoIdAssumption == NoId \notin Requests /\ NoId \notin Requests \X Nat

VARIABLES
    stage,       \* progress of each request
    follows,     \* previous_response_id
    asked,       \* stored_input_items
    replayed,    \* what _replay_items returned
    executed,    \* execution_request.input
    emitted,     \* response_output_items
    deleted      \* response_tombstones

references == <<stage, follows, asked, replayed, executed, emitted, deleted>>

Message        == [type |-> "message", id |-> NoId, body |-> "whole"]
Reference(x)   == [type |-> "item_reference", id |-> x, body |-> "none"]
Bare(x)        == [type |-> "reasoning", id |-> x, body |-> "none"]
Reasoning(x, b) == [type |-> "reasoning", id |-> x, body |-> b]

(* _is_implicit_reasoning_replay *)
IsImplicit(it) == it.type = "reasoning" /\ it.id # NoId /\ it.body = "none"
IsName(it)     == it.type = "item_reference" \/ IsImplicit(it)

(* _stored_current_input_items, _stored_input_payloads.  The request is    *)
(* executed with the message as it came, known here by the id it is stored *)
(* under.                                                                  *)
NamedInput(r, input) ==
  [i \in DOMAIN input |-> IF input[i].id = NoId THEN [input[i] EXCEPT !.id = <<r, i>>] ELSE input[i]]
\* Mutated form: an implicit reasoning item is stored as it came.
StoredAsSent(r, input) == NamedInput(r, input)
StoredInput(r, input) ==
  [i \in DOMAIN input |-> IF IsImplicit(input[i]) THEN Reference(input[i].id)
                          ELSE NamedInput(r, input)[i]]

Stored == {r \in Requests : stage[r] \in {"running", "ended"}}
Rows(r) == asked[r] \o emitted[r]

(* list_response_replay: the lineage's items, from its first response. *)
ReplayRows(r) ==
  LET upTo[x \in Requests] == IF follows[x] = NoId THEN Rows(x) ELSE upTo[follows[x]] \o Rows(x)
  IN  upTo[r]

(* _stored_item_payloads_by_id: the rows, not the contents, of an id. *)
RowsOf(x, r) == {i \in DOMAIN Rows(r) : Rows(r)[i].id = x /\ Rows(r)[i].type # "item_reference"}
Found(x) == UNION {{<<r, i>> : i \in RowsOf(x, r)} : r \in Stored \ deleted}

(* _resolve_item_reference, _resolve_implicit_reasoning_replay: an item,   *)
(* or that the request is refused.                                         *)
Refused == [type |-> "refused", id |-> NoId, body |-> "none"]
Resolved(it) ==
  LET found == IF IsName(it) THEN Found(it.id) ELSE {}
      the   == LET row == CHOOSE row \in found : TRUE IN Rows(row[1])[row[2]]
  IN  CASE ~IsName(it) \/ (IsImplicit(it) /\ found = {})  -> it
        [] Cardinality(found) = 1 ->
             IF IsImplicit(it) /\ the.type # "reasoning" THEN it ELSE the
        [] OTHER -> Refused

(* _resolve_execution_items of the replay and of the current input. *)
Executed(r, input) ==
  LET all == replayed[r] \o input IN [i \in DOMAIN all |-> Resolved(all[i])]

(* ingest refuses a reasoning item without its sealed content. *)
IsAccepted(items) == \A i \in DOMAIN items : items[i] # Refused /\ ~IsImplicit(items[i])

-----------------------------------------------------------------------------
ReferencesInit ==
  /\ stage = [r \in Requests |-> "idle"]
  /\ follows = [r \in Requests |-> NoId]
  /\ asked = [r \in Requests |-> <<>>]
  /\ replayed = [r \in Requests |-> <<>>]
  /\ executed = [r \in Requests |-> <<>>]
  /\ emitted = [r \in Requests |-> <<>>]
  /\ deleted = {}

(* What a client may send: a message, the name of an item it has seen, or  *)
(* such an item again as its response ended with it.                       *)
Seen == UNION {{Rows(r)[i].id : i \in DOMAIN Rows(r)} : r \in Stored}
Again == UNION {{it \in {Rows(r)[i] : i \in DOMAIN Rows(r)} : it.type # "item_reference"} :
                r \in {x \in Requests : stage[x] = "ended"}}
Names == {Reference(x) : x \in Seen} \cup {Bare(x) : x \in Seen}
\* Bound: one item, by its name, in full, or by its name and then in full.
Inputs == {<<>>, <<Message>>} \cup {<<it>> : it \in Names \cup Again}
            \cup {<<n, it>> : n \in Names, it \in Again}

(* prepare_request: the checks and the replay. *)
ReadParent(r, p, input) ==
  /\ stage[r] = "idle"
  /\ p # NoId => stage[p] = "ended" /\ p \notin deleted
  /\ stage' = [stage EXCEPT ![r] = "read"]
  /\ follows' = [follows EXCEPT ![r] = p]
  /\ replayed' = [replayed EXCEPT ![r] = IF p = NoId THEN <<>> ELSE ReplayRows(p)]
  /\ asked' = [asked EXCEPT ![r] = input]
  /\ UNCHANGED <<executed, emitted, deleted>>

(* prepare_request: the look-up, and the ingest of what it gives. *)
Resolve(r) ==
  LET items == Executed(r, NamedInput(r, asked[r]))
  IN  /\ stage[r] = "read"
      /\ stage' = [stage EXCEPT ![r] = IF IsAccepted(items) THEN "prepared" ELSE "refused"]
      /\ executed' = [executed EXCEPT ![r] = items]
      /\ asked' = [asked EXCEPT ![r] = StoredInput(r, @)]
      /\ UNCHANGED <<follows, replayed, emitted, deleted>>

(* begin_response *)
Accept(r) ==
  /\ stage[r] = "prepared" /\ stage' = [stage EXCEPT ![r] = "running"]
  /\ UNCHANGED <<follows, asked, replayed, executed, emitted, deleted>>

(* append_output_item and replace_output_item of the reasoning item. *)
Emit(r) ==
  /\ stage[r] = "running"
  /\ \/ emitted[r] = <<>> /\ emitted' = [emitted EXCEPT ![r] = <<Reasoning(<<r, 0>>, "part")>>]
     \/ emitted[r] = <<Reasoning(<<r, 0>>, "part")>>
          /\ emitted' = [emitted EXCEPT ![r] = <<Reasoning(<<r, 0>>, "whole")>>]
  /\ UNCHANGED <<stage, follows, asked, replayed, executed, deleted>>

(* finish_response; a cancelled one may leave its item in part. *)
EndResponse(r) ==
  /\ stage[r] = "running" /\ stage' = [stage EXCEPT ![r] = "ended"]
  /\ UNCHANGED <<follows, asked, replayed, executed, emitted, deleted>>

(* delete_response *)
DeleteResponse(r) ==
  /\ r \in Stored \ deleted /\ deleted' = deleted \cup {r}
  /\ UNCHANGED <<stage, follows, asked, replayed, executed, emitted>>

ReferencesNext ==
  \E r \in Requests :
    \/ \E p \in Requests \cup {NoId}, input \in Inputs :
         (Len(input) = 2 => input[1].id = input[2].id) /\ ReadParent(r, p, input)
    \/ Resolve(r) \/ Accept(r) \/ Emit(r) \/ EndResponse(r) \/ DeleteResponse(r)

ReferencesSpec == ReferencesInit /\ [][ReferencesNext]_references

-----------------------------------------------------------------------------
(* What a response ran on and said, as a continuation should find it: an   *)
(* item it met in part may be whole by then, and nothing else may differ.  *)
Ran(p) == executed[p] \o emitted[p]
Later(it) == {it} \cup IF it.body = "part" THEN {[it EXCEPT !.body = "whole"]} ELSE {}
SameContext(items, p) ==
  Len(items) >= Len(Ran(p)) /\ \A i \in DOMAIN Ran(p) : items[i] \in Later(Ran(p)[i])

(* Where a response said or was told an item in full. *)
Told(x) == UNION {{<<r, i>> : i \in {j \in RowsOf(x, r) : Rows(r)[j].body # "none"}} : r \in Stored}
NamesIn(items) == {items[i].id : i \in {j \in DOMAIN items : IsName(items[j])}}

(* A continued response runs on exactly what its predecessor ran on and    *)
(* said, whatever was stored, resent or deleted since, and a request that  *)
(* continues without naming an item of its own is refused only if someone  *)
(* deleted a response its lineage names an item of, or sent such an item   *)
(* again in full.                                                          *)
Continued ==
  [][\A r \in Requests :
       stage[r] = "read" /\ stage'[r] # "read" /\ follows[r] # NoId =>
         \/ stage'[r] = "prepared" /\ SameContext(executed'[r], follows[r])
         \/ stage'[r] = "refused"
              /\ \/ NamesIn(asked[r]) # {}
                 \/ \E x \in NamesIn(replayed[r]) :
                      Cardinality(Told(x)) > 1 \/ \E t \in Told(x) : t[1] \in deleted]_references
=============================================================================
