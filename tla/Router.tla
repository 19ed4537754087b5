------------------------------- MODULE Router -------------------------------
(***************************************************************************)
(* One call of RoutingChatCompletionClient: the fallback chain of the      *)
(* request's model, the transport retries of each entry, the two timeouts  *)
(* of a stream, and the provider streams it opens and must not leak.       *)
(* complete and stream walk the chain alike; streaming says which it is.   *)
(***************************************************************************)
EXTENDS Naturals, FiniteSets

CONSTANTS
    Attempts,     \* entries of the fallback chain
    Retries       \* TRANSIENT_RETRIES_BEFORE_FALLBACK

ASSUME RouterAssumption == Attempts \in Nat \ {0} /\ Retries \in Nat

VARIABLES
    streaming,    \* stream, or complete
    routed,       \* the entries some route's prefix matches
    at,           \* where the call is
    attempt, try, \* attempt_index, attempt_try_index
    error,        \* kind of last_error
    heard,        \* the tries whose output the caller was given
    opened,       \* the tries whose provider stream is not finished
    failures,     \* transient errors of each entry (for the properties)
    refused       \* the entries with another error (for the properties)

vars == <<streaming, routed, at, attempt, try, error, heard, opened, failures, refused>>

Tries == (1..Attempts) \X (1..Retries + 1)
Now == <<attempt, try>>
Over == {"done", "failed", "left"}

Init ==
    /\ streaming \in BOOLEAN
    /\ routed \in SUBSET (1..Attempts)
    /\ at = "routing" /\ attempt = 1 /\ try = 1 /\ error = "none"
    /\ heard = {} /\ opened = {}
    /\ failures = [a \in 1..Attempts |-> 0] /\ refused = {}

chain == <<streaming, routed>>
tally == <<failures, refused>>

-----------------------------------------------------------------------------
(* One try.                                                                *)

\* _route_for, then the child client is called.
Call ==
    /\ at = "routing" /\ attempt \in routed
    /\ at' = "waiting"
    /\ opened' = IF streaming THEN opened \cup {Now} ELSE opened
    /\ UNCHANGED <<chain, attempt, try, error, heard, tally>>

\* The try is over with an error of kind k.
Raised(k) ==
    /\ at' = "raised" /\ error' = k
    /\ failures' = IF k = "transient" THEN [failures EXCEPT ![attempt] = @ + 1] ELSE failures
    /\ refused' = IF k \in {"permanent", "unsupported"} THEN refused \cup {attempt} ELSE refused
    /\ UNCHANGED <<chain, attempt, try, heard>>

NoRoute == at = "routing" /\ attempt \notin routed /\ Raised("unsupported") /\ UNCHANGED opened

\* The first delta with output; the ones before it are dropped.
FirstOutput ==
    /\ streaming /\ at = "waiting"
    /\ at' = "streaming"
    /\ heard' = heard \cup {Now}
    /\ UNCHANGED <<chain, attempt, try, error, opened, tally>>

\* complete's result.
Result ==
    /\ ~streaming /\ at = "waiting"
    /\ at' = "done"
    /\ heard' = heard \cup {Now}
    /\ UNCHANGED <<chain, attempt, try, error, opened, tally>>

\* The provider raises, which finishes its stream.  Plain provider errors and
\* timeouts are transient; fatal is any exception the router does not catch.
ProviderRaises ==
    /\ at \in {"waiting", "streaming"}
    /\ \E k \in {"transient", "permanent", "unsupported", "fatal"} : Raised(k)
    /\ opened' = opened \ {Now}

\* Mutated form: the stream that timed out is not closed.
StreamLeftOpen == opened
\* close_stream_object.
StreamClosed == opened \ {Now}

\* No output within the first-delta timeout, or no delta within the idle timeout;
\* or the stream ends before any output.
TimedOut ==
    /\ streaming /\ at \in {"waiting", "streaming"}
    /\ Raised("transient")
    /\ opened' = StreamClosed

\* The provider's stream ends after output.
StreamEnds ==
    /\ at = "streaming"
    /\ at' = "done"
    /\ opened' = opened \ {Now}
    /\ UNCHANGED <<chain, attempt, try, error, heard, tally>>

-----------------------------------------------------------------------------
(* What follows an error.                                                  *)

\* Mutated form: output does not lock the route.
NeverLocked == error = "fatal"
\* The error goes to the caller: it has output already, or it is not a provider's.
Locked == Now \in heard \/ error = "fatal"

\* Mutated form: one retry too many.
OneTryMore == error = "transient" /\ try <= Retries + 1
\* _is_transient_retryable_error, with tries left.
TryAgain == error = "transient" /\ try < Retries + 1

Escapes ==
    /\ at = "raised" /\ Locked
    /\ at' = "failed"
    /\ UNCHANGED <<chain, attempt, try, error, heard, opened, tally>>

\* The back-off before the next try of the same entry.
Retry ==
    /\ at = "raised" /\ ~Locked /\ TryAgain
    /\ at' = "sleeping"
    /\ UNCHANGED <<chain, attempt, try, error, heard, opened, tally>>

Wake ==
    /\ at = "sleeping"
    /\ at' = "routing" /\ try' = try + 1
    /\ UNCHANGED <<chain, attempt, error, heard, opened, tally>>

\* Mutated form: the last entry of the chain is never reached.
MoreButOne == attempt + 1 < Attempts
More == attempt < Attempts

\* The entry is given up: the next one, or last_error for the caller.
FallBack ==
    /\ at = "raised" /\ ~Locked /\ ~TryAgain
    /\ IF More THEN at' = "routing" /\ attempt' = attempt + 1 /\ try' = 1
       ELSE at' = "failed" /\ UNCHANGED <<attempt, try>>
    /\ UNCHANGED <<chain, error, heard, opened, tally>>

-----------------------------------------------------------------------------
(* The caller stops: cancelled inside the provider's stream, which finishes *)
(* it, or gone while the router is suspended at a yield, which leaves the   *)
(* stream to the event loop.                                               *)

CallerLeaves ==
    /\ at \in {"waiting", "streaming", "sleeping"}
    /\ at' = "left"
    /\ opened' = opened \ {Now} \/ (at = "streaming" /\ UNCHANGED opened)
    /\ UNCHANGED <<chain, attempt, try, error, heard, tally>>

Finalized ==
    /\ at = "left" /\ opened # {}
    /\ opened' = {}
    /\ UNCHANGED <<chain, at, attempt, try, error, heard, tally>>

Ended == at \in Over /\ opened = {} /\ UNCHANGED vars

-----------------------------------------------------------------------------
Steps == Call \/ NoRoute \/ Escapes \/ Retry \/ Wake \/ FallBack \/ Finalized

Provider == FirstOutput \/ Result \/ ProviderRaises \/ StreamEnds

Next == Steps \/ Provider \/ TimedOut \/ CallerLeaves \/ Ended

Spec == Init /\ [][Next]_vars

\* The event loop runs, timers fire, complete returns or raises; a stream owes
\* nothing, since the router has timers for it.
Fairness == WF_vars(Steps) /\ WF_vars(TimedOut) /\ WF_vars(~streaming /\ Provider)

FairSpec == Spec /\ Fairness

-----------------------------------------------------------------------------
(* Properties.                                                             *)

TypeOK ==
    /\ streaming \in BOOLEAN /\ routed \subseteq 1..Attempts
    /\ at \in {"routing", "waiting", "streaming", "raised", "sleeping"} \cup Over
    /\ attempt \in 1..Attempts /\ try \in 1..Retries + 1
    /\ error \in {"none", "transient", "permanent", "unsupported", "fatal"}
    /\ heard \subseteq Tries /\ opened \subseteq Tries
    /\ failures \in [1..Attempts -> 0..Retries + 1] /\ refused \subseteq 1..Attempts

\* At most one provider stream is open at a time, through timeouts, retries and
\* fallbacks, and none when the call has returned or raised.
OneStream ==
    /\ Cardinality(opened) <= 1
    /\ at \in {"done", "failed", "raised", "sleeping"} => opened = {}

\* A call fails without output only when every entry of the chain has no route,
\* refused the request for good, or failed in transport on all of its tries.
LastResort ==
    at = "failed" /\ heard = {} /\ error # "fatal" =>
        \A a \in 1..Attempts : a \in refused \/ failures[a] = Retries + 1

\* Every call ends, however its providers hang, and leaves no stream open.
Ends == <>[](at \in Over /\ opened = {})

\* The call as its caller sees it.
Phase ==
    CASE at \in {"routing", "waiting", "sleeping"} -> "calling"
      [] at = "raised" -> IF heard = {} THEN "calling" ELSE "speaking"
      [] at = "streaming" -> "speaking"
      [] at = "done" -> "ended"
      [] OTHER -> at
Voice == IF heard = {} THEN <<>> ELSE CHOOSE t \in heard : TRUE

Abstract == INSTANCE ModelCall WITH
    Sources <- Tries, Nobody <- <<>>, phase <- Phase, voice <- Voice

\* The caller of the router sees a single source: retries and fallbacks stay
\* behind the first output.
ImplementsModelCall == Abstract!Spec
=============================================================================
