----------------------------- MODULE ReplayLog -----------------------------
(***************************************************************************)
(* What the delta log promises its callers, with no counters, leases or    *)
(* garbage collection: every stored response has a transcript, which is    *)
(* the transcript of the response it continues followed by its own items.  *)
(* It can be written only while the response is open, and only at its own  *)
(* end; once closed it stands until the response is forgotten, and         *)
(* forgetting one response changes no other's transcript.                  *)
(***************************************************************************)
EXTENDS Naturals, Sequences

CONSTANTS Responses, Convs, Contents, Nothing

VARIABLES
    phase,        \* absent, open (being written) or closed
    transcript,   \* what replaying the response yields
    inherited,    \* how much of it was there when the response began
    current       \* the response a conversation continues from

vars == <<phase, transcript, inherited, current>>

Init ==
    /\ phase = [r \in Responses |-> "absent"]
    /\ transcript = [r \in Responses |-> <<>>]
    /\ inherited = [r \in Responses |-> 0]
    /\ current = [c \in Convs |-> Nothing]

Open(r, before, x) ==
    /\ phase[r] = "absent"
    /\ phase' = [phase EXCEPT ![r] = "open"]
    /\ transcript' = [transcript EXCEPT ![r] = Append(before, x)]
    /\ inherited' = [inherited EXCEPT ![r] = Len(before)]
    /\ UNCHANGED current

Start(r, x) == Open(r, <<>>, x)
Continue(r, p, x) == phase[p] = "closed" /\ Open(r, transcript[p], x)

Write(r, x) ==
    /\ phase[r] = "open"
    /\ \/ transcript' = [transcript EXCEPT ![r] = Append(@, x)]
       \/ \E i \in inherited[r] + 2 .. Len(transcript[r]) :
            transcript' = [transcript EXCEPT ![r][i] = x]
    /\ UNCHANGED <<phase, inherited, current>>

Close(r) ==
    /\ phase[r] = "open"
    /\ phase' = [phase EXCEPT ![r] = "closed"]
    /\ \/ UNCHANGED current
       \/ \E c \in Convs : current' = [current EXCEPT ![c] = r]
    /\ UNCHANGED <<transcript, inherited>>

\* The client deletes r: the conversations at r start over.
Delete(r) ==
    /\ current' = [c \in Convs |-> IF current[c] = r THEN Nothing ELSE current[c]]
    /\ UNCHANGED <<phase, transcript, inherited>>

\* r is reaped.  No conversation may be at r.
Forget(r) ==
    /\ \A c \in Convs : current[c] # r
    /\ phase' = [phase EXCEPT ![r] = "absent"]
    /\ transcript' = [transcript EXCEPT ![r] = <<>>]
    /\ inherited' = [inherited EXCEPT ![r] = 0]
    /\ UNCHANGED current

Next ==
    \E r \in Responses :
        \/ \E x \in Contents : Start(r, x) \/ Write(r, x) \/ \E p \in Responses : Continue(r, p, x)
        \/ Close(r) \/ Delete(r) \/ Forget(r)

Spec == Init /\ [][Next]_vars
=============================================================================
