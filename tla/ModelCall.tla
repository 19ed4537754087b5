----------------------------- MODULE ModelCall -----------------------------
(***************************************************************************)
(* What a caller of IChatCompletionClient may rely on, whatever is behind  *)
(* it: output comes from one source, and once some has come the call can   *)
(* only go on with that source or end.                                     *)
(***************************************************************************)
CONSTANTS Sources, Nobody

VARIABLES
    phase,    \* calling, speaking, ended, failed or left (by the caller)
    voice     \* the source whose output the caller has

vars == <<phase, voice>>

Init == phase = "calling" /\ voice = Nobody

Speak(s) == phase = "calling" /\ phase' = "speaking" /\ voice' = s
Answer(s) == phase = "calling" /\ phase' = "ended" /\ voice' = s
End == phase = "speaking" /\ phase' = "ended" /\ UNCHANGED voice
Fail == phase \in {"calling", "speaking"} /\ phase' = "failed" /\ UNCHANGED voice
Leave == phase \in {"calling", "speaking"} /\ phase' = "left" /\ UNCHANGED voice

Next == (\E s \in Sources : Speak(s) \/ Answer(s)) \/ End \/ Fail \/ Leave

Spec == Init /\ [][Next]_vars
=============================================================================
