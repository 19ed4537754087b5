---------------------------- MODULE RouterProofs ----------------------------
(***************************************************************************)
(* The router's safety for every chain of entries and number of retries:   *)
(* what it streams, what it leaves open and when it may give up.           *)
(***************************************************************************)
EXTENDS Router, FiniteSetTheorems, TLAPS

\* Provider streams: only the present try's, and only while it is used.
StreamsKept ==
    /\ opened \subseteq {Now}
    /\ ~streaming \/ at \notin {"waiting", "streaming", "left"} => opened = {}

\* Output: only the present try's, and none before the route is locked.
OutputKept ==
    /\ heard \subseteq {Now}
    /\ at \in {"routing", "waiting", "sleeping"} => heard = {}
    /\ at \in {"streaming", "done"} => heard = {Now}

GivenUp(a) == a \in refused \/ failures[a] = Retries + 1

\* The entries before the present one were given up; the present one has one
\* transient error for each try behind it.
ChainWalked ==
    /\ \A a \in 1..Attempts : a < attempt => GivenUp(a)
    /\ \A a \in 1..Attempts : a > attempt => failures[a] = 0
    /\ at \in {"routing", "waiting", "streaming"} => failures[attempt] = try - 1
    /\ at = "sleeping" => failures[attempt] = try /\ try <= Retries
    /\ at = "raised" =>
        /\ error = "transient" => failures[attempt] = try
        /\ error \in {"permanent", "unsupported"} => attempt \in refused
        /\ error # "none"

IInv == TypeOK /\ StreamsKept /\ OutputKept /\ ChainWalked /\ LastResort

-----------------------------------------------------------------------------
\* The router's invariant holds before its first request.
LEMMA InitIInv == Init => IInv
<1> SUFFICES ASSUME Init PROVE IInv
  OBVIOUS
<1>1. TypeOK /\ StreamsKept /\ OutputKept /\ LastResort
  BY RouterAssumption DEF Init, TypeOK, StreamsKept, OutputKept, LastResort, Tries
<1>2. ChainWalked
  BY RouterAssumption DEF Init, ChainWalked
<1> QED  BY <1>1, <1>2 DEF IInv

\* An error at the present try: its entry's count of transient errors reaches
\* the try, or the entry has refused.
LEMMA RaisedStep ==
    ASSUME IInv, NEW k \in {"transient", "permanent", "unsupported", "fatal"}, Raised(k),
           at \in {"routing", "waiting", "streaming"}, opened' \in {opened, opened \ {Now}},
           at = "routing" \/ opened' = opened \ {Now}
    PROVE  IInv'
<1> USE RouterAssumption DEF Raised, chain, Now
<1>1. failures[attempt] = try - 1
  BY DEF IInv, ChainWalked
<1>2. TypeOK'
  <2>1. TypeOK
    BY DEF IInv
  <2>2. failures[attempt] + 1 \in 0..Retries + 1
    BY <1>1, <2>1 DEF TypeOK
  <2>3. failures' \in [1..Attempts -> 0..Retries + 1]
    BY <2>1, <2>2 DEF TypeOK
  <2> QED  BY <2>1, <2>3 DEF TypeOK, Over
<1>3. StreamsKept'
  BY DEF IInv, StreamsKept
<1>4. OutputKept'
  BY DEF IInv, OutputKept
<1>5. ChainWalked'
  BY <1>1 DEF IInv, ChainWalked, TypeOK, GivenUp
<1> QED  BY <1>2, <1>3, <1>4, <1>5 DEF IInv, LastResort

\* The present try is a try of the chain.
LEMMA NowIsATry == TypeOK => Now \in Tries
BY DEF TypeOK, Now, Tries

\* No try, retry, fallback, timeout or cancellation breaks it.
LEMMA Step == IInv /\ [Next]_vars => IInv'
<1> SUFFICES ASSUME IInv, [Next]_vars PROVE IInv'
  OBVIOUS
<1> USE RouterAssumption
<1>1. CASE Call
  <2>1. TypeOK'
    <3>1. opened' \subseteq Tries
      BY <1>1, NowIsATry DEF Call, IInv, TypeOK
    <3> QED  BY <1>1, <3>1 DEF Call, IInv, TypeOK, Over, chain, tally
  <2>2. StreamsKept' /\ OutputKept'
    BY <1>1 DEF Call, IInv, StreamsKept, OutputKept, Now, chain, tally
  <2>3. ChainWalked'
    BY <1>1 DEF Call, IInv, TypeOK, ChainWalked, GivenUp, chain, tally
  <2>4. LastResort'
    BY <1>1 DEF Call, IInv, TypeOK, ChainWalked, GivenUp, LastResort, chain, tally
  <2> QED  BY <2>1, <2>2, <2>3, <2>4 DEF IInv
<1>2. CASE NoRoute
  BY <1>2, RaisedStep DEF NoRoute
<1>3. CASE FirstOutput
  <2>1. TypeOK'
    <3>1. heard' \subseteq Tries
      BY <1>3, NowIsATry DEF FirstOutput, IInv, TypeOK
    <3> QED  BY <1>3, <3>1 DEF FirstOutput, IInv, TypeOK, Over, chain, tally
  <2>2. StreamsKept' /\ OutputKept'
    BY <1>3 DEF FirstOutput, IInv, StreamsKept, OutputKept, Now, chain, tally
  <2>3. ChainWalked'
    BY <1>3 DEF FirstOutput, IInv, TypeOK, ChainWalked, GivenUp, chain, tally
  <2>4. LastResort'
    BY <1>3 DEF FirstOutput, IInv, TypeOK, ChainWalked, GivenUp, LastResort, chain, tally
  <2> QED  BY <2>1, <2>2, <2>3, <2>4 DEF IInv
<1>4. CASE Result
  <2>1. TypeOK'
    <3>1. heard' \subseteq Tries
      BY <1>4, NowIsATry DEF Result, IInv, TypeOK
    <3> QED  BY <1>4, <3>1 DEF Result, IInv, TypeOK, Over, chain, tally
  <2>2. StreamsKept' /\ OutputKept'
    BY <1>4 DEF Result, IInv, StreamsKept, OutputKept, Now, chain, tally
  <2>3. ChainWalked'
    BY <1>4 DEF Result, IInv, TypeOK, ChainWalked, GivenUp, chain, tally
  <2>4. LastResort'
    BY <1>4 DEF Result, IInv, TypeOK, ChainWalked, GivenUp, LastResort, chain, tally
  <2> QED  BY <2>1, <2>2, <2>3, <2>4 DEF IInv
<1>5. CASE ProviderRaises
  BY <1>5, RaisedStep DEF ProviderRaises
<1>6. CASE TimedOut
  BY <1>6, RaisedStep DEF TimedOut, StreamClosed
<1>7. CASE StreamEnds
  <2>1. TypeOK'
    BY <1>7 DEF StreamEnds, IInv, TypeOK, Over, Now, chain, tally
  <2>2. StreamsKept' /\ OutputKept'
    BY <1>7 DEF StreamEnds, IInv, StreamsKept, OutputKept, Now, chain, tally
  <2>3. ChainWalked'
    BY <1>7 DEF StreamEnds, IInv, TypeOK, ChainWalked, GivenUp, chain, tally
  <2>4. LastResort'
    BY <1>7 DEF StreamEnds, IInv, TypeOK, ChainWalked, GivenUp, LastResort, chain, tally
  <2> QED  BY <2>1, <2>2, <2>3, <2>4 DEF IInv
<1>8. CASE Escapes
  <2>1. TypeOK'
    BY <1>8 DEF Escapes, Locked, IInv, TypeOK, Over, Now, chain, tally
  <2>2. StreamsKept' /\ OutputKept'
    BY <1>8 DEF Escapes, Locked, IInv, StreamsKept, OutputKept, Now, chain, tally
  <2>3. ChainWalked'
    BY <1>8 DEF Escapes, Locked, IInv, TypeOK, ChainWalked, GivenUp, chain, tally
  <2>4. LastResort'
    BY <1>8 DEF Escapes, Locked, IInv, TypeOK, ChainWalked, GivenUp, LastResort, chain, tally
  <2> QED  BY <2>1, <2>2, <2>3, <2>4 DEF IInv
<1>9. CASE Retry
  <2>1. failures[attempt] = try /\ try <= Retries /\ heard = {}
    BY <1>9 DEF Retry, Locked, TryAgain, IInv, TypeOK, OutputKept, ChainWalked
  <2>2. TypeOK'
    BY <1>9, <2>1 DEF Retry, IInv, TypeOK, Over, Now, chain, tally
  <2>3. StreamsKept' /\ OutputKept'
    BY <1>9, <2>1 DEF Retry, IInv, StreamsKept, OutputKept, Now, chain, tally
  <2>4. ChainWalked'
    BY <1>9, <2>1 DEF Retry, IInv, TypeOK, ChainWalked, GivenUp, chain, tally
  <2>5. LastResort'
    BY <1>9, <2>1 DEF Retry, IInv, TypeOK, ChainWalked, GivenUp, LastResort, chain, tally
  <2> QED  BY <2>2, <2>3, <2>4, <2>5 DEF IInv
<1>10. CASE Wake
  <2>1. heard = {} /\ opened = {} /\ try <= Retries
    BY <1>10 DEF Wake, IInv, OutputKept, StreamsKept, ChainWalked
  <2>2. TypeOK'
    BY <1>10, <2>1 DEF Wake, IInv, TypeOK, Over, Now, chain, tally
  <2>3. StreamsKept' /\ OutputKept'
    BY <1>10, <2>1 DEF Wake, IInv, StreamsKept, OutputKept, Now, chain, tally
  <2>4. ChainWalked'
    BY <1>10, <2>1 DEF Wake, IInv, TypeOK, ChainWalked, GivenUp, chain, tally
  <2>5. LastResort'
    BY <1>10, <2>1 DEF Wake, IInv, TypeOK, ChainWalked, GivenUp, LastResort, chain, tally
  <2> QED  BY <2>2, <2>3, <2>4, <2>5 DEF IInv
<1>11. CASE FallBack
  <2>1. heard = {} /\ opened = {} /\ error # "fatal"
    BY <1>11 DEF FallBack, Locked, IInv, OutputKept, StreamsKept
  <2>2. GivenUp(attempt)
    BY <1>11, <2>1 DEF FallBack, TryAgain, IInv, TypeOK, ChainWalked, GivenUp
  <2>3. CASE More
    <3>1. TypeOK'
      BY <1>11, <2>1, <2>2, <2>3
      DEF FallBack, More, IInv, TypeOK, Over, Now, chain, tally
    <3>2. StreamsKept' /\ OutputKept'
      BY <1>11, <2>1, <2>2, <2>3
      DEF FallBack, More, IInv, StreamsKept, OutputKept, Now, chain, tally
    <3>3. ChainWalked'
      BY <1>11, <2>1, <2>2, <2>3
      DEF FallBack, More, IInv, TypeOK, ChainWalked, GivenUp, chain, tally
    <3>4. LastResort'
      BY <1>11, <2>1, <2>2, <2>3
      DEF FallBack, More, IInv, TypeOK, ChainWalked, GivenUp, LastResort, chain, tally
    <3> QED  BY <3>1, <3>2, <3>3, <3>4 DEF IInv
  <2>4. CASE ~More
    <3>1. TypeOK'
      BY <1>11, <2>1, <2>2, <2>4
      DEF FallBack, More, IInv, TypeOK, Over, Now, chain, tally
    <3>2. StreamsKept' /\ OutputKept'
      BY <1>11, <2>1, <2>2, <2>4
      DEF FallBack, More, IInv, StreamsKept, OutputKept, Now, chain, tally
    <3>3. ChainWalked'
      BY <1>11, <2>1, <2>2, <2>4
      DEF FallBack, More, IInv, TypeOK, ChainWalked, GivenUp, chain, tally
    <3>4. LastResort'
      BY <1>11, <2>1, <2>2, <2>4
      DEF FallBack, More, IInv, TypeOK, ChainWalked, GivenUp, LastResort, chain, tally
    <3> QED  BY <3>1, <3>2, <3>3, <3>4 DEF IInv
  <2> QED  BY <2>3, <2>4
<1>12. CASE CallerLeaves
  <2>1. TypeOK'
    BY <1>12 DEF CallerLeaves, IInv, TypeOK, Over, Now, chain, tally
  <2>2. StreamsKept' /\ OutputKept'
    BY <1>12 DEF CallerLeaves, IInv, StreamsKept, OutputKept, Now, chain, tally
  <2>3. ChainWalked'
    BY <1>12 DEF CallerLeaves, IInv, TypeOK, ChainWalked, GivenUp, chain, tally
  <2>4. LastResort'
    BY <1>12 DEF CallerLeaves, IInv, TypeOK, ChainWalked, GivenUp, LastResort, chain, tally
  <2> QED  BY <2>1, <2>2, <2>3, <2>4 DEF IInv
<1>13. CASE Finalized
  <2>1. TypeOK'
    BY <1>13 DEF Finalized, IInv, TypeOK, Over, Now, chain, tally
  <2>2. StreamsKept' /\ OutputKept'
    BY <1>13 DEF Finalized, IInv, StreamsKept, OutputKept, Now, chain, tally
  <2>3. ChainWalked'
    BY <1>13 DEF Finalized, IInv, TypeOK, ChainWalked, GivenUp, chain, tally
  <2>4. LastResort'
    BY <1>13 DEF Finalized, IInv, TypeOK, ChainWalked, GivenUp, LastResort, chain, tally
  <2> QED  BY <2>1, <2>2, <2>3, <2>4 DEF IInv
<1>14. CASE UNCHANGED vars
  <2>1. TypeOK'
    BY <1>14 DEF vars, IInv, TypeOK, Over, Now, chain, tally
  <2>2. StreamsKept' /\ OutputKept'
    BY <1>14 DEF vars, IInv, StreamsKept, OutputKept, Now, chain, tally
  <2>3. ChainWalked'
    BY <1>14 DEF vars, IInv, TypeOK, ChainWalked, GivenUp, chain, tally
  <2>4. LastResort'
    BY <1>14 DEF vars, IInv, TypeOK, ChainWalked, GivenUp, LastResort, chain, tally
  <2> QED  BY <2>1, <2>2, <2>3, <2>4 DEF IInv
<1> QED
  BY <1>1, <1>2, <1>3, <1>4, <1>5, <1>6, <1>7, <1>8, <1>9, <1>10, <1>11, <1>12, <1>13, <1>14
  DEF Next, Steps, Provider, Ended

\* So it holds of every execution.
LEMMA Invariance == Spec => []IInv
<1> QED  BY InitIInv, Step, PTL DEF Spec

-----------------------------------------------------------------------------
\* Types, and the bounds on tries and on the transient errors of an entry.
THEOREM TypeCorrect == Spec => []TypeOK
<1>1. IInv => TypeOK
  BY DEF IInv
<1> QED  BY <1>1, Invariance, PTL

\* However the call goes, it has at most one provider stream open, and none
\* once it has returned or raised.
THEOREM StreamsClosed == Spec => []OneStream
<1>1. IInv => OneStream
  <2> SUFFICES ASSUME IInv PROVE OneStream
    OBVIOUS
  <2>1. opened \in SUBSET {Now}
    BY DEF IInv, StreamsKept
  <2>2. IsFiniteSet({Now}) /\ Cardinality({Now}) = 1
    BY FS_Singleton
  <2>3. IsFiniteSet(opened) /\ Cardinality(opened) <= 1
    BY <2>1, <2>2, FS_Subset
  <2> QED  BY <2>3 DEF IInv, StreamsKept, OneStream
<1> QED  BY <1>1, Invariance, PTL

\* The whole chain is tried, each entry as often as its errors allow, before
\* the caller is told that the call failed.
THEOREM NothingLeftToTry == Spec => []LastResort
<1>1. IInv => LastResort
  BY DEF IInv
<1> QED  BY <1>1, Invariance, PTL

-----------------------------------------------------------------------------
(* The router implements ModelCall.                                        *)

\* What is chosen from a set of one is its element.
LEMMA VoiceOfOne == \A t : (CHOOSE u \in {t} : TRUE) = t
OBVIOUS

\* A routed call starts as ModelCall does.
LEMMA InitSimulates == Init => Abstract!Init
BY DEF Init, Abstract!Init, Phase, Voice

\* Every step of a routed call is a step of ModelCall, or invisible there.
LEMMA StepSimulates == IInv /\ [Next]_vars => [Abstract!Next]_Abstract!vars
<1> SUFFICES ASSUME IInv, [Next]_vars PROVE Abstract!Next \/ UNCHANGED <<Phase, Voice>>
  BY DEF Abstract!vars
<1>1. Now \in Tries
  BY NowIsATry DEF IInv
<1>2. heard \in {{}, {Now}} /\ (at \in {"routing", "waiting", "sleeping"} => heard = {})
  BY DEF IInv, OutputKept
<1>3. ASSUME at = "waiting", heard' = {Now}, at' \in {"streaming", "done"}
      PROVE  Abstract!Next
  <2>1. Phase = "calling" /\ Voice' = Now
    BY <1>3, VoiceOfOne DEF Phase, Voice
  <2>2. CASE at' = "streaming"
    BY <1>1, <2>1, <2>2 DEF Abstract!Next, Abstract!Speak, Phase
  <2>3. CASE at' = "done"
    BY <1>1, <2>1, <2>3 DEF Abstract!Next, Abstract!Answer, Phase
  <2> QED  BY <1>3, <2>2, <2>3
<1>4. CASE FirstOutput \/ Result
  BY <1>2, <1>3, <1>4 DEF FirstOutput, Result
<1>5. ASSUME NEW k, Raised(k), at \in {"routing", "waiting", "streaming"}
      PROVE  UNCHANGED <<Phase, Voice>>
  <2>1. at = "streaming" => heard # {}
    BY DEF IInv, OutputKept
  <2> QED  BY <1>2, <1>5, <2>1 DEF Raised, Phase, Voice
<1>6. CASE NoRoute \/ ProviderRaises \/ TimedOut
  BY <1>5, <1>6 DEF NoRoute, ProviderRaises, TimedOut
<1>7. CASE StreamEnds
  BY <1>7 DEF StreamEnds, Abstract!Next, Abstract!End, Phase, Voice
<1>8. CASE Escapes
  BY <1>8 DEF Escapes, Abstract!Next, Abstract!Fail, Phase, Voice
<1>9. CASE FallBack
  <2>1. heard = {}
    BY <1>2, <1>9 DEF FallBack, Locked
  <2> QED  BY <1>9, <2>1 DEF FallBack, Abstract!Next, Abstract!Fail, Phase, Voice
<1>10. CASE Retry
  <2>1. heard = {}
    BY <1>2, <1>10 DEF Retry, Locked
  <2> QED  BY <1>10, <2>1 DEF Retry, Phase, Voice
<1>11. CASE CallerLeaves
  BY <1>11 DEF CallerLeaves, Abstract!Next, Abstract!Leave, Phase, Voice
<1>12. CASE Call \/ Wake
  <2>1. Phase = "calling" /\ Phase' = "calling"
    BY <1>12 DEF Call, Wake, Phase
  <2>2. heard' = heard
    BY <1>12 DEF Call, Wake
  <2> QED  BY <2>1, <2>2 DEF Voice
<1>13. CASE Finalized \/ UNCHANGED vars
  <2>1. at' = at /\ heard' = heard
    BY <1>13 DEF Finalized, vars
  <2> QED  BY <2>1 DEF Phase, Voice
<1> QED
  BY <1>4, <1>6, <1>7, <1>8, <1>9, <1>10, <1>11, <1>12, <1>13
  DEF Next, Steps, Provider, Ended

\* Whatever providers do, a caller is given the output of one try only, and
\* after its first output the call goes on with that try or ends.
THEOREM RouterImplementsModelCall == Spec => ImplementsModelCall
<1>1. Init => Abstract!Init
  BY InitSimulates
<1>2. IInv /\ [Next]_vars => [Abstract!Next]_Abstract!vars
  BY StepSimulates
<1> QED  BY <1>1, <1>2, Invariance, PTL DEF Spec, ImplementsModelCall, Abstract!Spec
=============================================================================
