------------------------ MODULE DeltaLogRefinement ------------------------
(* The delta log implements ReplayLog: the transcript of a response is what *)
(* list_response_replay returns for it.                                    *)
EXTENDS DeltaLog, Sequences

\* The items of one response, input before outputs, each by its index.
OwnItems(r) ==
    LET upTo[s \in Slots] ==
            (IF s = 0 THEN <<>> ELSE upTo[s - 1])
              \o (IF item[r][s] = None THEN <<>> ELSE <<item[r][s]>>)
    IN  upTo[MaxOutputs]

\* list_response_replay: ordered by position in the lineage, direction, index.
Replay(r) ==
    LET up[x \in Responses] ==
            (IF x = base[r] \/ prev[x] = None THEN <<>> ELSE up[prev[x]]) \o OwnItems(x)
    IN  IF r \in records THEN up[r] ELSE <<>>

Phase(r) == IF r \notin records THEN "absent"
            ELSE IF status[r] \in Terminal THEN "closed" ELSE "open"

Inherited(r) == IF prev[r] = None THEN 0 ELSE Len(Replay(prev[r]))

Log == INSTANCE ReplayLog WITH
    Contents <- Payloads,
    Nothing <- None,
    phase <- [r \in Responses |-> Phase(r)],
    transcript <- [r \in Responses |-> Replay(r)],
    inherited <- [r \in Responses |-> Inherited(r)],
    current <- head

\* Every transaction of requests, clients and collectors is a step of the
\* abstract log or invisible in it.
ImplementsReplayLog == Log!Spec
=============================================================================
