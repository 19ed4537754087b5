\* Two responses that share payloads, two conversations: item writes against
\* the collectors.
SPECIFICATION Spec
CONSTANTS
    Responses = {r1, r2}
    Convs = {c1, c2}
    Payloads = {p1, p2}
    None = None
    MaxOutputs = 2
    Batch = 2
SYMMETRY Symmetry
PROPERTIES
    ImplementsReplayLog
