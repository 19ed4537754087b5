\* Everything unreachable is reaped.  A batch of one cuts every walk short.
SPECIFICATION FairSpec
CONSTANTS
    Responses = {r1, r2, r3}
    Convs = {c1}
    Payloads = {p1}
    None = None
    MaxOutputs = 0
    Batch = 1
PROPERTIES
    GarbageGoes
