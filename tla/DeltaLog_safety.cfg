\* Three responses in one chain or two, one conversation: requests, deletes and
\* both collectors in every order.  Beside them, three requests that name each
\* other's items; requests end, so that behaviour stops.
SPECIFICATION StoreSpec
CONSTANTS
    Responses = {r1, r2, r3}
    Convs = {c1}
    Payloads = {p1}
    None = None
    MaxOutputs = 0
    Batch = 2
    Requests = {q1, q2, q3}
    NoId = NoId
SYMMETRY StoreSymmetry
INVARIANTS
    TypeOK
    RefcountsExact
    NoDangling
    HeadLeased
    ContextComplete
    SettledParents
PROPERTIES
    HeldRecordsStay
    ImplementsReplayLog
    Continued
CHECK_DEADLOCK FALSE
