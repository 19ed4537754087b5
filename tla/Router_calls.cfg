\* Chains of three entries with the code's two transport retries.
SPECIFICATION FairSpec
CONSTANTS
    Attempts = 3
    Retries = 2
INVARIANTS
    TypeOK
    OneStream
    LastResort
PROPERTIES
    ImplementsModelCall
    Ends
