\* Main and one helper at once, three completions, a grant that a single
\* completion may spend or overdraw.
SPECIFICATION Spec
CONSTANTS
    Main = main
    Helpers = {helper}
    Unlimited = Unlimited
    Grants <- MCGrants
    Caps <- MCCaps
    Scale = 3
    Equivalences <- MCEquivalences
    ReasoningRate = 2
    Inputs <- MCInputs
    MaxOutput = 1
    MaxCalls = 3
INVARIANTS
    TypeOK
    OverdraftBounded
    AnchoredOnFirst
PROPERTIES
    ReportAgrees
