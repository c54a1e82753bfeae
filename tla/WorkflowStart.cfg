\* Two runs, an API request and a recovery command with a limit of one run; two
\* faults.  No symmetry: IntentIsSettled is a liveness property.
SPECIFICATION FairSpec
CONSTANTS
    Keys = {k1, k2}
    Requests = {f1}
    Callers = {c1}
    Recoverers = {o1}
    RecoverLimit = 1
    MaxFaults = 2
    None = None
INVARIANTS
    TypeOK
    StartedMeansAccepted
    ResultIsFenced
    ClaimIsExclusive
    OneExecutionPerClaim
PROPERTIES
    StartedIsFinal
    ImplementsHandoff
    IntentIsSettled
