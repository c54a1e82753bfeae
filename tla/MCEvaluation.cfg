SPECIFICATION Spec
CONSTANTS
    c1 = c1
    k1 = k1
    s1 = s1
    s2 = s2
    recovery = recovery
    None = None
    Callers = {c1}
    Keys = {k1}
    KeyOf <- MCKeyOf
    Suites <- MCSuites
    Scenarios <- MCScenarios
    Catalog <- MCCatalog
    Indices = {1, 2}
    Slots = {s1, s2}
    Recovery = recovery
    Plans <- MCPlans
    Sessions <- MCSessions
    OperatorPlans <- MCOperatorPlans
    MaxGranted = 1
    MaxAttempts = 2
    MaxFaults = 1
INVARIANTS
    TriggersAreSpentOnce
    SucceededIsEarned
PROPERTIES
    EvaluationEnds
CHECK_DEADLOCK FALSE
