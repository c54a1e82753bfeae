\* The claim of ADR 0012 on duplicate executions.
SPECIFICATION Spec
CONSTANTS
    Keys = {k1}
    Requests = {f1}
    Callers = {c1}
    Recoverers = {o1}
    RecoverLimit = 1
    MaxFaults = 2
    None = None
INVARIANT
    AtMostOneExecution
