\* One execution with fewer faults than attempts: what approvers and operators are
\* told comes true.
SPECIFICATION FairSpec
CONSTANTS
    Runs = {r1}
    Vendors = {v1}
    VendorOf <- SameVendor
    Decisions <- OwnKeys
    BrokenTools = {"lookup", "search"}
    MaxAttempts = 3
    MaxExecutions <- Once
    MaxFaults = 2
    None = None
    r1 = r1
    r2 = r2
    v1 = v1
    k1 = k1
    k2 = k2
CHECK_DEADLOCK FALSE
INVARIANTS
    CancelExcludesDecision
    AckedIsRecorded
    FailureIsRecorded
PROPERTIES
    AckedDecisionIsRecorded
    ReviewProgresses
