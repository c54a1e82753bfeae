\* The claim of ADR 0004 that a conflicting decision is rejected.
SPECIFICATION Spec
CONSTANTS
    Runs = {r1}
    Vendors = {v1}
    VendorOf <- SameVendor
    Decisions <- SharedKey
    BrokenTools = {}
    MaxAttempts = 3
    MaxExecutions <- Once
    MaxFaults = 0
    None = None
    r1 = r1
    r2 = r2
    v1 = v1
    k1 = k1
    k2 = k2
CHECK_DEADLOCK FALSE
INVARIANT
    AckedIsRecorded
