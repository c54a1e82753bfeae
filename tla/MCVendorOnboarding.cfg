\* Two runs for the same vendor; the workflow of one of them is executed twice.
SPECIFICATION Spec
CONSTANTS
    Runs = {r1, r2}
    Vendors = {v1}
    VendorOf <- SameVendor
    Decisions <- OwnKeys
    BrokenTools = {"lookup", "search", "email"}
    MaxAttempts = 2
    MaxExecutions <- Twice
    MaxFaults = 1
    None = None
    r1 = r1
    r2 = r2
    v1 = v1
    k1 = k1
    k2 = k2
CHECK_DEADLOCK FALSE
INVARIANTS
    TypeOK
    OneDecision
    DecisionIsAtomic
    ListingIsJustified
PROPERTIES
    ClosedApprovalIsFinal
    ImplementsCase
