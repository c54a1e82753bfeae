\* A run that delegates to another one; two faults.
SPECIFICATION FairSpec
CONSTANTS
    Runs = {parent, child, greedy}
    Parent <- OneParent
    Programs <- AnyProgram
    Limits <- SmallLimits
    FanOut <- TwoChildren
    Tokens = {0, 2}
    MaxAttempts = 2
    MaxFaults = 2
    None = None
    parent = parent
    child = child
    greedy = greedy
CHECK_DEADLOCK FALSE
INVARIANTS
    TypeOK
    BudgetIsRespected
    
    ChildIsAttenuated
    ApprovalGates
PROPERTIES
    CancelledIsFinal
    WorkflowCloses
