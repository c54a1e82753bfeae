\* The claim of the overview that a repetition converges on what is committed.
SPECIFICATION Spec
CONSTANTS
    Runs = {parent, child, greedy}
    Parent <- OneParent
    Programs <- AnyProgram
    Limits <- SmallLimits
    FanOut <- TwoChildren
    Tokens = {0, 2}
    MaxAttempts = 2
    MaxFaults = 1
    None = None
    parent = parent
    child = child
    greedy = greedy
CHECK_DEADLOCK FALSE
PROPERTY
    SucceededIsFinal
