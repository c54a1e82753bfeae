\* Two callers, one of which tries again: a key or a name is contended by two.
SPECIFICATION Spec
CONSTANTS
    lookup1 = lookup1
    lookup2 = lookup2
    draft = draft
    ghost = ghost
    ops = ops
    opsA = opsA
    q1 = q1
    r1 = r1
    k1 = k1
    k2 = k2
    good = good
    bad = bad
    None = None
    c1 = c1
    c2 = c2
    Tools = {lookup1, lookup2, draft, ghost}
    Switched = {lookup2}
    Versions = {ops}
    Contents = {opsA}
    VersionOf <- MCVersionOf
    Declared <- MCDeclared
    Requests = {q1}
    Batches <- MCBatches
    Seeded <- MCSeeded
    SeedGrants <- MCSeedGrants
    Runs = {r1}
    Keys = {k1, k2}
    Names = {"lookup", "draft", "ghost"}
    NameOf <- MCNameOf
    Defined = {lookup1, lookup2, draft}
    Handled = {"lookup"}
    Sensitive = {lookup2}
    ValidArgs = {good}
    Calls = {c1, c2}
    Asks <- MCAsks
    PoolSize = 2
    Tries <- MCTries
CHECK_DEADLOCK FALSE
INVARIANTS
    EffectIsAuthorised
    RefusalIsRecorded
PROPERTIES
    RowIsFinal
    ImplementsCall
    CallsEnd
