\* Two requests contend for a version with different contents, one of them while
\* it holds another version's key, and keys end while they are under way.
SPECIFICATION Spec
CONSTANTS
    lookup1 = lookup1
    lookup2 = lookup2
    ops = ops
    audits = audits
    auditsA = auditsA
    alice = alice
    writer = writer
    reader = reader
    onboarding = onboarding
    opsA = opsA
    opsB = opsB
    builtIn = builtIn
    q1 = q1
    q2 = q2
    q3 = q3
    None = None
    Tools = {lookup1, lookup2}
    Defined = {lookup1, lookup2}
    Switched = {lookup2}
    Versions = {ops, audits, onboarding}
    Contents = {opsA, opsB, auditsA, builtIn}
    VersionOf <- MCVersionOf
    Declared <- MCDeclared
    Requests = {q1, q2, q3}
    Batches <- MCBatches
    Seeded <- MCSeeded
    SeedGrants <- MCSeedGrants
    Principals = {alice}
    ApiKeys = {writer, reader}
    OwnerOf <- MCOwnerOf
    ScopesOf <- MCScopesOf
    TypeOf <- MCTypeOf
    Callers = {q1, q2, q3}
    RouteScope = "agents:write"
    RouteTypes = {"USER", "SERVICE", "AGENT"}
CHECK_DEADLOCK FALSE
INVARIANTS
    RegistrationIsHonest
    RegistrationIsAuthorised
PROPERTIES
    VersionIsFinal
