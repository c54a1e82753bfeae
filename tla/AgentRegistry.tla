--------------------------- MODULE AgentRegistry ---------------------------
(***************************************************************************)
(* The registry of managed agents (agent_registry.py) as the API uses it:  *)
(* one registration, or the discovery of every installed package, is one   *)
(* transaction that looks a version up, checks that the tools its manifest *)
(* declares are enabled, and inserts the version with its grants.          *)
(*                                                                         *)
(* The statements of a transaction are steps of their own, and each reads  *)
(* what is committed by then.  A row that is not committed yet holds its   *)
(* unique key: another insert of it waits, and fails if it is committed.   *)
(***************************************************************************)
EXTENDS Naturals, Sequences, SequencesExt, FiniteSets

CONSTANTS
    Tools,      \* a tool's name with a version
    Defined,    \* the tools that have a tool_definitions row
    Versions,   \* agents: a slug with a version
    Contents,   \* registrations, each standing for its digest
    VersionOf,  \* the version a registration is for
    Declared,   \* the tools the manifest of a registration declares
    Requests,   \* registration and discovery requests
    Batches,    \* the registrations a request brings, in their order
    Seeded,     \* the content of each built-in agent, None for another version
    SeedGrants, \* grants of built-in agents that some release's seed inserts
    Switched,   \* bound: the tools an operator switches on and off
    None

ASSUME RegistryAssumption ==
    /\ Defined \subseteq Tools
    /\ Switched \subseteq Defined
    /\ VersionOf \in [Contents -> Versions]
    /\ Declared \in [Contents -> SUBSET Tools]
    /\ Batches \in [Requests -> Seq(Contents) \ {<<>>}]
    /\ None \notin Contents
    /\ Seeded \in [Versions -> Contents \cup {None}]
    /\ SeedGrants \in [Versions -> SUBSET Tools]
    /\ \A v \in Versions : Seeded[v] = None => SeedGrants[v] = {}
    \* a seed's row has no registration_sha256: it is no registration's
    /\ \A q \in Requests : \A i \in DOMAIN Batches[q] :
          Batches[q][i] # Seeded[VersionOf[Batches[q][i]]]

VARIABLES
    enabled,   \* tools whose tool_definitions row is enabled
    agent,     \* the registration in each version's agents row, or None
    grants,    \* agent_tool_grants
    request    \* the requests' transactions

registryVars == <<enabled, agent, grants, request>>

RequestSteps == {"idle", "lookup", "tools", "insert", "commit", "closed"}
RequestAnswers == {"none", "ok", "conflict", "missing_tool", "error", "lost"}

\* done: how many of the batch are; added: inserted, not yet committed.
RequestState ==
    [step : RequestSteps, done : Nat, added : SUBSET Contents, answer : RequestAnswers]

RegistryTypeOK ==
    /\ enabled \in SUBSET Defined
    /\ agent \in [Versions -> Contents \cup {None}]
    /\ grants \in [Versions -> SUBSET Tools]
    /\ request \in [Requests -> RequestState]

RegistryInit ==
    /\ enabled = Defined
    /\ agent = Seeded
    /\ grants = [v \in Versions |-> {}]
    /\ request = [q \in Requests |->
                    [step |-> "idle", done |-> 0, added |-> {}, answer |-> "none"]]

-----------------------------------------------------------------------------
Current(q) == Batches[q][request[q].done + 1]
AddedFor(q, v) == {c \in request[q].added : VersionOf[c] = v}

\* The rows of v a request can see: its own and the committed one.
Seen(q, v) == AddedFor(q, v) \cup ({agent[v]} \ {None})

Go(q, step) == request' = [request EXCEPT ![q].step = step]

\* The request's transaction is rolled back.
Refuse(q, answer) ==
    request' = [request EXCEPT ![q].step = "closed", ![q].added = {}, ![q].answer = answer]

\* The current registration is done, with what the request has added by then.
Advance(q, added) ==
    request' = [request EXCEPT
        ![q].done = @ + 1,
        ![q].added = added,
        ![q].step = IF request[q].done + 1 = Len(Batches[q]) THEN "commit" ELSE "lookup"]

Submit(q) ==
    /\ request[q].step = "idle"
    /\ Go(q, "lookup")
    /\ UNCHANGED <<enabled, agent, grants>>

\* register_agent: the same content is answered as it is, another is refused.
LookupVersion(q) ==
    LET c == Current(q)
        known == Seen(q, VersionOf[c])
    IN  /\ request[q].step = "lookup"
        /\ \/ known = {} /\ Go(q, "tools")
           \/ c \in known /\ Advance(q, request[q].added)
           \/ known # {} /\ c \notin known /\ Refuse(q, "conflict")
        /\ UNCHANGED <<enabled, agent, grants>>

CheckTools(q) ==
    /\ request[q].step = "tools"
    /\ \/ Declared[Current(q)] \subseteq enabled /\ Go(q, "insert")
       \/ ~(Declared[Current(q)] \subseteq enabled) /\ Refuse(q, "missing_tool")
    /\ UNCHANGED <<enabled, agent, grants>>

\* uq_agents_name_version, whose violation nothing catches (HTTP 500).  (Overwriting:
\* a variant without it.)
InsertAgentOverwriting(q) ==
    /\ request[q].step = "insert"
    /\ Advance(q, request[q].added \cup {Current(q)})
    /\ UNCHANGED <<enabled, agent, grants>>

InsertAgent(q) ==
    LET c == Current(q)
        v == VersionOf[c]
    IN  /\ request[q].step = "insert"
        /\ \A p \in Requests \ {q} : AddedFor(p, v) = {}
        /\ \/ agent[v] = None /\ Advance(q, request[q].added \cup {c})
           \/ agent[v] # None /\ Refuse(q, "error")
        /\ UNCHANGED <<enabled, agent, grants>>

CommitRegistration(q) ==
    LET added == request[q].added
        News(v) == CHOOSE c \in added : VersionOf[c] = v
        new == {VersionOf[c] : c \in added}
    IN  /\ request[q].step = "commit"
        /\ agent' = [v \in Versions |-> IF v \in new THEN News(v) ELSE agent[v]]
        /\ grants' = [v \in Versions |-> IF v \in new THEN Declared[News(v)] ELSE grants[v]]
        /\ request' = [request EXCEPT ![q].step = "closed", ![q].added = {}, ![q].answer = "ok"]
        /\ UNCHANGED enabled

\* The API process or its connection dies.
LoseRequest(q) ==
    /\ request[q].step \notin {"idle", "closed"}
    /\ Refuse(q, "lost")
    /\ UNCHANGED <<enabled, agent, grants>>

\* An operator switches a tool: the one column of its row that may change.
SwitchTool(t) ==
    /\ t \in Switched
    /\ enabled' = IF t \in enabled THEN enabled \ {t} ELSE enabled \cup {t}
    /\ UNCHANGED <<agent, grants, request>>

\* seed_database, by the release that is deployed: a row that is there is kept.
SeedGrant(v, t) ==
    /\ t \in SeedGrants[v]
    /\ grants' = [grants EXCEPT ![v] = @ \cup {t}]
    /\ UNCHANGED <<enabled, agent, request>>

RegistryStep(q) ==
    \/ Submit(q) \/ LookupVersion(q) \/ CheckTools(q)
    \/ InsertAgent(q) \/ CommitRegistration(q) \/ LoseRequest(q)

RegistryNext ==
    \/ \E q \in Requests : RegistryStep(q)
    \/ \E t \in Tools : SwitchTool(t)
    \/ \E v \in Versions, t \in Tools : SeedGrant(v, t)

RegistrySpec == RegistryInit /\ [][RegistryNext]_registryVars

-----------------------------------------------------------------------------
\* A request that was answered with success finds every registration of its
\* batch in the registry, with the grants of its own manifest, whatever other
\* requests register at the same time (register_agent).
RegistrationIsHonest ==
    \A q \in Requests : request[q].answer = "ok" =>
        \A c \in ToSet(Batches[q]) :
            agent[VersionOf[c]] = c /\ grants[VersionOf[c]] = Declared[c]

\* A registered version keeps its content and its grants for ever.
VersionIsFinal ==
    [][\A v \in Versions : agent[v] # None =>
          /\ agent'[v] = agent[v]
          /\ Seeded[v] = None => grants'[v] = grants[v]]_registryVars
=============================================================================
