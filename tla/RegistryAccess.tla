-------------------------- MODULE RegistryAccess --------------------------
(***************************************************************************)
(* The registration and discovery routes (api.py): the registry behind     *)
(* access control.  A request is admitted and then registers what it       *)
(* brings, while keys are revoked and principals disabled.                 *)
(***************************************************************************)
EXTENDS AgentRegistry, AccessControl

ASSUME RouteAssumption == Requests \subseteq Callers

vars == <<registryVars, accessVars>>

Init == RegistryInit /\ AccessInit

\* create_agent_registration and discover_agent_registrations.
Handle(q) ==
    /\ caller[q].step = "entered"
    /\ RegistryStep(q)
    /\ UNCHANGED accessVars

Next ==
    \/ \E q \in Callers : Admission(q) /\ UNCHANGED registryVars
    \/ \E q \in Requests : Handle(q)
    \/ Operator /\ UNCHANGED registryVars
    \/ \E t \in Tools : SwitchTool(t) /\ UNCHANGED accessVars
    \/ \E v \in Versions, t \in Tools : SeedGrant(v, t) /\ UNCHANGED accessVars

Spec == Init /\ [][Next]_vars

-----------------------------------------------------------------------------
\* Whatever is registered beyond the seeds was brought by a request whose key
\* has the route's scope, and a request that is told that it lacks it is in the
\* audit log, also when its key or principal is withdrawn meanwhile
\* (require_scopes).
RegistrationIsAuthorised ==
    /\ \A v \in Versions : agent[v] \notin {None, Seeded[v]} =>
          \E q \in Requests : /\ agent[v] \in ToSet(Batches[q])
                              /\ request[q].answer = "ok"
                              /\ Allows(caller[q].key)
    /\ \A q \in Callers : caller[q].answer = "forbidden" =>
          <<"api.authorization.denied", q>> \in audit
=============================================================================
