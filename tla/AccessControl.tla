--------------------------- MODULE AccessControl ---------------------------
(***************************************************************************)
(* API keys and the requests that use them (auth.py, auth_cli.py, the      *)
(* route dependencies of api.py).  An operator's command is one            *)
(* transaction: of two that race on one row, the second finds it changed   *)
(* or breaks at the key of its audit event, and changes nothing.  A        *)
(* request looks its key up, then its principal, and goes on with what it  *)
(* has read: a key that is revoked by then does not stop it.               *)
(***************************************************************************)
EXTENDS Naturals, Sequences, FiniteSets, TLC

CONSTANTS
    Principals,  \* users of the API
    ApiKeys,     \* api_keys.key_identifier
    OwnerOf,     \* the principal each key is made for
    ScopesOf,    \* the scopes it is made with
    TypeOf,      \* auth_principals.principal_type
    Callers,     \* requests of the route that is modelled
    RouteScope,  \* the scope the route requires
    RouteTypes   \* the types of principals it admits

ASSUME AccessAssumption ==
    /\ OwnerOf \in [ApiKeys -> Principals]
    /\ DOMAIN ScopesOf = ApiKeys
    /\ DOMAIN TypeOf = Principals

VARIABLES
    principal,  \* auth_principals.status, "absent" before the bootstrap
    apiKey,     \* the state of each key
    audit,      \* the audit events of keys, principals and refused requests
    caller      \* [step, key, answer] of each request

accessVars == <<principal, apiKey, audit, caller>>

CallerSteps == {"idle", "lookup", "principal", "scopes", "deny", "entered", "closed"}
CallerAnswers == {"none", "unauthorized", "forbidden", "error"}

AccessTypeOK ==
    /\ principal \in [Principals -> {"absent", "active", "disabled"}]
    /\ apiKey \in [ApiKeys -> {"absent", "active", "expired", "revoked"}]
    /\ caller \in [Callers -> [step : CallerSteps, key : ApiKeys \cup {"none"},
                              answer : CallerAnswers]]

AccessInit ==
    /\ principal = [p \in Principals |-> "absent"]
    /\ apiKey = [k \in ApiKeys |-> "absent"]
    /\ audit = {}
    /\ caller = [q \in Callers |-> [step |-> "idle", key |-> "none", answer |-> "none"]]

-----------------------------------------------------------------------------
(***************************************************************************)
(* The operator's commands.                                                *)
(***************************************************************************)
\* A principal that is there is left as it is, a disabled one too.
Bootstrap(k) ==
    /\ apiKey[k] = "absent"
    /\ apiKey' = [apiKey EXCEPT ![k] = "active"]
    /\ principal' = [principal EXCEPT
          ![OwnerOf[k]] = IF @ = "absent" THEN "active" ELSE @]
    /\ audit' = audit \cup {<<"api_key.create", k>>}
    /\ UNCHANGED caller

Revoke(k) ==
    /\ apiKey[k] \in {"active", "expired"}
    /\ apiKey' = [apiKey EXCEPT ![k] = "revoked"]
    /\ audit' = audit \cup {<<"api_key.revoke", k>>}
    /\ UNCHANGED <<principal, caller>>

DisablePrincipal(p) ==
    /\ principal[p] = "active"
    /\ principal' = [principal EXCEPT ![p] = "disabled"]
    /\ audit' = audit \cup {<<"principal.disable", p>>}
    /\ UNCHANGED <<apiKey, caller>>

\* Its time is over.
Expire(k) ==
    /\ apiKey[k] = "active"
    /\ apiKey' = [apiKey EXCEPT ![k] = "expired"]
    /\ UNCHANGED <<principal, audit, caller>>

-----------------------------------------------------------------------------
(***************************************************************************)
(* A request up to its handler.                                            *)
(***************************************************************************)
Who(q) == OwnerOf[caller[q].key]
Turn(q, step) == caller' = [caller EXCEPT ![q].step = step]
Dismiss(q, answer) == caller' = [caller EXCEPT ![q].step = "closed", ![q].answer = answer]

Present(q, k) ==
    /\ caller[q].step = "idle"
    /\ caller' = [caller EXCEPT ![q].step = "lookup", ![q].key = k]
    /\ UNCHANGED <<principal, apiKey, audit>>

\* resolve_api_key: the key, then its principal.
LookupKey(q) ==
    /\ caller[q].step = "lookup"
    /\ \/ apiKey[caller[q].key] = "active" /\ Turn(q, "principal")
       \/ apiKey[caller[q].key] # "active" /\ Dismiss(q, "unauthorized")
    /\ UNCHANGED <<principal, apiKey, audit>>

LookupPrincipal(q) ==
    /\ caller[q].step = "principal"
    /\ \/ principal[Who(q)] = "active" /\ Turn(q, "scopes")
       \/ principal[Who(q)] # "active" /\ Dismiss(q, "unauthorized")
    /\ UNCHANGED <<principal, apiKey, audit>>

Allows(k) == "admin" \in ScopesOf[k] \/ RouteScope \in ScopesOf[k]

\* require_scopes.  (ByType: a variant that does not look at the scopes.)
AdmittedByType(q) == TypeOf[Who(q)] \in RouteTypes
Admitted(q) == Allows(caller[q].key) /\ TypeOf[Who(q)] \in RouteTypes

CheckScopes(q) ==
    /\ caller[q].step = "scopes"
    /\ \/ Admitted(q) /\ Turn(q, "entered")
       \/ ~Admitted(q) /\ Turn(q, "deny")
    /\ UNCHANGED <<principal, apiKey, audit>>

\* audit_authorization_denial, in a transaction of its own that may fail.
AuditDenial(q) ==
    /\ caller[q].step = "deny"
    /\ \/ audit' = audit \cup {<<"api.authorization.denied", q>>} /\ Dismiss(q, "forbidden")
       \/ Dismiss(q, "error") /\ UNCHANGED audit
    /\ UNCHANGED <<principal, apiKey>>

Operator ==
    \/ \E k \in ApiKeys : Bootstrap(k) \/ Revoke(k) \/ Expire(k)
    \/ \E p \in Principals : DisablePrincipal(p)

Admission(q) ==
    \/ \E k \in ApiKeys : Present(q, k)
    \/ LookupKey(q) \/ LookupPrincipal(q) \/ CheckScopes(q) \/ AuditDenial(q)
=============================================================================
