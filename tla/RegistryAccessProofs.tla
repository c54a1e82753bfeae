------------------------ MODULE RegistryAccessProofs ------------------------
(***************************************************************************)
(* Proofs about the registration routes: access control in front of the    *)
(* registry.  The composition implements the registry on its own, so what  *)
(* is proved of that holds of the routes; and whatever a request registers *)
(* is registered by a caller that was admitted with the scope.             *)
(***************************************************************************)
EXTENDS RegistryAccess, AgentRegistryProofs

CallerOK ==
    /\ caller \in [Callers -> [step : CallerSteps, key : ApiKeys \cup {"none"},
                               answer : CallerAnswers]]
    /\ \A q \in Callers :
          /\ caller[q].step = "entered" => Allows(caller[q].key)
          /\ caller[q].answer = "forbidden" => <<"api.authorization.denied", q>> \in audit

\* A request that has begun was admitted, and inserts what it brings.
StartedIsAdmitted ==
    \A q \in Requests :
        /\ request[q].step # "idle" => caller[q].step = "entered"
        /\ request[q].added \subseteq ToSet(Batches[q])

Brought(v) ==
    \E q \in Requests : /\ agent[v] \in ToSet(Batches[q])
                        /\ request[q].answer = "ok"
                        /\ Allows(caller[q].key)

RowsAreBrought == \A v \in Versions : agent[v] \notin {None, Seeded[v]} => Brought(v)

AccessIInv == RegistryIInv /\ CallerOK /\ StartedIsAdmitted /\ RowsAreBrought

\* The whole is made of steps of the registry and of steps that leave it alone.
LEMMA InitIsRegistry == Init => RegistryInit
BY DEF Init

LEMMA NextIsRegistry == [Next]_vars => [RegistryNext]_registryVars
<1> SUFFICES ASSUME [Next]_vars PROVE [RegistryNext]_registryVars
  OBVIOUS
<1>1. ASSUME NEW q \in Requests, Handle(q) PROVE RegistryNext
  BY <1>1 DEF Handle, RegistryNext
<1>2. ASSUME NEW t \in Tools, SwitchTool(t) PROVE RegistryNext
  BY <1>2 DEF RegistryNext
<1>3. ASSUME NEW v \in Versions, NEW t \in Tools, SeedGrant(v, t) PROVE RegistryNext
  BY <1>3 DEF RegistryNext
<1>4. CASE UNCHANGED vars
  BY <1>4 DEF vars
<1>. QED  BY <1>1, <1>2, <1>3, <1>4 DEF Next

-----------------------------------------------------------------------------
(***************************************************************************)
(* The steps of access control.                                            *)
(***************************************************************************)
\* Another step or answer of one caller, whose key stays.
CallerMoves(q) ==
    /\ caller' \in [Callers -> [step : CallerSteps, key : ApiKeys \cup {"none"},
                                answer : CallerAnswers]]
    /\ \A p \in Callers \ {q} : caller'[p] = caller[p]

LEMMA TurnEffect ==
    ASSUME CallerOK, NEW q \in Callers, NEW step \in CallerSteps, Turn(q, step)
    PROVE  /\ CallerMoves(q)
           /\ caller'[q].step = step
           /\ caller'[q].key = caller[q].key
           /\ caller'[q].answer = caller[q].answer
<1> DEFINE Held == ApiKeys \cup {"none"}
<1>1. /\ caller \in [Callers -> [step : CallerSteps, key : Held, answer : CallerAnswers]]
      /\ caller' = [caller EXCEPT ![q].step = step]
  BY DEF CallerOK, Turn
<1> HIDE DEF Held
<1>2. caller' \in [Callers -> [step : CallerSteps, key : Held, answer : CallerAnswers]]
  BY <1>1
<1>3. /\ caller'[q].step = step /\ caller'[q].key = caller[q].key
      /\ caller'[q].answer = caller[q].answer
      /\ \A p \in Callers \ {q} : caller'[p] = caller[p]
  BY <1>1
<1>. QED  BY <1>2, <1>3 DEF CallerMoves, Held

LEMMA DismissEffect ==
    ASSUME CallerOK, NEW q \in Callers, NEW answer \in CallerAnswers, Dismiss(q, answer)
    PROVE  /\ CallerMoves(q)
           /\ caller'[q].step = "closed"
           /\ caller'[q].answer = answer
<1> DEFINE Held == ApiKeys \cup {"none"}
<1>1. PICK step \in CallerSteps : step = "closed"
  BY DEF CallerSteps
<1>2. /\ caller \in [Callers -> [step : CallerSteps, key : Held, answer : CallerAnswers]]
      /\ caller' = [caller EXCEPT ![q].step = step, ![q].answer = answer]
  BY <1>1 DEF CallerOK, Dismiss
<1> HIDE DEF Held
<1>3. caller' \in [Callers -> [step : CallerSteps, key : Held, answer : CallerAnswers]]
  BY <1>2
<1>4. /\ caller'[q].step = step /\ caller'[q].answer = answer
      /\ \A p \in Callers \ {q} : caller'[p] = caller[p]
  BY <1>2
<1>. QED  BY <1>1, <1>3, <1>4 DEF CallerMoves, Held

\* A caller that is not admitted yet moves, and is true to its invariant.
LEMMA AdmissionKeeps ==
    ASSUME AccessIInv, NEW q \in Callers, caller[q].step # "entered", CallerMoves(q),
           caller'[q].step = "entered" => Allows(caller'[q].key),
           caller'[q].answer = "forbidden" => <<"api.authorization.denied", q>> \in audit',
           audit \subseteq audit', UNCHANGED registryVars
    PROVE  AccessIInv'
<1>1. UNCHANGED <<enabled, agent, grants, request>>
  BY DEF registryVars
<1>2. RegistryIInv'
  BY RegistryNextIInv DEF AccessIInv
<1>3. CallerOK'
  BY DEF AccessIInv, CallerOK, CallerMoves
<1>4. \A p \in Requests : request[p].step # "idle" => caller'[p] = caller[p]
  BY RouteAssumption DEF AccessIInv, StartedIsAdmitted, CallerMoves
<1>5. StartedIsAdmitted'
  BY <1>1, <1>4 DEF AccessIInv, StartedIsAdmitted
<1>6. RowsAreBrought'
  <2>1. ASSUME NEW p \in Requests, request[p].answer = "ok" PROVE request[p].step # "idle"
    BY <2>1 DEF AccessIInv, RegistryIInv, RequestOK, InBatch
  <2>. QED  BY <1>1, <1>4, <2>1 DEF AccessIInv, RowsAreBrought, Brought
<1>. QED  BY <1>2, <1>3, <1>5, <1>6 DEF AccessIInv

LEMMA AdmissionIInv ==
    ASSUME AccessIInv, NEW q \in Callers, Admission(q), UNCHANGED registryVars
    PROVE  AccessIInv'
<1>1. CallerOK
  BY DEF AccessIInv
<1>2. caller[q].answer = "forbidden" => <<"api.authorization.denied", q>> \in audit
  BY <1>1 DEF CallerOK
<1>3. ASSUME NEW step \in {"principal", "scopes", "deny"}, Turn(q, step),
             caller[q].step # "entered", UNCHANGED audit
      PROVE  AccessIInv'
  <2>1. step \in CallerSteps
    BY DEF CallerSteps
  <2>. QED  BY <1>1, <1>2, <1>3, <2>1, TurnEffect, AdmissionKeeps
<1>4. ASSUME NEW answer \in {"unauthorized", "error"}, Dismiss(q, answer),
             caller[q].step # "entered", UNCHANGED audit
      PROVE  AccessIInv'
  <2>1. answer \in CallerAnswers
    BY DEF CallerAnswers
  <2>. QED  BY <1>1, <1>4, <2>1, DismissEffect, AdmissionKeeps
<1>5. ASSUME NEW k \in ApiKeys, Present(q, k) PROVE AccessIInv'
  <2> DEFINE Held == ApiKeys \cup {"none"}
  <2>1. PICK step \in CallerSteps, key \in Held : step = "lookup" /\ key = k
    BY DEF CallerSteps
  <2>2. /\ caller \in [Callers -> [step : CallerSteps, key : Held, answer : CallerAnswers]]
        /\ caller' = [caller EXCEPT ![q].step = step, ![q].key = key]
        /\ caller[q].step = "idle" /\ UNCHANGED audit
    BY <1>1, <1>5, <2>1 DEF CallerOK, Present
  <2> HIDE DEF Held
  <2>3. caller' \in [Callers -> [step : CallerSteps, key : Held, answer : CallerAnswers]]
    BY <2>2
  <2>4. /\ caller'[q].step = step /\ caller'[q].answer = caller[q].answer
        /\ \A p \in Callers \ {q} : caller'[p] = caller[p]
    BY <2>2
  <2>5. CallerMoves(q)
    BY <2>3, <2>4 DEF CallerMoves, Held
  <2>. QED  BY <1>2, <2>1, <2>2, <2>4, <2>5, AdmissionKeeps
<1>6. CASE LookupKey(q) \/ LookupPrincipal(q)
  BY <1>3, <1>4, <1>6 DEF LookupKey, LookupPrincipal
<1>7. CASE CheckScopes(q)
  <2>1. CASE Admitted(q) /\ Turn(q, "entered")
    <3>1. "entered" \in CallerSteps /\ Allows(caller[q].key)
      BY <2>1 DEF CallerSteps, Admitted
    <3>2. caller[q].step # "entered" /\ UNCHANGED audit
      BY <1>7 DEF CheckScopes
    <3>3. /\ CallerMoves(q) /\ caller'[q].key = caller[q].key
          /\ caller'[q].answer = caller[q].answer
      BY <1>1, <2>1, <3>1, TurnEffect
    <3>. QED  BY <1>2, <3>1, <3>2, <3>3, AdmissionKeeps
  <2>. QED  BY <1>3, <1>7, <2>1 DEF CheckScopes
<1>8. CASE AuditDenial(q)
  <2>1. CASE /\ audit' = audit \cup {<<"api.authorization.denied", q>>}
             /\ Dismiss(q, "forbidden")
    <3>1. "forbidden" \in CallerAnswers /\ caller[q].step # "entered"
      BY <1>8 DEF CallerAnswers, AuditDenial
    <3>. QED  BY <1>1, <2>1, <3>1, DismissEffect, AdmissionKeeps
  <2>. QED  BY <1>4, <1>8, <2>1 DEF AuditDenial
<1>. QED  BY <1>5, <1>6, <1>7, <1>8 DEF Admission

LEMMA OperatorIInv ==
    ASSUME AccessIInv, Operator, UNCHANGED registryVars
    PROVE  AccessIInv'
<1>1. caller' = caller /\ audit \subseteq audit'
  BY DEF Operator, Bootstrap, Revoke, Expire, DisablePrincipal
<1>2. UNCHANGED <<enabled, agent, grants, request>>
  BY DEF registryVars
<1>3. RegistryIInv'
  BY RegistryNextIInv DEF AccessIInv
<1>4. CallerOK' /\ StartedIsAdmitted' /\ RowsAreBrought'
  BY <1>1, <1>2 DEF AccessIInv, CallerOK, StartedIsAdmitted, RowsAreBrought, Brought
<1>. QED  BY <1>3, <1>4 DEF AccessIInv

-----------------------------------------------------------------------------
(***************************************************************************)
(* The steps of the registry.                                              *)
(***************************************************************************)
\* A step belongs to a request that has not been answered, and adds to it what
\* the request brought.
LEMMA RegistryStepEffect ==
    ASSUME RegistryIInv, NEW q \in Requests, RegistryStep(q),
           request[q].added \subseteq ToSet(Batches[q])
    PROVE  /\ request[q].answer = "none"
           /\ OthersSame(q)
           /\ request'[q].added \subseteq ToSet(Batches[q])
           /\ CommitRegistration(q) \/ UNCHANGED agent
<1>1. RegistryTypeOK
  BY DEF RegistryIInv
<1>2. request[q].step # "closed"
  BY DEF RegistryStep, Submit, LookupVersion, CheckTools, InsertAgent, CommitRegistration,
         LoseRequest
<1>3. request[q].answer = "none"
  BY <1>2 DEF RegistryIInv, RequestOK, InBatch
<1>4. CommitRegistration(q) \/ UNCHANGED agent
  BY DEF RegistryStep, Submit, LookupVersion, CheckTools, InsertAgent, LoseRequest
<1>5. ASSUME NEW step \in RequestSteps, Go(q, step)
      PROVE  OthersSame(q) /\ request'[q].added \subseteq ToSet(Batches[q])
  BY <1>1, <1>5, GoEffect
<1>6. ASSUME NEW answer \in RequestAnswers, Refuse(q, answer)
      PROVE  OthersSame(q) /\ request'[q].added \subseteq ToSet(Batches[q])
  BY <1>1, <1>6, RefuseEffect
<1>7. OthersSame(q) /\ request'[q].added \subseteq ToSet(Batches[q])
  <2>1. CASE Submit(q)
    BY <1>5, <2>1 DEF Submit, RequestSteps
  <2>2. CASE LookupVersion(q)
    <3>1. request[q].added \in SUBSET Contents
      BY <1>1 DEF RegistryTypeOK, RequestState
    <3>2. CASE Advance(q, request[q].added)
      BY <1>1, <3>1, <3>2, AdvanceEffect
    <3>. QED  BY <1>5, <1>6, <2>2, <3>2 DEF LookupVersion, RequestSteps, RequestAnswers
  <2>3. CASE CheckTools(q)
    BY <1>5, <1>6, <2>3 DEF CheckTools, RequestSteps, RequestAnswers
  <2>4. CASE InsertAgent(q)
    <3>1. Current(q) \in Contents /\ Current(q) \in ToSet(Batches[q])
      BY <2>4, CurrentType, BatchFacts DEF InsertAgent, Current
    <3>2. request[q].added \cup {Current(q)} \in SUBSET Contents
      BY <1>1, <3>1 DEF RegistryTypeOK, RequestState
    <3>3. CASE Advance(q, request[q].added \cup {Current(q)})
      BY <1>1, <3>1, <3>2, <3>3, AdvanceEffect
    <3>. QED  BY <1>6, <2>4, <3>3 DEF InsertAgent, RequestAnswers
  <2>5. CASE CommitRegistration(q)
    <3>1. Refuse(q, "ok")
      BY <2>5 DEF CommitRegistration, Refuse
    <3>. QED  BY <1>6, <3>1 DEF RequestAnswers
  <2>6. CASE LoseRequest(q)
    BY <1>6, <2>6 DEF LoseRequest, RequestAnswers
  <2>. QED  BY <2>1, <2>2, <2>3, <2>4, <2>5, <2>6 DEF RegistryStep
<1>. QED  BY <1>3, <1>4, <1>7

LEMMA HandleIInv ==
    ASSUME AccessIInv, NEW q \in Requests, Handle(q)
    PROVE  AccessIInv'
<1>1. /\ caller[q].step = "entered" /\ RegistryStep(q)
      /\ caller' = caller /\ audit' = audit
  BY DEF Handle, accessVars
<1>2. RegistryIInv'
  BY <1>1, RegistryStepIInv DEF AccessIInv
<1>3. CallerOK'
  BY <1>1 DEF AccessIInv, CallerOK
<1>4. /\ request[q].answer = "none" /\ OthersSame(q)
      /\ request'[q].added \subseteq ToSet(Batches[q])
      /\ CommitRegistration(q) \/ UNCHANGED agent
  BY <1>1, RegistryStepEffect DEF AccessIInv, StartedIsAdmitted
<1>5. StartedIsAdmitted'
  BY <1>1, <1>4 DEF AccessIInv, StartedIsAdmitted, OthersSame
<1>6. RowsAreBrought'
  <2> SUFFICES ASSUME NEW v \in Versions, agent'[v] \notin {None, Seeded[v]}
               PROVE  Brought(v)'
    BY DEF RowsAreBrought
  <2>1. CASE agent'[v] = agent[v]
    <3>1. PICK p \in Requests : /\ agent[v] \in ToSet(Batches[p])
                                /\ request[p].answer = "ok"
                                /\ Allows(caller[p].key)
      BY <2>1 DEF AccessIInv, RowsAreBrought, Brought
    <3>2. request'[p] = request[p]
      BY <1>4, <3>1 DEF OthersSame
    <3>. QED  BY <1>1, <2>1, <3>1, <3>2 DEF Brought
  <2>2. CASE agent'[v] # agent[v]
    <3>1. CommitRegistration(q)
      BY <1>4, <2>2
    <3>2. PICK c \in request[q].added : agent'[v] = c
      BY <2>2, <3>1, CommitEffect DEF NewVersions, AccessIInv
    <3>3. c \in ToSet(Batches[q])
      BY DEF AccessIInv, StartedIsAdmitted
    <3>4. request'[q].answer = "ok"
      <4>1. Refuse(q, "ok")
        BY <3>1 DEF CommitRegistration, Refuse
      <4>. QED  BY <4>1, RefuseEffect DEF AccessIInv, RegistryIInv, RequestAnswers
    <3>5. Allows(caller[q].key)
      BY <1>1, RouteAssumption DEF AccessIInv, CallerOK
    <3>. QED  BY <1>1, <3>2, <3>3, <3>4, <3>5 DEF Brought
  <2>. QED  BY <2>1, <2>2
<1>. QED  BY <1>2, <1>3, <1>5, <1>6 DEF AccessIInv

\* A tool that is switched and a grant that is seeded register nothing.
LEMMA OutsideIInv ==
    ASSUME AccessIInv, RegistryIInv', UNCHANGED <<agent, request>>, UNCHANGED accessVars
    PROVE  AccessIInv'
BY DEF AccessIInv, CallerOK, StartedIsAdmitted, RowsAreBrought, Brought, accessVars

LEMMA InitAccessIInv == Init => AccessIInv
<1> SUFFICES ASSUME Init PROVE AccessIInv
  OBVIOUS
<1>1. RegistryIInv
  BY RegistryInitIInv DEF Init
<1>2. CallerOK
  BY DEF Init, AccessInit, CallerOK, CallerSteps, CallerAnswers
<1>3. StartedIsAdmitted /\ RowsAreBrought
  BY DEF Init, RegistryInit, StartedIsAdmitted, RowsAreBrought
<1>. QED  BY <1>1, <1>2, <1>3 DEF AccessIInv

LEMMA NextAccessIInv == AccessIInv /\ [Next]_vars => AccessIInv'
<1> SUFFICES ASSUME AccessIInv, [Next]_vars PROVE AccessIInv'
  OBVIOUS
<1>1. ASSUME NEW t \in Tools, SwitchTool(t), UNCHANGED accessVars PROVE AccessIInv'
  BY <1>1, SwitchToolIInv, OutsideIInv DEF AccessIInv, SwitchTool
<1>2. ASSUME NEW v \in Versions, NEW t \in Tools, SeedGrant(v, t), UNCHANGED accessVars
      PROVE  AccessIInv'
  BY <1>2, SeedGrantIInv, OutsideIInv DEF AccessIInv, SeedGrant
<1>3. CASE UNCHANGED vars
  <2>1. UNCHANGED registryVars /\ UNCHANGED accessVars /\ UNCHANGED <<agent, request>>
    BY <1>3 DEF vars, registryVars
  <2>. QED  BY <2>1, RegistryNextIInv, OutsideIInv DEF AccessIInv
<1>. QED  BY <1>1, <1>2, <1>3, AdmissionIInv, HandleIInv, OperatorIInv DEF Next

LEMMA AccessInvariance == Spec => []AccessIInv
BY InitAccessIInv, NextAccessIInv, PTL DEF Spec

-----------------------------------------------------------------------------
\* The routes implement the registry on its own: access control only ever keeps
\* a request from it.
THEOREM RoutesImplementRegistry == Spec => RegistrySpec
BY InitIsRegistry, NextIsRegistry, PTL DEF Spec, RegistrySpec

\* What is registered beyond the seeds was brought by a caller with the scope,
\* also if its key is revoked meanwhile; a refusal for its lack is audited.
THEOREM RegistrationsAreAuthorised == Spec => []RegistrationIsAuthorised
<1>1. AccessIInv => RegistrationIsAuthorised
  BY DEF AccessIInv, RowsAreBrought, Brought, CallerOK, RegistrationIsAuthorised
<1>. QED  BY <1>1, AccessInvariance, PTL

\* What is proved of the registry holds of the routes.
THEOREM RoutesAreHonest == Spec => []RegistrationIsHonest /\ VersionIsFinal
BY RoutesImplementRegistry, RegistrationsAreHonest, VersionsAreFinal
=============================================================================
