------------------------ MODULE AgentRegistryProofs ------------------------
(***************************************************************************)
(* Proofs about the registry, for any number of tools, versions and        *)
(* requests with batches of any length.  The unique key does it: what a    *)
(* request has inserted and not yet committed is a version that has no     *)
(* row, that no other request has inserted and that it has inserted once.  *)
(***************************************************************************)
EXTENDS AgentRegistry, TLAPS

\* The variables of one request are consistent.
InBatch(q) ==
    /\ request[q].step = "idle" => request[q].done = 0 /\ request[q].added = {}
    /\ request[q].step \in {"lookup", "tools", "insert"} => request[q].done < Len(Batches[q])
    /\ request[q].step = "commit" => request[q].done = Len(Batches[q])
    /\ request[q].step = "closed" => request[q].added = {}
    /\ request[q].step # "closed" => request[q].answer = "none"

\* The version that is about to be inserted is not among the inserted ones.
NotYetAdded(q) ==
    request[q].step \in {"tools", "insert"} =>
        \A c \in request[q].added : VersionOf[c] # VersionOf[Current(q)]

\* What is inserted is a version that has no row, once.
AddedIsNew(q) ==
    /\ \A c \in request[q].added : agent[VersionOf[c]] = None
    /\ \A c, d \in request[q].added : VersionOf[c] = VersionOf[d] => c = d

\* What is done is inserted or there.
DoneIsThere(q) ==
    request[q].step # "closed" =>
        \A i \in 1 .. request[q].done :
            Batches[q][i] \in request[q].added \/ agent[VersionOf[Batches[q][i]]] = Batches[q][i]

RequestOK(q) == InBatch(q) /\ NotYetAdded(q) /\ AddedIsNew(q) /\ DoneIsThere(q)

\* No two requests have inserted one version: the second insert waits.
AddedApart ==
    \A p, q \in Requests : p # q =>
        \A c \in request[p].added, d \in request[q].added : VersionOf[c] # VersionOf[d]

SeedsKept == \A v \in Versions : Seeded[v] # None => agent[v] = Seeded[v]

\* A version that is not a seed's has the grants of its own manifest.
GrantsAreDeclared ==
    \A v \in Versions : agent[v] \notin {None, Seeded[v]} => grants[v] = Declared[agent[v]]

RegistryIInv ==
    /\ RegistryTypeOK
    /\ \A q \in Requests : RequestOK(q)
    /\ AddedApart
    /\ SeedsKept
    /\ GrantsAreDeclared
    /\ RegistrationIsHonest

LEMMA BatchFacts ==
    ASSUME NEW q \in Requests
    PROVE  /\ Len(Batches[q]) \in Nat \ {0}
           /\ \A i \in 1 .. Len(Batches[q]) : Batches[q][i] \in Contents
           /\ ToSet(Batches[q]) = {Batches[q][i] : i \in 1 .. Len(Batches[q])}
<1>1. Batches[q] \in Seq(Contents) /\ Batches[q] # <<>>
  BY RegistryAssumption
<1>. QED  BY <1>1 DEF ToSet

LEMMA CurrentType ==
    ASSUME RegistryIInv, NEW q \in Requests, request[q].step \in {"lookup", "tools", "insert"}
    PROVE  /\ Current(q) \in Contents /\ VersionOf[Current(q)] \in Versions
           /\ request[q].done \in Nat /\ request[q].done + 1 \in 1 .. Len(Batches[q])
<1>1. request[q].done \in Nat /\ request[q].done < Len(Batches[q])
  BY DEF RegistryIInv, RegistryTypeOK, RequestState, RequestOK, InBatch
<1>2. request[q].done + 1 \in 1 .. Len(Batches[q])
  BY <1>1, BatchFacts
<1>. QED  BY <1>1, <1>2, BatchFacts, RegistryAssumption DEF Current

-----------------------------------------------------------------------------
(***************************************************************************)
(* What the steps of a request do to its own variables.                    *)
(***************************************************************************)
OthersSame(q) == \A p \in Requests \ {q} : request'[p] = request[p]

LEMMA GoEffect ==
    ASSUME RegistryTypeOK, NEW q \in Requests, NEW step \in RequestSteps, Go(q, step)
    PROVE  /\ request' \in [Requests -> RequestState]
           /\ OthersSame(q)
           /\ request'[q].step = step
           /\ request'[q].done = request[q].done
           /\ request'[q].added = request[q].added
           /\ request'[q].answer = request[q].answer
<1>1. request' = [request EXCEPT ![q].step = step]
  BY DEF Go
<1>2. request \in [Requests -> RequestState]
  BY DEF RegistryTypeOK
<1>3. request' \in [Requests -> RequestState]
  BY <1>1, <1>2 DEF RequestState
<1>. QED  BY <1>1, <1>2, <1>3 DEF RequestState, OthersSame

LEMMA RefuseEffect ==
    ASSUME RegistryTypeOK, NEW q \in Requests, NEW answer \in RequestAnswers, Refuse(q, answer)
    PROVE  /\ request' \in [Requests -> RequestState]
           /\ OthersSame(q)
           /\ request'[q].step = "closed"
           /\ request'[q].added = {}
           /\ request'[q].answer = answer
<1> DEFINE Sets == SUBSET Contents
<1>1. PICK step \in RequestSteps, added \in Sets : step = "closed" /\ added = {}
  BY DEF RequestSteps
<1>2. request' = [request EXCEPT ![q].step = step, ![q].added = added, ![q].answer = answer]
  BY <1>1 DEF Refuse
<1>3. request \in [Requests -> [step : RequestSteps, done : Nat, added : Sets,
                                answer : RequestAnswers]]
  BY DEF RegistryTypeOK, RequestState
<1>4. request' \in [Requests -> [step : RequestSteps, done : Nat, added : Sets,
                                 answer : RequestAnswers]]
  <2> HIDE DEF Sets
  <2>. QED  BY <1>2, <1>3
<1>5. /\ request'[q].step = step /\ request'[q].added = added /\ request'[q].answer = answer
      /\ OthersSame(q)
  BY <1>2, <1>3 DEF OthersSame
<1>. QED  BY <1>1, <1>4, <1>5 DEF RequestState

LEMMA AdvanceEffect ==
    ASSUME RegistryTypeOK, NEW q \in Requests, NEW added \in SUBSET Contents, Advance(q, added)
    PROVE  /\ request' \in [Requests -> RequestState]
           /\ OthersSame(q)
           /\ request'[q].step = IF request[q].done + 1 = Len(Batches[q])
                                 THEN "commit" ELSE "lookup"
           /\ request'[q].done = request[q].done + 1
           /\ request'[q].added = added
           /\ request'[q].answer = request[q].answer
<1> DEFINE Sets == SUBSET Contents
<1>1. PICK step \in RequestSteps :
         step = IF request[q].done + 1 = Len(Batches[q]) THEN "commit" ELSE "lookup"
  BY DEF RequestSteps
<1>3. request \in [Requests -> [step : RequestSteps, done : Nat, added : Sets,
                                answer : RequestAnswers]]
  BY DEF RegistryTypeOK, RequestState
<1>d. PICK done \in Nat : done = request[q].done + 1
  BY <1>3
<1>2. request' = [request EXCEPT ![q].done = done, ![q].added = added, ![q].step = step]
  BY <1>1, <1>d DEF Advance
<1>4. request' \in [Requests -> [step : RequestSteps, done : Nat, added : Sets,
                                 answer : RequestAnswers]]
  <2>1. added \in Sets
    OBVIOUS
  <2> HIDE DEF Sets
  <2>. QED  BY <1>2, <1>3, <2>1
<1>5. /\ request'[q].step = step /\ request'[q].added = added /\ request'[q].done = done
      /\ request'[q].answer = request[q].answer
      /\ OthersSame(q)
  BY <1>2, <1>3 DEF OthersSame
<1>. QED  BY <1>1, <1>d, <1>4, <1>5 DEF RequestState

\* A step of request q that commits nothing.
LEMMA LocalStep ==
    ASSUME RegistryIInv, NEW q \in Requests, UNCHANGED <<enabled, agent, grants>>,
           request' \in [Requests -> RequestState], OthersSame(q), RequestOK(q)',
           \A p \in Requests \ {q} : \A c \in request[p].added, d \in request'[q].added :
               VersionOf[c] # VersionOf[d],
           request'[q].answer # "ok"
    PROVE  RegistryIInv'
<1>1. RegistryTypeOK'
  BY DEF RegistryIInv, RegistryTypeOK
<1>2. ASSUME NEW p \in Requests PROVE RequestOK(p)'
  <2>1. CASE p # q
    BY <2>1 DEF RegistryIInv, RequestOK, InBatch, NotYetAdded, AddedIsNew, DoneIsThere,
                OthersSame, Current
  <2>. QED  BY <2>1
<1>3. AddedApart'
  BY DEF RegistryIInv, AddedApart, OthersSame
<1>4. SeedsKept' /\ GrantsAreDeclared'
  BY DEF RegistryIInv, SeedsKept, GrantsAreDeclared
<1>5. RegistrationIsHonest'
  BY DEF RegistryIInv, RegistrationIsHonest, OthersSame
<1>. QED  BY <1>1, <1>2, <1>3, <1>4, <1>5 DEF RegistryIInv

\* A transaction that is rolled back.
LEMMA RefuseIInv ==
    ASSUME RegistryIInv, NEW q \in Requests, NEW answer \in RequestAnswers \ {"ok"},
           Refuse(q, answer), UNCHANGED <<enabled, agent, grants>>
    PROVE  RegistryIInv'
<1>1. /\ request' \in [Requests -> RequestState] /\ OthersSame(q)
      /\ request'[q].step = "closed" /\ request'[q].added = {}
      /\ request'[q].answer = answer
  BY RefuseEffect DEF RegistryIInv
<1>2. RequestOK(q)'
  BY <1>1 DEF RequestOK, InBatch, NotYetAdded, AddedIsNew, DoneIsThere
<1>. QED  BY <1>1, <1>2, LocalStep

\* A request that goes on without an insert.
LEMMA GoIInv ==
    ASSUME RegistryIInv, NEW q \in Requests, NEW step \in {"lookup", "tools", "insert"},
           Go(q, step), UNCHANGED <<enabled, agent, grants>>,
           request[q].step # "closed", request[q].done < Len(Batches[q]),
           step \in {"tools", "insert"} =>
               \A c \in request[q].added : VersionOf[c] # VersionOf[Current(q)]
    PROVE  RegistryIInv'
<1>1. step \in RequestSteps
  BY DEF RequestSteps
<1>2. /\ request' \in [Requests -> RequestState] /\ OthersSame(q)
      /\ request'[q].step = step
      /\ request'[q].done = request[q].done
      /\ request'[q].added = request[q].added
      /\ request'[q].answer = request[q].answer
  BY <1>1, GoEffect DEF RegistryIInv
<1>3. InBatch(q) /\ AddedIsNew(q) /\ DoneIsThere(q)
  BY DEF RegistryIInv, RequestOK
<1>4. InBatch(q)'
  BY <1>2, <1>3 DEF InBatch
<1>5. NotYetAdded(q)'
  BY <1>2 DEF NotYetAdded, Current
<1>6. AddedIsNew(q)' /\ DoneIsThere(q)'
  BY <1>2, <1>3 DEF AddedIsNew, DoneIsThere
<1>7. \A p \in Requests \ {q} : \A c \in request[p].added, d \in request'[q].added :
         VersionOf[c] # VersionOf[d]
  BY <1>2 DEF RegistryIInv, AddedApart
<1>8. request'[q].answer # "ok"
  BY <1>2, <1>3 DEF InBatch
<1>. QED  BY <1>2, <1>4, <1>5, <1>6, <1>7, <1>8, LocalStep DEF RequestOK

\* The current registration is done: it is there, or is inserted by this step.
LEMMA AdvanceIInv ==
    ASSUME RegistryIInv, NEW q \in Requests, NEW added \in SUBSET Contents,
           request[q].step \in {"lookup", "insert"},
           Advance(q, added), UNCHANGED <<enabled, agent, grants>>,
           \/ /\ added = request[q].added
              /\ Current(q) \in added \/ agent[VersionOf[Current(q)]] = Current(q)
           \/ /\ added = request[q].added \cup {Current(q)}
              /\ agent[VersionOf[Current(q)]] = None
              /\ \A c \in request[q].added : VersionOf[c] # VersionOf[Current(q)]
              /\ \A p \in Requests \ {q} : \A c \in request[p].added :
                    VersionOf[c] # VersionOf[Current(q)]
    PROVE  RegistryIInv'
<1>1. /\ request' \in [Requests -> RequestState] /\ OthersSame(q)
      /\ request'[q].step = IF request[q].done + 1 = Len(Batches[q])
                            THEN "commit" ELSE "lookup"
      /\ request'[q].done = request[q].done + 1
      /\ request'[q].added = added
      /\ request'[q].answer = request[q].answer
  BY AdvanceEffect DEF RegistryIInv
<1>2. /\ request[q].done \in Nat /\ request[q].done + 1 \in 1 .. Len(Batches[q])
      /\ Len(Batches[q]) \in Nat
  BY CurrentType, BatchFacts
<1>3. InBatch(q) /\ AddedIsNew(q) /\ DoneIsThere(q)
  BY DEF RegistryIInv, RequestOK
<1>4. InBatch(q)' /\ NotYetAdded(q)' /\ request'[q].answer # "ok"
  BY <1>1, <1>2, <1>3 DEF InBatch, NotYetAdded
<1>5. AddedIsNew(q)'
  BY <1>1, <1>3 DEF AddedIsNew
<1>6. DoneIsThere(q)'
  <2> SUFFICES ASSUME NEW i \in 1 .. request[q].done + 1
               PROVE  Batches[q][i] \in added \/ agent[VersionOf[Batches[q][i]]] = Batches[q][i]
    BY <1>1 DEF DoneIsThere
  <2>1. CASE i = request[q].done + 1
    BY <2>1 DEF Current
  <2>2. CASE i # request[q].done + 1
    <3>1. i \in 1 .. request[q].done
      BY <1>2, <2>2
    <3>. QED  BY <1>3, <3>1 DEF DoneIsThere
  <2>. QED  BY <2>1, <2>2
<1>7. \A p \in Requests \ {q} : \A c \in request[p].added, d \in request'[q].added :
         VersionOf[c] # VersionOf[d]
  BY <1>1 DEF RegistryIInv, AddedApart
<1>. QED  BY <1>1, <1>4, <1>5, <1>6, <1>7, LocalStep DEF RequestOK

-----------------------------------------------------------------------------
LEMMA SubmitIInv ==
    ASSUME RegistryIInv, NEW q \in Requests, Submit(q)
    PROVE  RegistryIInv'
<1>1. request[q].step = "idle" /\ Go(q, "lookup") /\ UNCHANGED <<enabled, agent, grants>>
  BY DEF Submit
<1>2. request[q].done < Len(Batches[q])
  BY <1>1, BatchFacts DEF RegistryIInv, RequestOK, InBatch
<1>. QED  BY <1>1, <1>2, GoIInv

\* A version that the request does not see it has not inserted.
LEMMA LookupVersionIInv ==
    ASSUME RegistryIInv, NEW q \in Requests, LookupVersion(q)
    PROVE  RegistryIInv'
<1> DEFINE v == VersionOf[Current(q)]
<1>1. request[q].step = "lookup" /\ UNCHANGED <<enabled, agent, grants>>
  BY DEF LookupVersion
<1>2. request[q].done < Len(Batches[q]) /\ request[q].added \in SUBSET Contents
  BY <1>1 DEF RegistryIInv, RequestOK, InBatch, RegistryTypeOK, RequestState
<1>3. CASE Seen(q, v) = {} /\ Go(q, "tools")
  <2>1. \A c \in request[q].added : VersionOf[c] # VersionOf[Current(q)]
    BY <1>3 DEF Seen, AddedFor
  <2>. QED  BY <1>1, <1>2, <1>3, <2>1, GoIInv
<1>4. CASE Current(q) \in Seen(q, v) /\ Advance(q, request[q].added)
  <2>1. Current(q) \in request[q].added \/ agent[VersionOf[Current(q)]] = Current(q)
    BY <1>4 DEF Seen, AddedFor
  <2>. QED  BY <1>1, <1>2, <1>4, <2>1, AdvanceIInv
<1>5. CASE Refuse(q, "conflict")
  BY <1>1, <1>5, RefuseIInv DEF RequestAnswers
<1>. QED  BY <1>3, <1>4, <1>5 DEF LookupVersion

LEMMA CheckToolsIInv ==
    ASSUME RegistryIInv, NEW q \in Requests, CheckTools(q)
    PROVE  RegistryIInv'
<1>1. request[q].step = "tools" /\ UNCHANGED <<enabled, agent, grants>>
  BY DEF CheckTools
<1>2. CASE Go(q, "insert")
  BY <1>1, <1>2, GoIInv DEF RegistryIInv, RequestOK, InBatch, NotYetAdded
<1>3. CASE Refuse(q, "missing_tool")
  BY <1>1, <1>3, RefuseIInv DEF RequestAnswers
<1>. QED  BY <1>2, <1>3 DEF CheckTools

LEMMA InsertAgentIInv ==
    ASSUME RegistryIInv, NEW q \in Requests, InsertAgent(q)
    PROVE  RegistryIInv'
<1>1. request[q].step = "insert" /\ UNCHANGED <<enabled, agent, grants>>
  BY DEF InsertAgent
<1>2. CASE /\ agent[VersionOf[Current(q)]] = None
           /\ Advance(q, request[q].added \cup {Current(q)})
  <2>1. request[q].added \cup {Current(q)} \in SUBSET Contents
    BY <1>1, CurrentType DEF RegistryIInv, RegistryTypeOK, RequestState
  <2>2. \A c \in request[q].added : VersionOf[c] # VersionOf[Current(q)]
    BY <1>1 DEF RegistryIInv, RequestOK, NotYetAdded
  <2>3. \A p \in Requests \ {q} : \A c \in request[p].added :
           VersionOf[c] # VersionOf[Current(q)]
    BY DEF InsertAgent, AddedFor
  <2>. QED  BY <1>1, <1>2, <2>1, <2>2, <2>3, AdvanceIInv
<1>3. CASE Refuse(q, "error")
  BY <1>1, <1>3, RefuseIInv DEF RequestAnswers
<1>. QED  BY <1>2, <1>3 DEF InsertAgent

LEMMA LoseRequestIInv ==
    ASSUME RegistryIInv, NEW q \in Requests, LoseRequest(q)
    PROVE  RegistryIInv'
BY RefuseIInv DEF LoseRequest, RequestAnswers

-----------------------------------------------------------------------------
NewVersions(q) == {VersionOf[c] : c \in request[q].added}

\* A commit gives each version the row that was inserted for it, and leaves the
\* other versions alone.
LEMMA CommitEffect ==
    ASSUME RegistryIInv, NEW q \in Requests, CommitRegistration(q)
    PROVE  /\ \A c \in request[q].added : /\ agent[VersionOf[c]] = None
                                          /\ agent'[VersionOf[c]] = c
                                          /\ grants'[VersionOf[c]] = Declared[c]
           /\ \A v \in Versions \ NewVersions(q) : agent'[v] = agent[v] /\ grants'[v] = grants[v]
           /\ agent' \in [Versions -> Contents \cup {None}]
           /\ grants' \in [Versions -> SUBSET Tools]
<1> DEFINE added == request[q].added
           News(v) == CHOOSE c \in added : VersionOf[c] = v
           new == {VersionOf[c] : c \in added}
<1>1. /\ agent' = [v \in Versions |-> IF v \in new THEN News(v) ELSE agent[v]]
      /\ grants' = [v \in Versions |-> IF v \in new THEN Declared[News(v)] ELSE grants[v]]
  BY DEF CommitRegistration
<1>2. added \in SUBSET Contents
  BY DEF RegistryIInv, RegistryTypeOK, RequestState
<1>3. \A c \in added : VersionOf[c] \in Versions /\ Declared[c] \in SUBSET Tools
  BY <1>2, RegistryAssumption
<1>4. \A c, d \in added : VersionOf[c] = VersionOf[d] => c = d
  BY DEF RegistryIInv, RequestOK, AddedIsNew
<1>5. \A c \in added : News(VersionOf[c]) = c
  BY <1>4
<1>6. ASSUME NEW v \in new
      PROVE  News(v) \in added
  BY <1>6
<1>7. \A c \in added : agent[VersionOf[c]] = None
  BY DEF RegistryIInv, RequestOK, AddedIsNew
<1>8. \A c \in added : VersionOf[c] \in new
  OBVIOUS
<1>9. new = NewVersions(q)
  BY DEF NewVersions
<1> HIDE DEF News, new
<1>10. \A c \in added : agent'[VersionOf[c]] = c /\ grants'[VersionOf[c]] = Declared[c]
  BY <1>1, <1>3, <1>5, <1>8
<1>11. \A v \in Versions \ new : agent'[v] = agent[v] /\ grants'[v] = grants[v]
  BY <1>1
<1>12. agent' \in [Versions -> Contents \cup {None}]
  BY <1>1, <1>2, <1>6 DEF RegistryIInv, RegistryTypeOK
<1>13. grants' \in [Versions -> SUBSET Tools]
  <2>1. ASSUME NEW v \in Versions
        PROVE  (IF v \in new THEN Declared[News(v)] ELSE grants[v]) \in SUBSET Tools
    <3>1. CASE v \in new
      BY <1>3, <1>6, <3>1
    <3>2. CASE v \notin new
      BY <3>2 DEF RegistryIInv, RegistryTypeOK
    <3>. QED  BY <3>1, <3>2
  <2>. QED  BY <1>1, <2>1
<1>. QED  BY <1>7, <1>9, <1>10, <1>11, <1>12, <1>13

\* A version that has a row keeps its row, and its grants too.
LEMMA CommitKeeps ==
    ASSUME RegistryIInv, NEW q \in Requests, CommitRegistration(q),
           NEW v \in Versions, agent[v] # None
    PROVE  agent'[v] = agent[v] /\ grants'[v] = grants[v]
<1>1. v \notin NewVersions(q)
  BY CommitEffect DEF NewVersions
<1>. QED  BY <1>1, CommitEffect

LEMMA CommitRegistrationIInv ==
    ASSUME RegistryIInv, NEW q \in Requests, CommitRegistration(q)
    PROVE  RegistryIInv'
<1>1. /\ request[q].step = "commit" /\ enabled' = enabled
      /\ request' = [request EXCEPT ![q].step = "closed", ![q].added = {}, ![q].answer = "ok"]
  BY DEF CommitRegistration
<1>2. /\ request' \in [Requests -> RequestState] /\ OthersSame(q)
      /\ request'[q].step = "closed" /\ request'[q].added = {}
      /\ request'[q].answer = "ok"
  BY <1>1, RefuseEffect DEF Refuse, RegistryIInv, RequestAnswers
<1>3. RegistryTypeOK'
  BY <1>1, <1>2, CommitEffect DEF RegistryIInv, RegistryTypeOK
<1>4. \A c \in Contents : VersionOf[c] \in Versions
  BY RegistryAssumption
<1>5. ASSUME NEW p \in Requests PROVE RequestOK(p)'
  <2>1. CASE p = q
    BY <1>2, <2>1 DEF RequestOK, InBatch, NotYetAdded, AddedIsNew, DoneIsThere
  <2>2. CASE p # q
    <3>1. request'[p] = request[p] /\ RequestOK(p)
      BY <1>2, <2>2 DEF OthersSame, RegistryIInv
    <3>2. InBatch(p)' /\ NotYetAdded(p)'
      BY <3>1 DEF RequestOK, InBatch, NotYetAdded, Current
    <3>3. AddedIsNew(p)'
      <4>1. request[p].added \in SUBSET Contents
        BY DEF RegistryIInv, RegistryTypeOK, RequestState
      <4>2. ASSUME NEW c \in request[p].added
            PROVE  VersionOf[c] \in Versions \ NewVersions(q)
        BY <1>4, <2>2, <4>1 DEF RegistryIInv, AddedApart, NewVersions
      <4>3. \A c \in request[p].added : agent'[VersionOf[c]] = agent[VersionOf[c]]
        BY <4>2, CommitEffect
      <4>. QED  BY <3>1, <4>3 DEF RequestOK, AddedIsNew
    <3>4. DoneIsThere(p)'
      <4> SUFFICES ASSUME request[p].step # "closed", NEW i \in 1 .. request[p].done
                   PROVE  \/ Batches[p][i] \in request[p].added
                          \/ agent'[VersionOf[Batches[p][i]]] = Batches[p][i]
        BY <3>1 DEF DoneIsThere
      <4>1. i \in 1 .. Len(Batches[p])
        <5>1. request[p].done \in Nat /\ request[p].step \in RequestSteps
          BY DEF RegistryIInv, RegistryTypeOK, RequestState
        <5>2. request[p].done <= Len(Batches[p])
          BY <3>1, <5>1, BatchFacts DEF RequestOK, InBatch, RequestSteps
        <5>. QED  BY <5>1, <5>2, BatchFacts
      <4>2. Batches[p][i] \in Contents
        BY <4>1, BatchFacts
      <4>3. CASE agent[VersionOf[Batches[p][i]]] = Batches[p][i]
        BY <1>4, <4>2, <4>3, CommitKeeps, RegistryAssumption
      <4>. QED  BY <3>1, <4>3 DEF RequestOK, DoneIsThere
    <3>. QED  BY <3>2, <3>3, <3>4 DEF RequestOK
  <2>. QED  BY <2>1, <2>2
<1>6. AddedApart'
  BY <1>2 DEF RegistryIInv, AddedApart, OthersSame
<1>7. SeedsKept'
  BY CommitKeeps, RegistryAssumption DEF RegistryIInv, SeedsKept
<1>8. GrantsAreDeclared'
  <2> SUFFICES ASSUME NEW v \in Versions, agent'[v] \notin {None, Seeded[v]}
               PROVE  grants'[v] = Declared[agent'[v]]
    BY DEF GrantsAreDeclared
  <2>1. CASE v \in NewVersions(q)
    BY <2>1, CommitEffect DEF NewVersions
  <2>2. CASE v \notin NewVersions(q)
    BY <2>2, CommitEffect DEF RegistryIInv, GrantsAreDeclared
  <2>. QED  BY <2>1, <2>2
<1>9. RegistrationIsHonest'
  <2> SUFFICES ASSUME NEW p \in Requests, request'[p].answer = "ok",
                      NEW c \in ToSet(Batches[p])
               PROVE  agent'[VersionOf[c]] = c /\ grants'[VersionOf[c]] = Declared[c]
    BY DEF RegistrationIsHonest
  <2>1. PICK i \in 1 .. Len(Batches[p]) : c = Batches[p][i]
    BY BatchFacts
  <2>2. c \in Contents /\ VersionOf[c] \in Versions /\ c # None /\ c # Seeded[VersionOf[c]]
    <3>1. i \in DOMAIN Batches[p]
      BY RegistryAssumption
    <3>. QED  BY <1>4, <2>1, <3>1, BatchFacts, RegistryAssumption
  <2>3. CASE agent[VersionOf[c]] = c
    BY <1>8, <2>1, <2>2, <2>3, CommitKeeps DEF GrantsAreDeclared
  <2>4. CASE p = q /\ c \in request[q].added
    BY <2>1, <2>4, CommitEffect
  <2>5. CASE p # q
    <3>1. agent[VersionOf[c]] = c
      BY <1>2, <2>2, <2>5 DEF RegistryIInv, RegistrationIsHonest, OthersSame
    <3>. QED  BY <2>3, <3>1
  <2>6. CASE p = q /\ c \notin request[q].added
    <3>1. i \in 1 .. request[q].done
      BY <1>1, <2>6 DEF RegistryIInv, RequestOK, InBatch
    <3>2. agent[VersionOf[c]] = c
      BY <1>1, <2>1, <2>6, <3>1 DEF RegistryIInv, RequestOK, DoneIsThere
    <3>. QED  BY <2>3, <3>2
  <2>. QED  BY <2>4, <2>5, <2>6
<1>. QED  BY <1>3, <1>5, <1>6, <1>7, <1>8, <1>9 DEF RegistryIInv

-----------------------------------------------------------------------------
LEMMA SwitchToolIInv ==
    ASSUME RegistryIInv, NEW t \in Tools, SwitchTool(t)
    PROVE  RegistryIInv'
<1>1. UNCHANGED <<agent, grants, request>>
  BY DEF SwitchTool
<1>2. RegistryTypeOK'
  BY RegistryAssumption DEF SwitchTool, RegistryIInv, RegistryTypeOK
<1>3. \A q \in Requests : RequestOK(q)'
  BY <1>1 DEF RegistryIInv, RequestOK, InBatch, NotYetAdded, AddedIsNew, DoneIsThere, Current
<1>. QED  BY <1>1, <1>2, <1>3 DEF RegistryIInv, AddedApart, SeedsKept, GrantsAreDeclared,
                                  RegistrationIsHonest

\* A seed only adds to the grants of the versions that it has brought.
LEMMA SeedGrantEffect ==
    ASSUME RegistryIInv, NEW v \in Versions, NEW t \in Tools, SeedGrant(v, t)
    PROVE  /\ UNCHANGED <<enabled, agent, request>>
           /\ grants' \in [Versions -> SUBSET Tools]
           /\ Seeded[v] # None
           /\ \A w \in Versions : Seeded[w] = None \/ w # v => grants'[w] = grants[w]
<1>1. Seeded[v] # None
  BY RegistryAssumption DEF SeedGrant
<1>. QED  BY <1>1 DEF SeedGrant, RegistryIInv, RegistryTypeOK

LEMMA SeedGrantIInv ==
    ASSUME RegistryIInv, NEW v \in Versions, NEW t \in Tools, SeedGrant(v, t)
    PROVE  RegistryIInv'
<1>1. /\ UNCHANGED <<enabled, agent, request>> /\ RegistryTypeOK'
      /\ agent[v] = Seeded[v]
      /\ \A w \in Versions \ {v} : grants'[w] = grants[w]
  BY SeedGrantEffect DEF RegistryIInv, RegistryTypeOK, SeedsKept
<1>2. \A q \in Requests : RequestOK(q)'
  BY <1>1 DEF RegistryIInv, RequestOK, InBatch, NotYetAdded, AddedIsNew, DoneIsThere, Current
<1>3. AddedApart' /\ SeedsKept' /\ GrantsAreDeclared'
  BY <1>1 DEF RegistryIInv, AddedApart, SeedsKept, GrantsAreDeclared
<1>4. RegistrationIsHonest'
  <2> SUFFICES ASSUME NEW q \in Requests, request[q].answer = "ok", NEW c \in ToSet(Batches[q])
               PROVE  agent[VersionOf[c]] = c /\ grants'[VersionOf[c]] = Declared[c]
    BY <1>1 DEF RegistrationIsHonest
  <2>1. agent[VersionOf[c]] = c /\ grants[VersionOf[c]] = Declared[c]
    BY DEF RegistryIInv, RegistrationIsHonest
  <2>2. PICK i \in 1 .. Len(Batches[q]) : c = Batches[q][i]
    BY BatchFacts
  <2>3. c \in Contents /\ c # Seeded[VersionOf[c]]
    <3>1. i \in DOMAIN Batches[q]
      BY RegistryAssumption
    <3>. QED  BY <2>2, <3>1, BatchFacts, RegistryAssumption
  <2>4. VersionOf[c] \in Versions \ {v}
    BY <1>1, <2>1, <2>3, RegistryAssumption
  <2>. QED  BY <1>1, <2>1, <2>4
<1>. QED  BY <1>1, <1>2, <1>3, <1>4 DEF RegistryIInv

LEMMA RegistryInitIInv == RegistryInit => RegistryIInv
<1> SUFFICES ASSUME RegistryInit PROVE RegistryIInv
  OBVIOUS
<1>1. RegistryTypeOK
  BY RegistryAssumption DEF RegistryInit, RegistryTypeOK, RequestState, RequestSteps,
                            RequestAnswers
<1>2. ASSUME NEW q \in Requests PROVE RequestOK(q)
  BY DEF RegistryInit, RequestOK, InBatch, NotYetAdded, AddedIsNew, DoneIsThere
<1>3. AddedApart /\ SeedsKept /\ GrantsAreDeclared /\ RegistrationIsHonest
  BY DEF RegistryInit, AddedApart, SeedsKept, GrantsAreDeclared, RegistrationIsHonest
<1>. QED  BY <1>1, <1>2, <1>3 DEF RegistryIInv

LEMMA RegistryStepIInv ==
    ASSUME RegistryIInv, NEW q \in Requests, RegistryStep(q)
    PROVE  RegistryIInv'
BY SubmitIInv, LookupVersionIInv, CheckToolsIInv, InsertAgentIInv, CommitRegistrationIInv,
   LoseRequestIInv DEF RegistryStep

LEMMA RegistryNextIInv == RegistryIInv /\ [RegistryNext]_registryVars => RegistryIInv'
<1> SUFFICES ASSUME RegistryIInv, [RegistryNext]_registryVars PROVE RegistryIInv'
  OBVIOUS
<1>1. CASE UNCHANGED registryVars
  <2>1. UNCHANGED <<enabled, agent, grants, request>>
    BY <1>1 DEF registryVars
  <2>2. \A q \in Requests : RequestOK(q)'
    BY <2>1 DEF RegistryIInv, RequestOK, InBatch, NotYetAdded, AddedIsNew, DoneIsThere, Current
  <2>. QED  BY <2>1, <2>2 DEF RegistryIInv, RegistryTypeOK, AddedApart, SeedsKept,
                              GrantsAreDeclared, RegistrationIsHonest
<1>. QED  BY <1>1, RegistryStepIInv, SwitchToolIInv, SeedGrantIInv DEF RegistryNext

LEMMA RegistryInvariance == RegistrySpec => []RegistryIInv
BY RegistryInitIInv, RegistryNextIInv, PTL DEF RegistrySpec

\* What a step may do to a version that has a row.
VersionKept ==
    \A v \in Versions : agent[v] # None =>
        agent'[v] = agent[v] /\ (Seeded[v] = None => grants'[v] = grants[v])

LEMMA NextKeepsVersions == RegistryIInv /\ [RegistryNext]_registryVars => VersionKept
<1> SUFFICES ASSUME RegistryIInv, [RegistryNext]_registryVars PROVE VersionKept
  OBVIOUS
<1>1. CASE UNCHANGED <<agent, grants>>
  BY <1>1 DEF VersionKept
<1>2. ASSUME NEW q \in Requests, CommitRegistration(q) PROVE VersionKept
  BY <1>2, CommitKeeps DEF VersionKept
<1>3. ASSUME NEW v \in Versions, NEW t \in Tools, SeedGrant(v, t) PROVE VersionKept
  BY <1>3, SeedGrantEffect DEF VersionKept
<1>4. ASSUME NEW q \in Requests, RegistryStep(q), ~CommitRegistration(q)
      PROVE  UNCHANGED <<agent, grants>>
  BY <1>4 DEF RegistryStep, Submit, LookupVersion, CheckTools, InsertAgent, LoseRequest
<1>5. ASSUME NEW t \in Tools, SwitchTool(t) PROVE UNCHANGED <<agent, grants>>
  BY <1>5 DEF SwitchTool
<1>. QED  BY <1>1, <1>2, <1>3, <1>4, <1>5 DEF RegistryNext, registryVars

-----------------------------------------------------------------------------
\* Type correctness of the registry.
THEOREM RegistryTypeCorrect == RegistrySpec => []RegistryTypeOK
BY RegistryInvariance, PTL DEF RegistryIInv

\* A request that is answered with success finds its whole batch registered,
\* whatever the other requests register.
THEOREM RegistrationsAreHonest == RegistrySpec => []RegistrationIsHonest
BY RegistryInvariance, PTL DEF RegistryIInv

\* A registered version keeps its content and its grants for ever.
THEOREM VersionsAreFinal == RegistrySpec => VersionIsFinal
<1> DEFINE Kept == \A v \in Versions : agent[v] # None =>
                      /\ agent'[v] = agent[v]
                      /\ Seeded[v] = None => grants'[v] = grants[v]
<1>1. RegistryIInv /\ [RegistryNext]_registryVars => Kept
  BY NextKeepsVersions DEF VersionKept
<1>2. VersionIsFinal <=> [][Kept]_registryVars
  BY DEF VersionIsFinal
<1> HIDE DEF Kept
<1>. QED  BY <1>1, <1>2, RegistryInvariance, PTL DEF RegistrySpec
=============================================================================
