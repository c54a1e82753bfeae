-------------------------- MODULE EvaluationProofs --------------------------
(***************************************************************************)
(* Proofs about the evaluation harness and the fault plans it uses.  The   *)
(* fault plans come first, on their own (FaultSpec): the row lock of       *)
(* consume is what makes a trigger fire once.  Then the harness (Spec).    *)
(* That a success is earned takes an invariant about everyone at work:     *)
(* the evaluators (one for each execution, at a case of its suite), the    *)
(* leases of their starts, the workers (which record only a decision that  *)
(* the case's contract awaits) and the evidence, which once it is taken is *)
(* what the rows say and will say.                                         *)
(***************************************************************************)
EXTENDS Evaluation, TLAPS

\* A session that has read a row has read what the row holds.
ReadIsFresh ==
    \A s \in Sessions : reader[s] # None =>
        /\ reader[s].remaining > 0
        /\ plan[reader[s].plan].remaining = reader[s].remaining

\* The row lock: two sessions have not read the same row.
OneReader ==
    \A s, t \in Sessions :
        reader[s] # None /\ reader[t] # None /\ reader[s].plan = reader[t].plan => s = t

FaultIInv == FaultTypeOK /\ ReadIsFresh /\ OneReader /\ TriggersAreSpentOnce

LEMMA FaultInitIInv == FaultInit => FaultIInv
<1> SUFFICES ASSUME FaultInit PROVE FaultIInv
  OBVIOUS
<1>1. FaultTypeOK
  BY DEF FaultInit, FaultTypeOK, PlanStatus
<1>2. ReadIsFresh /\ OneReader
  BY DEF FaultInit, ReadIsFresh, OneReader
<1>3. TriggersAreSpentOnce
  BY DEF FaultInit, TriggersAreSpentOnce
<1>. QED  BY <1>1, <1>2, <1>3 DEF FaultIInv

LEMMA CreatePlanIInv ==
    ASSUME FaultIInv, NEW p \in Plans, NEW n \in Nat, CreatePlan(p, n)
    PROVE  FaultIInv'
<1>. USE DEF FaultIInv
<1>1. FaultTypeOK'
  BY DEF FaultTypeOK, CreatePlan, PlanStatus
<1>2. ReadIsFresh' /\ OneReader'
  BY DEF ReadIsFresh, OneReader, CreatePlan, RowLocked, FaultTypeOK
<1>3. TriggersAreSpentOnce'
  <2> SUFFICES ASSUME NEW r \in Plans
               PROVE  consumed'[r] + plan'[r].remaining <= granted'[r]
    BY DEF TriggersAreSpentOnce
  <2>1. consumed[r] \in Nat /\ granted[r] \in Nat /\ plan[r].remaining \in Nat
    BY DEF FaultTypeOK
  <2>2. consumed[r] + plan[r].remaining <= granted[r]
    BY DEF TriggersAreSpentOnce
  <2>. QED  BY <2>1, <2>2 DEF CreatePlan, FaultTypeOK
<1>. QED  BY <1>1, <1>2, <1>3

LEMMA ClearPlanIInv ==
    ASSUME FaultIInv, NEW p \in Plans, ClearPlan(p)
    PROVE  FaultIInv'
<1>. USE DEF FaultIInv
<1>1. FaultTypeOK'
  BY DEF FaultTypeOK, ClearPlan, PlanStatus
<1>2. ReadIsFresh' /\ OneReader'
  BY DEF ReadIsFresh, OneReader, ClearPlan, RowLocked, FaultTypeOK
<1>3. TriggersAreSpentOnce'
  BY DEF TriggersAreSpentOnce, ClearPlan, FaultTypeOK
<1>. QED  BY <1>1, <1>2, <1>3

\* The guard on the lock is what keeps OneReader.
LEMMA SelectPlanIInv ==
    ASSUME FaultIInv, NEW s \in Sessions, NEW p \in Plans, SelectPlan(s, p)
    PROVE  FaultIInv'
<1>. USE DEF FaultIInv
<1>1. FaultTypeOK'
  BY DEF FaultTypeOK, SelectPlan
<1>2. reader' = [reader EXCEPT ![s] = [plan |-> p, remaining |-> plan[p].remaining]]
  BY DEF SelectPlan
<1>3. ReadIsFresh'
  BY <1>2 DEF ReadIsFresh, SelectPlan, Fires, FaultTypeOK
<1>4. OneReader'
  BY <1>2 DEF OneReader, SelectPlan, RowLocked, FaultTypeOK
<1>5. TriggersAreSpentOnce'
  BY DEF TriggersAreSpentOnce, SelectPlan
<1>. QED  BY <1>1, <1>3, <1>4, <1>5

LEMMA TakeTriggerIInv ==
    ASSUME FaultIInv, NEW s \in Sessions, NEW p \in Plans, TakeTrigger(s, p)
    PROVE  FaultIInv'
<1>. USE DEF FaultIInv
<1> DEFINE left == reader[s].remaining - 1
<1>1. /\ left \in Nat
      /\ plan[p].remaining = left + 1
  BY DEF TakeTrigger, ReadIsFresh, FaultTypeOK
<1>2. /\ plan' = [plan EXCEPT ![p] = [status |-> IF left = 0 THEN "EXHAUSTED" ELSE @.status,
                                      remaining |-> left]]
      /\ reader' = [reader EXCEPT ![s] = None]
      /\ consumed' = [consumed EXCEPT ![p] = @ + 1]
      /\ granted' = granted
  BY DEF TakeTrigger
<1>3. FaultTypeOK'
  <2>1. plan[p].status \in PlanStatus /\ "EXHAUSTED" \in PlanStatus
    BY DEF FaultTypeOK, PlanStatus
  <2>2. [status |-> IF left = 0 THEN "EXHAUSTED" ELSE plan[p].status, remaining |-> left]
          \in [status : PlanStatus, remaining : Nat]
    BY <1>1, <2>1
  <2>. QED  BY <1>2, <2>2 DEF FaultTypeOK
<1>4. ASSUME NEW t \in Sessions, reader'[t] # None
      PROVE  t # s /\ reader'[t] = reader[t] /\ reader[t].plan # p
  BY <1>2, <1>4 DEF OneReader, TakeTrigger, FaultTypeOK
<1>5. ReadIsFresh' /\ OneReader'
  BY <1>2, <1>4 DEF ReadIsFresh, OneReader, FaultTypeOK
<1>6. TriggersAreSpentOnce'
  <2> SUFFICES ASSUME NEW r \in Plans
               PROVE  consumed'[r] + plan'[r].remaining <= granted'[r]
    BY DEF TriggersAreSpentOnce
  <2>1. consumed[r] \in Nat /\ granted[r] \in Nat /\ plan[r].remaining \in Nat
    BY DEF FaultTypeOK
  <2>2. consumed[r] + plan[r].remaining <= granted[r]
    BY DEF TriggersAreSpentOnce
  <2>. QED  BY <1>1, <1>2, <2>1, <2>2 DEF FaultTypeOK
<1>. QED  BY <1>3, <1>5, <1>6

\* The transaction is rolled back, by the process or by its death.
Released(s) ==
    /\ reader' = [reader EXCEPT ![s] = None]
    /\ UNCHANGED <<plan, consumed, granted>>

LEMMA ReleasedIInv ==
    ASSUME FaultIInv, NEW s \in Sessions, Released(s)
    PROVE  FaultIInv'
BY DEF FaultIInv, Released, FaultTypeOK, ReadIsFresh, OneReader, TriggersAreSpentOnce

LEMMA FaultNextIInv == FaultIInv /\ [FaultNext]_faultVars => FaultIInv'
<1> SUFFICES ASSUME FaultIInv, [FaultNext]_faultVars PROVE FaultIInv'
  OBVIOUS
<1>1. ASSUME NEW p \in Plans, Configure(p) PROVE FaultIInv'
  BY <1>1, ClearPlanIInv, CreatePlanIInv, FaultAssumption DEF Configure
<1>2. ASSUME NEW s \in Sessions, NEW p \in Plans, SelectPlan(s, p) \/ TakeTrigger(s, p)
      PROVE  FaultIInv'
  BY <1>2, SelectPlanIInv, TakeTriggerIInv
<1>3. ASSUME NEW s \in Sessions, RollBack(s) PROVE FaultIInv'
  BY <1>3, ReleasedIInv DEF RollBack, Released
<1>4. CASE UNCHANGED faultVars
  BY <1>4 DEF faultVars, FaultIInv, FaultTypeOK, ReadIsFresh, OneReader, TriggersAreSpentOnce
<1>. QED  BY <1>1, <1>2, <1>3, <1>4 DEF FaultNext

LEMMA FaultInvariance == FaultSpec => []FaultIInv
BY FaultInitIInv, FaultNextIInv, PTL DEF FaultSpec

-----------------------------------------------------------------------------
\* Type correctness: a plan's number of triggers is never negative, so the check
\* constraint of its row holds.
THEOREM FaultTypeCorrect == FaultSpec => []FaultTypeOK
BY FaultInvariance, PTL DEF FaultIInv

\* Of the triggers that are configured for a plan, none fires twice.
THEOREM TriggersSpentOnce == FaultSpec => []TriggersAreSpentOnce
BY FaultInvariance, PTL DEF FaultIInv

-----------------------------------------------------------------------------
(***************************************************************************)
(* The harness: the invariant that makes a success an earned one.          *)
(***************************************************************************)
\* The shape of the records that actions update field by field.
EvaluatorFields == {"step", "suite", "case", "todo", "sent", "retried", "passed", "evidence"}
WorkflowFields  == {"phase", "chosen", "cancelled", "tries", "slot"}
DbFields == {"run", "vendor", "approval", "decided", "listed", "emails", "model", "failure",
             "rows", "events"}
AttemptFields == {"work", "activity", "step", "todo", "model"}

Shape ==
    /\ DOMAIN evaluation = Keys
    /\ \A k \in Keys : DOMAIN evaluation[k] = {"status", "suite"}
    /\ DOMAIN evaluator = Callers
    /\ \A c \in Callers : DOMAIN evaluator[c] = EvaluatorFields /\ evaluator[c].case \in Nat
    /\ DOMAIN result = Works
    /\ DOMAIN start = Works
    /\ \A w \in Works : DOMAIN start[w] = {"status", "holder", "accepted", "attempts"}
    /\ DOMAIN workflow = Works
    /\ \A w \in Works : DOMAIN workflow[w] = WorkflowFields
    /\ DOMAIN db = Works
    /\ \A w \in Works : DOMAIN db[w] = DbFields
    /\ DOMAIN attempt = Slots
    /\ \A s \in Slots : attempt[s] # None =>
          DOMAIN attempt[s] = AttemptFields /\ attempt[s].work \in Works

\* A suite is what a release has installed, a case is executed for a key.
Requested(w) == evaluation[w[1]].status # "none" /\ w[2] \in DOMAIN evaluation[w[1]].suite

\* Each evaluator at work has the execution of its key to itself, with its suite.
EvaluatorsApart ==
    /\ \A k \in Keys : evaluation[k].status # "none" => evaluation[k].suite \in Suites
    /\ \A c \in Callers : evaluator[c].step \notin Gone =>
          /\ evaluation[KeyOf[c]] = EvaluationRun("RUNNING", evaluator[c].suite)
          /\ evaluator[c].suite \in Suites
          /\ evaluator[c].case >= 1
          /\ evaluator[c].step # "case" => evaluator[c].case \in DOMAIN evaluator[c].suite
    /\ \A c, d \in Callers :
          evaluator[c].step \notin Gone /\ evaluator[d].step \notin Gone /\ KeyOf[c] = KeyOf[d]
              => c = d

\* A decision is only ever sent to the run of a case that is to be decided.
Choosable(w) ==
    /\ Requested(w)
    /\ Contract(w).outcome.run # "failed"
    /\ Contract(w).driver.cancels = "none"

DecidesOnly ==
    /\ \A c \in Callers :
          /\ evaluator[c].step \in {"early", "approval", "phase"} => Case(c).outcome.run # "failed"
          /\ evaluator[c].step = "decide" => Choosable(Work(c))
    /\ \A w \in Works :
          /\ workflow[w].phase = "record" => Choosable(w)
          /\ db[w].run \in {"SUCCEEDED", "REJECTED"} => db[w].decided = 1
    /\ \A s \in Slots :
          attempt[s] # None /\ attempt[s].activity = "record" => Choosable(attempt[s].work)

\* The effects of a decision will not change any more: it is there, or there will
\* be none.
Final(w) == Requested(w) /\ (db[w].decided = 1 \/ ~Choosable(w))

\* The evidence is what the rows say, and will say.
Holds(w, e) ==
    /\ Final(w)
    /\ e.decisions = db[w].decided
    /\ e.listed = db[w].listed
    /\ e.emails = db[w].emails
    /\ e.retries \in Nat
    /\ e.retries <= SumOf(w)

Earned(w) ==
    /\ result[w].status = "PASSED"
    /\ Mismatches(Contract(w).outcome, result[w].evidence) = {}
    /\ Holds(w, result[w].evidence)

EvidenceHolds ==
    \A c \in Callers :
        /\ evaluator[c].step = "collect" => Final(Work(c))
        /\ evaluator[c].step = "persist" => Holds(Work(c), evaluator[c].evidence)

\* What has passed so far was earned.
PassedIsEarned ==
    /\ \A c \in Callers :
          evaluator[c].step \notin Gone /\ evaluator[c].passed =>
              \A i \in DOMAIN evaluator[c].suite :
                  i < evaluator[c].case => Earned(<<KeyOf[c], i>>)
    /\ \A k \in Keys : evaluation[k].status = "SUCCEEDED" =>
          \A i \in DOMAIN evaluation[k].suite : Earned(<<k, i>>)

\* What is still to be configured is a fault of the case.
TodoIsOfCase ==
    \A c \in Callers : evaluator[c].step = "configure" => evaluator[c].todo \subseteq FaultsOf(Case(c))

\* A lease that an evaluator holds is on the run it is starting.
LeasesAreHeld ==
    \A w \in Works, c \in Callers :
        start[w].holder = c => evaluator[c].step = "start" /\ w = Work(c)

\* An activity is scheduled in a phase that waits for it.
SlotsAct == \A w \in Works : workflow[w].slot # None => workflow[w].phase \in Acting

-----------------------------------------------------------------------------
(***************************************************************************)
(* The workers.                                                            *)
(***************************************************************************)
Decisive == {"SUCCEEDED", "REJECTED"}

\* What an activity that records no decision does to the rows of its run.
SameEffects(a, b) ==
    /\ DOMAIN b = DbFields
    /\ b.decided = a.decided /\ b.listed = a.listed /\ b.emails = a.emails
    /\ b.run \in Decisive => a.run \in Decisive

LEMMA SameEffectsTrans ==
    ASSUME NEW a, NEW b, NEW d, SameEffects(a, b), SameEffects(b, d)
    PROVE  SameEffects(a, d)
BY DEF SameEffects

LEMMA BegunSame ==
    ASSUME NEW a, DOMAIN a = DbFields
    PROVE  SameEffects(a, Begun(a))
BY DEF SameEffects, Begun, DbFields, Decisive

LEMMA EventSame ==
    ASSUME NEW a, DOMAIN a = DbFields, NEW n, NEW type
    PROVE  SameEffects(a, Event(a, n, type))
BY DEF SameEffects, Event, DbFields, Decisive

LEMMA CalledSame ==
    ASSUME NEW a, DOMAIN a = DbFields, NEW tool, NEW status, NEW error
    PROVE  SameEffects(a, Called(a, tool, status, error))
BY DEF SameEffects, Called, DbFields, Decisive

LEMMA FailedSame ==
    ASSUME NEW a, DOMAIN a = DbFields, NEW category, NEW n
    PROVE  SameEffects(a, Failed(a, category, n))
<1> DEFINE b == Event(a, n, "review_failed")
<1>1. SameEffects(a, b)
  BY EventSame
<1>2. SameEffects(a, [b EXCEPT !.run = "FAILED", !.failure = IF \E e \in a.events : e[1] = n
                                                               THEN @ ELSE category])
  <2> HIDE DEF b
  <2>1. QED BY <1>1 DEF SameEffects, DbFields, Decisive
<1>3. QED BY <1>2 DEF Failed

LEMMA AskedSame ==
    ASSUME NEW a, DOMAIN a = DbFields
    PROVE  SameEffects(a, Asked(a))
<1> DEFINE b == Event(a, 30, "approval_requested")
<1>1. SameEffects(a, b)
  BY EventSame
<1>2. Asked(a) = [b EXCEPT !.run = "WAITING", !.approval = IF @ = "absent" THEN "PENDING" ELSE @]
  BY DEF Asked
<1> HIDE DEF b
<1>3. QED BY <1>1, <1>2 DEF SameEffects, DbFields, Decisive

LEMMA WithdrawnSame ==
    ASSUME NEW a, DOMAIN a = DbFields
    PROVE  SameEffects(a, Withdrawn(a))
<1> DEFINE b == Event(a, 50, "review_cancelled")
           d == [b EXCEPT !.run = "CANCELLED", !.approval = IF @ = "PENDING" THEN "CANCELLED" ELSE @]
<1>1. SameEffects(a, b)
  BY EventSame
<1>2. Withdrawn(a) = IF a.run \in Ended THEN a ELSE d
  BY DEF Withdrawn
<1>3. SameEffects(a, a)
  BY DEF SameEffects
<1>4. SameEffects(a, d)
  <2> HIDE DEF b
  <2>1. QED BY <1>1 DEF SameEffects, DbFields, Decisive
<1>5. QED BY <1>2, <1>3, <1>4

\* A decision that is recorded.
Decides(a, b) == DOMAIN b = DbFields /\ a.decided = 0 /\ b.decided = 1

LEMMA EffectsDecide ==
    ASSUME NEW a, DOMAIN a = DbFields, NEW verdict
    PROVE  DOMAIN Effects(a, verdict) = DbFields /\ Effects(a, verdict).decided = 1
<1> DEFINE b == [Event(a, 40, "approval_decided") EXCEPT
                    !.approval = verdict, !.vendor = verdict, !.decided = 1,
                    !.run = IF verdict = "APPROVED" THEN "SUCCEEDED" ELSE "REJECTED"]
<1>1. DOMAIN Event(a, 40, "approval_decided") = DbFields
  BY EventSame DEF SameEffects
<1>2. DOMAIN b = DbFields /\ b.decided = 1
  BY <1>1 DEF DbFields
<1>3. SameEffects(b, Called(b, "email", "succeeded", "none"))
  <2> HIDE DEF b
  <2>1. QED BY <1>2, CalledSame
<1>4. Effects(a, verdict) =
         IF verdict = "REJECTED" THEN b
         ELSE [Called(b, "email", "succeeded", "none") EXCEPT !.listed = 1, !.emails = 1]
  BY DEF Effects
<1>5. QED
  <2> HIDE DEF b
  <2>1. QED BY <1>2, <1>3, <1>4 DEF SameEffects, DbFields

\* A step leaves the effects of a run alone or records a decision that is awaited.
DbMoves ==
    /\ DOMAIN db' = Works
    /\ \A w \in Works :
          \/ SameEffects(db[w], db'[w])
          \/ Decides(db[w], db'[w]) /\ Choosable(w)

LEMMA DbUpdated ==
    ASSUME Shape, NEW w, NEW rows, db' = [db EXCEPT ![w] = rows],
           w \in Works => \/ SameEffects(db[w], rows)
                          \/ Decides(db[w], rows) /\ Choosable(w)
    PROVE  DbMoves
<1>1. \A v \in Works \ {w} : SameEffects(db[v], db'[v])
  BY DEF Shape, SameEffects
<1>2. w \in Works => db'[w] = rows
  BY DEF Shape
<1>3. QED BY <1>1, <1>2 DEF DbMoves, Shape

LEMMA DbKept ==
    ASSUME Shape, UNCHANGED db
    PROVE  DbMoves
BY DEF Shape, DbMoves, SameEffects

LEMMA ProbeDb ==
    ASSUME Shape, NEW c \in Callers, Probe(c)
    PROVE  DbMoves
<1> DEFINE w == Work(c)
           new == {Refused(c, i) : i \in Probes(c)} \ {None}
<1>1. db' = [db EXCEPT ![w] = [db[w] EXCEPT !.rows = @ \cup new]]
  BY DEF Probe
<1> HIDE DEF w, new
<1>2. w \in Works => SameEffects(db[w], [db[w] EXCEPT !.rows = @ \cup new])
  BY DEF Shape, SameEffects, DbFields, Decisive
<1>3. QED BY <1>1, <1>2, DbUpdated

LEMMA HitDb ==
    ASSUME Shape, NEW s \in Slots, Hit(s)
    PROVE  DbMoves
<1> DEFINE w == attempt[s].work
<1>1. w \in Works /\ DOMAIN db[w] = DbFields
  BY DEF Hit, Doing, Shape
<1>2. \/ db' = [db EXCEPT ![w] = Begun(@)]
      \/ db' = [db EXCEPT ![w] =
            Failed(Called(Begun(@), "lookup", "failed", "execution_failed"), "invalid_input", 15)]
      \/ db' = [db EXCEPT ![w] =
            Failed(Called(@, "search", "failed", "execution_failed"), "policy_retrieval_failed", 25)]
      \/ UNCHANGED db
  BY DEF Hit
<1> HIDE DEF w
<1>3. SameEffects(db[w], Begun(db[w]))
  BY <1>1, BegunSame
<1>4. DOMAIN Begun(db[w]) = DbFields
  BY <1>3 DEF SameEffects
<1>5. SameEffects(db[w], Failed(Called(Begun(db[w]), "lookup", "failed", "execution_failed"),
                                "invalid_input", 15))
  <2> DEFINE a == Called(Begun(db[w]), "lookup", "failed", "execution_failed")
  <2>1. SameEffects(Begun(db[w]), a)
    BY <1>4, CalledSame
  <2>2. SameEffects(db[w], a) /\ DOMAIN a = DbFields
    BY <1>3, <2>1, SameEffectsTrans DEF SameEffects
  <2>3. SameEffects(a, Failed(a, "invalid_input", 15))
    <3> HIDE DEF a
    <3>1. QED BY <2>2, FailedSame
  <2>4. QED BY <2>2, <2>3, SameEffectsTrans
<1>6. SameEffects(db[w], Failed(Called(db[w], "search", "failed", "execution_failed"),
                                "policy_retrieval_failed", 25))
  <2> DEFINE a == Called(db[w], "search", "failed", "execution_failed")
  <2>1. SameEffects(db[w], a)
    BY <1>1, CalledSame
  <2>2. DOMAIN a = DbFields
    BY <2>1 DEF SameEffects
  <2>3. SameEffects(a, Failed(a, "policy_retrieval_failed", 25))
    <3> HIDE DEF a
    <3>1. QED BY <2>2, FailedSame
  <2>4. QED BY <2>1, <2>3, SameEffectsTrans
<1>7. QED BY <1>2, <1>3, <1>5, <1>6, DbUpdated, DbKept

LEMMA CommitBeginDb ==
    ASSUME Shape, NEW s \in Slots, CommitBegin(s)
    PROVE  DbMoves
<1> DEFINE w == attempt[s].work
<1>1. w \in Works /\ DOMAIN db[w] = DbFields
  BY DEF CommitBegin, Committing, Doing, Shape
<1>2. \/ db' = [db EXCEPT ![w] =
            Event(Called(Begun(@), "lookup", "succeeded", "none"), 10, "review_started")]
      \/ db' = [db EXCEPT ![w] =
            Failed(Called(Begun(@), "lookup", "denied", "policy_denied"),
                   "tool_permission_denied", 15)]
  BY DEF CommitBegin
<1> HIDE DEF w
<1>3. SameEffects(db[w], Begun(db[w])) /\ DOMAIN Begun(db[w]) = DbFields
  BY <1>1, BegunSame DEF SameEffects
<1>4. ASSUME NEW status, NEW error
      PROVE  /\ SameEffects(db[w], Called(Begun(db[w]), "lookup", status, error))
             /\ DOMAIN Called(Begun(db[w]), "lookup", status, error) = DbFields
  <2>1. SameEffects(Begun(db[w]), Called(Begun(db[w]), "lookup", status, error))
    BY <1>3, CalledSame
  <2>2. QED BY <1>3, <2>1, SameEffectsTrans DEF SameEffects
<1>5. SameEffects(db[w], Event(Called(Begun(db[w]), "lookup", "succeeded", "none"), 10,
                               "review_started"))
  <2> DEFINE a == Called(Begun(db[w]), "lookup", "succeeded", "none")
  <2>1. SameEffects(db[w], a) /\ DOMAIN a = DbFields
    BY <1>4
  <2>2. SameEffects(a, Event(a, 10, "review_started"))
    <3> HIDE DEF a
    <3>1. QED BY <2>1, EventSame
  <2>3. QED BY <2>1, <2>2, SameEffectsTrans
<1>6. SameEffects(db[w], Failed(Called(Begun(db[w]), "lookup", "denied", "policy_denied"),
                                "tool_permission_denied", 15))
  <2> DEFINE a == Called(Begun(db[w]), "lookup", "denied", "policy_denied")
  <2>1. SameEffects(db[w], a) /\ DOMAIN a = DbFields
    BY <1>4
  <2>2. SameEffects(a, Failed(a, "tool_permission_denied", 15))
    <3> HIDE DEF a
    <3>1. QED BY <2>1, FailedSame
  <2>3. QED BY <2>1, <2>2, SameEffectsTrans
<1>7. QED BY <1>2, <1>5, <1>6, DbUpdated

LEMMA CommitAssessDb ==
    ASSUME Shape, NEW s \in Slots, CommitAssess(s)
    PROVE  DbMoves
<1> DEFINE w == attempt[s].work
           called == Called(db[w], "search", "succeeded", "none")
           assessed == [called EXCEPT !.model = IF @ = "failed" THEN @ ELSE attempt[s].model]
           once == Event(assessed, 20, "risk_assessed")
           twice == Event(once, 25, "risk_policy_context")
<1>1. w \in Works /\ DOMAIN db[w] = DbFields
  BY DEF CommitAssess, Committing, Doing, Shape
<1>2. db' = [db EXCEPT ![w] = twice]
  BY DEF CommitAssess
<1> HIDE DEF w
<1>3. SameEffects(db[w], called)
  BY <1>1, CalledSame
<1> HIDE DEF called
<1>4. SameEffects(db[w], assessed)
  BY <1>3 DEF SameEffects, DbFields, Decisive
<1> HIDE DEF assessed
<1>5. SameEffects(assessed, once)
  BY <1>4, EventSame DEF SameEffects
<1> HIDE DEF once
<1>6. SameEffects(once, twice)
  BY <1>5, EventSame DEF SameEffects
<1> HIDE DEF twice
<1>7. SameEffects(db[w], twice)
  BY <1>4, <1>5, <1>6, SameEffectsTrans
<1>8. QED BY <1>2, <1>7, DbUpdated

LEMMA CommitAskDb ==
    ASSUME Shape, NEW s \in Slots, CommitAsk(s)
    PROVE  DbMoves
<1>1. attempt[s].work \in Works /\ DOMAIN db[attempt[s].work] = DbFields
  BY DEF CommitAsk, Committing, Doing, Shape
<1>2. QED BY <1>1, AskedSame, DbUpdated DEF CommitAsk

LEMMA CommitCancelDb ==
    ASSUME Shape, NEW s \in Slots, CommitCancel(s)
    PROVE  DbMoves
<1>1. attempt[s].work \in Works /\ DOMAIN db[attempt[s].work] = DbFields
  BY DEF CommitCancel, Committing, Doing, Shape
<1>2. QED BY <1>1, WithdrawnSame, DbUpdated DEF CommitCancel

LEMMA CommitRecordDb ==
    ASSUME Shape, DecidesOnly, NEW s \in Slots, CommitRecord(s)
    PROVE  DbMoves
<1> DEFINE w == attempt[s].work
<1>1. w \in Works /\ DOMAIN db[w] = DbFields
  BY DEF CommitRecord, Committing, Doing, Shape
<1>2. Choosable(w)
  BY DEF CommitRecord, Committing, Doing, DecidesOnly
<1>3. \/ UNCHANGED db
      \/ db[w].decided = 0 /\ db' = [db EXCEPT ![w] = Effects(@, workflow[w].chosen)]
  BY DEF CommitRecord
<1> HIDE DEF w
<1>4. db[w].decided = 0 => Decides(db[w], Effects(db[w], workflow[w].chosen))
  BY <1>1, EffectsDecide DEF Decides
<1>5. QED BY <1>2, <1>3, <1>4, DbUpdated, DbKept

LEMMA DbStep ==
    ASSUME Shape, DecidesOnly, [Next]_vars
    PROVE  DbMoves
<1>1. CASE UNCHANGED db
  BY <1>1, DbKept
<1>2. ASSUME NEW c \in Callers, Evaluate(c) PROVE DbMoves
  BY <1>1, <1>2, ProbeDb
  DEF Evaluate, InvalidCase, CreateIntent, ConfigureFault, Configured, SeeApproval, SeePhase,
      DriveCase, Send, Decided, SeeStatus, Collect, Persist, RecordError, Complete, worker
<1>3. ASSUME NEW s \in Slots, Activity(s) PROVE DbMoves
  BY <1>1, <1>3, HitDb, CommitBeginDb, CommitAssessDb, CommitAskDb, CommitCancelDb, CommitRecordDb
  DEF Activity, Reach, Report
<1>4. ASSUME NEW h \in Callers \cup {Recovery}, NEW w \in Works, StartBy(h, w) PROVE UNCHANGED db
  BY <1>4 DEF StartBy, Claim, StartWorkflow, FinishStart, worker
<1>5. ASSUME NEW c \in Callers,
             \/ Answer(c) \/ CallFails(c) \/ GiveUp(c) \/ Die(c)
             \/ \E u \in Suites : Request(c, u)
      PROVE  UNCHANGED db
  BY <1>5 DEF Answer, Accept, Refuse, CallFails, GiveUp, Die, Request, worker
<1>6. ASSUME NEW w \in Works,
             RecoveryDies(w) \/ TimeOut(w) \/ \E s \in Slots : Schedule(w, s)
      PROVE  UNCHANGED db
  BY <1>6 DEF RecoveryDies, TimeOut, Schedule, worker
<1>7. ASSUME NEW s \in Slots, Drop(s) PROVE UNCHANGED db
  BY <1>7 DEF Drop
<1>8. ASSUME NEW p \in OperatorPlans, Operator(p) PROVE UNCHANGED db
  BY <1>8 DEF Operator, worker
<1>9. CASE UNCHANGED vars
  BY <1>1, <1>9 DEF vars, worker
<1>10. QED BY <1>1, <1>2, <1>3, <1>4, <1>5, <1>6, <1>7, <1>8, <1>9 DEF Next

-----------------------------------------------------------------------------
\* The workflow of a run records only a decision that is awaited, and so do the
\* attempts that Temporal has scheduled for it.
WorkflowMoves ==
    /\ DOMAIN workflow' = Works
    /\ \A w \in Works :
          /\ DOMAIN workflow'[w] = WorkflowFields
          /\ workflow'[w].phase = "record" => Choosable(w)
          /\ workflow'[w].slot # None => workflow'[w].phase \in Acting

AttemptMoves ==
    /\ DOMAIN attempt' = Slots
    /\ \A s \in Slots : attempt'[s] # None =>
          /\ DOMAIN attempt'[s] = AttemptFields
          /\ attempt'[s].work \in Works
          /\ attempt'[s].activity = "record" => Choosable(attempt'[s].work)

WorkerInv == Shape /\ DecidesOnly /\ SlotsAct

LEMMA WorkflowKept ==
    ASSUME WorkerInv, UNCHANGED workflow
    PROVE  WorkflowMoves
BY DEF WorkerInv, Shape, DecidesOnly, SlotsAct, WorkflowMoves

LEMMA WorkflowUpdated ==
    ASSUME WorkerInv, NEW w, NEW new, workflow' = [workflow EXCEPT ![w] = new],
           w \in Works => /\ DOMAIN new = WorkflowFields
                          /\ new.phase = "record" => Choosable(w)
                          /\ new.slot # None => new.phase \in Acting
    PROVE  WorkflowMoves
<1>1. \A v \in Works \ {w} : workflow'[v] = workflow[v]
  BY DEF WorkerInv, Shape
<1>2. w \in Works => workflow'[w] = new
  BY DEF WorkerInv, Shape
<1>3. DOMAIN workflow' = Works
  BY DEF WorkerInv, Shape
<1>4. QED BY <1>1, <1>2, <1>3 DEF WorkerInv, Shape, DecidesOnly, SlotsAct, WorkflowMoves

\* The workflow moves on, and never on to recording a decision.
LEMMA TurnedMoves ==
    ASSUME WorkerInv, NEW w, NEW reply, workflow' = Turned(w, reply),
           w \in Works => workflow[w].slot # None
    PROVE  WorkflowMoves
<1> DEFINE phase == IF reply = "ok" THEN NextPhase(w)
                    ELSE IF reply = "retry" /\ workflow[w].tries + 1 < MaxAttempts
                    THEN workflow[w].phase
                    ELSE "failed"
           tries == IF phase = workflow[w].phase THEN workflow[w].tries + 1 ELSE 0
           new == [workflow[w] EXCEPT !.phase = phase, !.slot = None, !.tries = tries]
<1>1. workflow' = [workflow EXCEPT ![w] = new]
  BY DEF Turned
<1>2. ASSUME w \in Works
      PROVE  phase = "record" => workflow[w].phase = "record"
  <2>1. workflow[w].phase \in Acting
    BY <1>2 DEF WorkerInv, SlotsAct
  <2>2. NextPhase(w) # "record"
    BY <2>1 DEF Acting, NextPhase
  <2>3. QED BY <2>2
<1>3. ASSUME w \in Works
      PROVE  DOMAIN new = WorkflowFields /\ new.phase = phase /\ new.slot = None
  <2> HIDE DEF phase, tries
  <2>1. DOMAIN workflow[w] = WorkflowFields
    BY <1>3 DEF WorkerInv, Shape
  <2>2. QED BY <2>1 DEF WorkflowFields
<1>4. w \in Works => (phase = "record" => Choosable(w))
  <2> HIDE DEF phase
  <2>1. QED BY <1>2 DEF WorkerInv, DecidesOnly
<1>5. QED
  <2> HIDE DEF phase, new
  <2>1. QED BY <1>1, <1>3, <1>4, WorkflowUpdated

LEMMA ReplyMoves ==
    ASSUME WorkerInv, NEW s \in Slots, NEW reply, attempt[s] # None, Reply(s, reply)
    PROVE  WorkflowMoves /\ AttemptMoves
<1>1. s # None
  BY EvaluationAssumption
<1>2. WorkflowMoves
  BY <1>1, TurnedMoves, WorkflowKept DEF Reply
<1>3. attempt' = [attempt EXCEPT ![s] = None]
  BY DEF Reply
<1>4. AttemptMoves
  BY <1>3 DEF WorkerInv, Shape, DecidesOnly, AttemptMoves
<1>5. QED BY <1>2, <1>4

LEMMA AttemptKept ==
    ASSUME WorkerInv, UNCHANGED attempt
    PROVE  AttemptMoves
BY DEF WorkerInv, Shape, DecidesOnly, AttemptMoves

LEMMA AttemptUpdated ==
    ASSUME WorkerInv, NEW s \in Slots, NEW new, attempt' = [attempt EXCEPT ![s] = new],
           new # None => /\ DOMAIN new = AttemptFields
                         /\ new.work \in Works
                         /\ new.activity = "record" => Choosable(new.work)
    PROVE  AttemptMoves
<1>1. /\ \A t \in Slots \ {s} : attempt'[t] = attempt[t]
      /\ attempt'[s] = new
      /\ DOMAIN attempt' = Slots
  BY DEF WorkerInv, Shape
<1>2. QED BY <1>1 DEF WorkerInv, Shape, DecidesOnly, AttemptMoves

\* An attempt that goes on remains an attempt of its activity.
GoesOn(s) ==
    /\ DOMAIN attempt' = Slots
    /\ \A t \in Slots \ {s} : attempt'[t] = attempt[t]
    /\ DOMAIN attempt'[s] = AttemptFields
    /\ attempt'[s].work = attempt[s].work
    /\ attempt'[s].activity = attempt[s].activity

LEMMA GoesOnMoves ==
    ASSUME WorkerInv, NEW s \in Slots, attempt[s] # None, GoesOn(s)
    PROVE  AttemptMoves
BY DEF WorkerInv, Shape, DecidesOnly, AttemptMoves, GoesOn

LEMMA SetStep ==
    ASSUME WorkerInv, NEW s \in Slots, attempt[s] # None, NEW step,
           attempt' = [attempt EXCEPT ![s].step = step]
    PROVE  GoesOn(s)
BY DEF WorkerInv, Shape, GoesOn, AttemptFields

LEMMA SetTodo ==
    ASSUME WorkerInv, NEW s \in Slots, attempt[s] # None, NEW todo,
           attempt' = [attempt EXCEPT ![s].todo = todo]
    PROVE  GoesOn(s)
BY DEF WorkerInv, Shape, GoesOn, AttemptFields

LEMMA SetStepTodo ==
    ASSUME WorkerInv, NEW s \in Slots, attempt[s] # None, NEW step, NEW todo,
           attempt' = [attempt EXCEPT ![s].step = step, ![s].todo = todo]
    PROVE  GoesOn(s)
BY DEF WorkerInv, Shape, GoesOn, AttemptFields

LEMMA SetTodoModel ==
    ASSUME WorkerInv, NEW s \in Slots, attempt[s] # None, NEW model, NEW todo,
           attempt' = [attempt EXCEPT ![s].todo = todo, ![s].model = model]
    PROVE  GoesOn(s)
BY DEF WorkerInv, Shape, GoesOn, AttemptFields
LEMMA SetTodoStep ==
    ASSUME WorkerInv, NEW s \in Slots, attempt[s] # None, NEW model, NEW todo,
           attempt' = [attempt EXCEPT ![s].todo = todo, ![s].step = model]
    PROVE  GoesOn(s)
BY DEF WorkerInv, Shape, GoesOn, AttemptFields

LEMMA ScheduleMoves ==
    ASSUME WorkerInv, NEW w \in Works, NEW s \in Slots, Schedule(w, s)
    PROVE  WorkflowMoves /\ AttemptMoves
<1>1. DOMAIN workflow[w] = WorkflowFields /\ workflow[w].phase \in Acting
  BY DEF WorkerInv, Shape, Schedule
<1>2. workflow[w].phase = "record" => Choosable(w)
  BY DEF WorkerInv, DecidesOnly
<1>3. WorkflowMoves
  <2> DEFINE new == [workflow[w] EXCEPT !.slot = s]
  <2>1. workflow' = [workflow EXCEPT ![w] = new]
    BY DEF Schedule
  <2>2. DOMAIN new = WorkflowFields /\ new.phase = workflow[w].phase
    BY <1>1 DEF WorkflowFields
  <2> HIDE DEF new
  <2>3. QED BY <1>1, <1>2, <2>1, <2>2, WorkflowUpdated
<1>4. AttemptMoves
  <2> DEFINE new == [work |-> w, activity |-> workflow[w].phase, step |-> "before",
                     todo |-> Before[workflow[w].phase], model |-> "succeeded"]
  <2>1. attempt' = [attempt EXCEPT ![s] = new]
    BY DEF Schedule
  <2>2. /\ DOMAIN new = AttemptFields
        /\ new.work = w
        /\ new.activity = workflow[w].phase
    BY DEF AttemptFields
  <2> HIDE DEF new
  <2>3. QED BY <1>2, <2>1, <2>2, AttemptUpdated
<1>5. QED BY <1>3, <1>4

LEMMA StartWorkflowMoves ==
    ASSUME WorkerInv, NEW h, NEW w \in Works, StartWorkflow(h, w)
    PROVE  WorkflowMoves
<1> DEFINE new == [workflow[w] EXCEPT !.phase = "begin"]
<1>1. workflow' = [workflow EXCEPT ![w] = new] \/ UNCHANGED workflow
  BY DEF StartWorkflow
<1>2. DOMAIN new = WorkflowFields /\ new.phase = "begin"
  BY DEF WorkerInv, Shape, WorkflowFields
<1> HIDE DEF new
<1>3. "begin" \in Acting
  BY DEF Acting
<1>4. QED BY <1>1, <1>2, <1>3, WorkflowUpdated, WorkflowKept

LEMMA SeePhaseMoves ==
    ASSUME WorkerInv, NEW c \in Callers, SeePhase(c)
    PROVE  WorkflowMoves
<1> DEFINE w == Work(c)
           phase == IF workflow[w].phase = "wait" THEN "cancel" ELSE workflow[w].phase
           new == [workflow[w] EXCEPT !.cancelled = TRUE, !.phase = phase]
<1>1. workflow' = [workflow EXCEPT ![w] = new] \/ UNCHANGED workflow
  BY DEF SeePhase
<1>2. workflow[w].phase \in {"ask", "wait", "cancel"}
  BY DEF SeePhase
<1> HIDE DEF w
<1>3. phase # "record" /\ phase \in Acting
  BY <1>2 DEF Acting
<1> HIDE DEF phase
<1>4. w \in Works => DOMAIN new = WorkflowFields /\ new.phase = phase
  BY DEF WorkerInv, Shape, WorkflowFields
<1> HIDE DEF new
<1>5. QED BY <1>1, <1>3, <1>4, WorkflowUpdated, WorkflowKept

\* The Update of a decision is accepted by a workflow that waits for one.
LEMMA AcceptMoves ==
    ASSUME WorkerInv, NEW c \in Callers, Accept(c)
    PROVE  WorkflowMoves
<1> DEFINE w == Work(c)
           verdict == Driver(c).attempts[Turn(c)].verdict
           new == [workflow[w] EXCEPT !.phase = "record", !.chosen = verdict]
<1>1. workflow' = [workflow EXCEPT ![w] = new]
  BY DEF Accept
<1>2. Choosable(w)
  BY DEF Accept, Acceptable, At, WorkerInv, DecidesOnly
<1> HIDE DEF w, verdict
<1>3. w \in Works => DOMAIN new = WorkflowFields /\ new.phase = "record"
  BY DEF WorkerInv, Shape, WorkflowFields
<1> HIDE DEF new
<1>4. "record" \in Acting
  BY DEF Acting
<1>5. QED BY <1>1, <1>2, <1>3, <1>4, WorkflowUpdated

LEMMA TimeOutMoves ==
    ASSUME WorkerInv, NEW w \in Works, TimeOut(w)
    PROVE  WorkflowMoves
BY TurnedMoves DEF TimeOut

LEMMA DropMoves ==
    ASSUME WorkerInv, NEW s \in Slots, Drop(s)
    PROVE  WorkflowMoves /\ AttemptMoves
<1> DEFINE w == attempt[s].work
           new == [workflow[w] EXCEPT !.slot = Lost]
<1>1. s # None
  BY EvaluationAssumption
<1>2. \/ UNCHANGED workflow
      \/ workflow[w].slot = s /\ workflow' = [workflow EXCEPT ![w] = new]
  BY DEF Drop
<1>3. w \in Works
  BY DEF Drop, WorkerInv, Shape
<1>4. attempt' = [attempt EXCEPT ![s] = None]
  BY DEF Drop
<1>5. AttemptMoves
  BY <1>4 DEF WorkerInv, Shape, DecidesOnly, AttemptMoves
<1> HIDE DEF w
<1>6. DOMAIN new = WorkflowFields /\ new.phase = workflow[w].phase
  BY <1>3 DEF WorkerInv, Shape, WorkflowFields
<1>7. workflow[w].phase = "record" => Choosable(w)
  BY <1>3 DEF WorkerInv, DecidesOnly
<1>8. workflow[w].slot = s => workflow[w].phase \in Acting
  BY <1>1, <1>3 DEF WorkerInv, SlotsAct
<1> HIDE DEF new
<1>9. WorkflowMoves
  BY <1>2, <1>6, <1>7, <1>8, WorkflowUpdated, WorkflowKept
<1>10. QED BY <1>5, <1>9

LEMMA ReachMoves ==
    ASSUME WorkerInv, NEW s \in Slots, NEW p \in Points, Reach(s, p)
    PROVE  AttemptMoves
<1>1. attempt[s] # None
  BY DEF Reach
<1>2. \/ UNCHANGED attempt
      \/ attempt' = [attempt EXCEPT ![s].todo = attempt[s].todo \ {p}]
      \/ attempt' = [attempt EXCEPT ![s].todo = attempt[s].todo \ {p}, ![s].model = "failed"]
      \/ attempt' = [attempt EXCEPT ![s].todo = {p}, ![s].step = "hit"]
  BY DEF Reach
<1>3. QED BY <1>1, <1>2, AttemptKept, GoesOnMoves, SetTodo, SetTodoModel, SetTodoStep

LEMMA PastMoves ==
    ASSUME WorkerInv, NEW s \in Slots, attempt[s] # None, Past(s)
    PROVE  AttemptMoves
BY SetStepTodo, GoesOnMoves DEF Past

LEMMA CommitRecordMoves ==
    ASSUME WorkerInv, NEW s \in Slots, CommitRecord(s)
    PROVE  AttemptMoves
<1>1. attempt[s] # None
  BY DEF CommitRecord, Committing, Doing
<1>2. Past(s) \/ attempt' = [attempt EXCEPT ![s].step = "after"]
  BY DEF CommitRecord
<1>3. QED BY <1>1, <1>2, PastMoves, SetStep, GoesOnMoves

LEMMA ActivityMoves ==
    ASSUME WorkerInv, NEW s \in Slots, Activity(s)
    PROVE  WorkflowMoves /\ AttemptMoves
<1>1. ASSUME NEW p \in Points, Reach(s, p) PROVE WorkflowMoves /\ AttemptMoves
  BY <1>1, ReachMoves, WorkflowKept DEF Reach
<1>2. CASE Hit(s)
  BY <1>2, ReplyMoves DEF Hit, Doing
<1>3. CASE CommitBegin(s)
  BY <1>3, ReplyMoves, PastMoves, WorkflowKept DEF CommitBegin, Committing, Doing
<1>4. CASE CommitAssess(s)
  BY <1>4, PastMoves, WorkflowKept DEF CommitAssess, Committing, Doing
<1>5. CASE CommitAsk(s)
  BY <1>5, PastMoves, WorkflowKept DEF CommitAsk, Committing, Doing
<1>6. CASE CommitCancel(s)
  BY <1>6, PastMoves, WorkflowKept DEF CommitCancel, Committing, Doing
<1>7. CASE CommitRecord(s)
  BY <1>7, CommitRecordMoves, WorkflowKept DEF CommitRecord
<1>8. CASE Report(s)
  BY <1>8, ReplyMoves DEF Report, Doing
<1>9. QED BY <1>1, <1>2, <1>3, <1>4, <1>5, <1>6, <1>7, <1>8 DEF Activity

LEMMA WorkerStep ==
    ASSUME WorkerInv, [Next]_vars
    PROVE  WorkflowMoves /\ AttemptMoves
<1>1. CASE UNCHANGED <<workflow, attempt>>
  BY <1>1, WorkflowKept, AttemptKept
<1>2. ASSUME NEW c \in Callers, Evaluate(c) PROVE WorkflowMoves /\ AttemptMoves
  <2>1. CASE SeePhase(c)
    BY <2>1, SeePhaseMoves, AttemptKept DEF SeePhase
  <2>2. QED
    BY <1>1, <1>2, <2>1
    DEF Evaluate, InvalidCase, CreateIntent, ConfigureFault, Configured, DriveCase, Send, Probe,
        SeeApproval, Decided, SeeStatus, Collect, Persist, RecordError, Complete, worker
<1>3. ASSUME NEW s \in Slots, Activity(s) \/ Drop(s) PROVE WorkflowMoves /\ AttemptMoves
  BY <1>3, ActivityMoves, DropMoves
<1>4. ASSUME NEW h \in Callers \cup {Recovery}, NEW w \in Works, StartBy(h, w)
      PROVE  WorkflowMoves /\ AttemptMoves
  <2>1. CASE StartWorkflow(h, w)
    BY <2>1, StartWorkflowMoves, AttemptKept DEF StartWorkflow
  <2>2. QED BY <1>1, <1>4, <2>1 DEF StartBy, Claim, FinishStart, worker
<1>5. ASSUME NEW c \in Callers,
             \/ Refuse(c) \/ CallFails(c) \/ GiveUp(c) \/ Die(c)
             \/ \E u \in Suites : Request(c, u)
      PROVE  UNCHANGED <<workflow, attempt>>
  BY <1>5 DEF Refuse, CallFails, GiveUp, Die, Request, worker
<1>6. ASSUME NEW w \in Works, RecoveryDies(w) \/ TimeOut(w) \/ \E s \in Slots : Schedule(w, s)
      PROVE  WorkflowMoves /\ AttemptMoves
  BY <1>1, <1>6, TimeOutMoves, ScheduleMoves, AttemptKept DEF RecoveryDies, TimeOut, worker
<1>7. ASSUME NEW p \in OperatorPlans, Operator(p) PROVE UNCHANGED <<workflow, attempt>>
  BY <1>7 DEF Operator, worker
<1>8. ASSUME NEW c \in Callers, Accept(c) PROVE WorkflowMoves /\ AttemptMoves
  BY <1>8, AcceptMoves, AttemptKept DEF Accept
<1>9. CASE UNCHANGED vars
  BY <1>1, <1>9 DEF vars, worker
<1>10. QED BY <1>1, <1>2, <1>3, <1>4, <1>5, <1>6, <1>7, <1>8, <1>9 DEF Next, Answer

-----------------------------------------------------------------------------
(***************************************************************************)
(* The fault plans of the runs.                                            *)
(***************************************************************************)
LEMMA WorkOfCase ==
    ASSUME EvaluatorsApart, NEW c \in Callers,
           evaluator[c].step \notin Gone, evaluator[c].step # "case"
    PROVE  /\ Work(c) \in Works
           /\ evaluator[c].suite \in Suites
           /\ evaluator[c].case \in DOMAIN evaluator[c].suite
           /\ Requested(Work(c))
           /\ Contract(Work(c)) = Case(c)
<1>1. /\ evaluator[c].suite \in Suites
      /\ evaluator[c].case \in DOMAIN evaluator[c].suite
      /\ evaluation[KeyOf[c]] = EvaluationRun("RUNNING", evaluator[c].suite)
  BY DEF EvaluatorsApart
<1>2. evaluator[c].case \in Indices /\ KeyOf[c] \in Keys
  BY <1>1, EvaluationAssumption
<1>3. evaluation[KeyOf[c]].status = "RUNNING" /\ evaluation[KeyOf[c]].suite = evaluator[c].suite
  BY <1>1 DEF EvaluationRun
<1>4. Work(c)[1] = KeyOf[c] /\ Work(c)[2] = evaluator[c].case
  BY DEF Work
<1>5. QED BY <1>1, <1>2, <1>3, <1>4 DEF Work, Works, Requested, Contract, Case

\* The code's own steps on the rows of the fault plans.
FaultMoves ==
    \/ UNCHANGED faultVars
    \/ \E p \in Plans : \E n \in Nat : CreatePlan(p, n)
    \/ \E p \in Plans : ClearPlan(p)
    \/ \E s \in Sessions, p \in Plans : SelectPlan(s, p) \/ TakeTrigger(s, p)
    \/ \E s \in Sessions : Released(s)

\* The faults of a case are on plans of its run, and have a number of triggers.
LEMMA ConfigureMoves ==
    ASSUME EvaluatorsApart, TodoIsOfCase, NEW c \in Callers,
           NEW f \in evaluator[c].todo, ConfigureFault(c, f)
    PROVE  FaultMoves
<1>1. evaluator[c].step = "configure"
  BY DEF ConfigureFault, At
<1>2. Work(c) \in Works /\ evaluator[c].suite \in Suites
      /\ evaluator[c].case \in DOMAIN evaluator[c].suite
  BY <1>1, WorkOfCase DEF Gone
<1>3. f \in FaultsOf(Case(c))
  BY <1>1 DEF TodoIsOfCase
<1>4. f.point \in Points /\ f.triggers \in Nat
  <2>1. CASE f \in Case(c).faults
    <3>1. f.point \in Points
      BY <1>2, <2>1, EvaluationAssumption DEF Case
    <3>2. ValidCase(Case(c))
      BY <1>2, EvaluationAssumption DEF Case, ValidSuite
    <3>3. f.triggers \in 1 .. 10
      BY <2>1, <3>2 DEF ValidCase, ValidFaults, ValidFault
    <3>4. QED BY <3>1, <3>3
  <2>2. CASE f = [point |-> "provider", action |-> "retryable", triggers |-> 1,
                  retryable |-> TRUE, retries |-> 0]
    BY <2>2 DEF Points
  <2>3. QED BY <1>3, <2>1, <2>2 DEF FaultsOf
<1>5. <<Work(c), f.point>> \in Plans
  BY <1>2, <1>4, EvaluationAssumption
<1>6. QED BY <1>4, <1>5 DEF ConfigureFault, FaultMoves

LEMMA FaultStep ==
    ASSUME Shape, EvaluatorsApart, TodoIsOfCase, [Next]_vars
    PROVE  FaultMoves
<1>1. CASE UNCHANGED faultVars
  BY <1>1 DEF FaultMoves
<1>2. ASSUME NEW c \in Callers, Evaluate(c) PROVE FaultMoves
  BY <1>1, <1>2, ConfigureMoves
  DEF Evaluate, InvalidCase, CreateIntent, Configured, DriveCase, Send, Probe, SeeApproval,
      SeePhase, Decided, SeeStatus, Collect, Persist, RecordError, Complete
<1>3. ASSUME NEW s \in Slots, Activity(s) PROVE FaultMoves
  <2>1. ASSUME NEW p \in Points, Reach(s, p) PROVE FaultMoves
    <3>1. <<attempt[s].work, p>> \in Plans /\ s \in Sessions
      BY <2>1, EvaluationAssumption DEF Reach, Shape
    <3>2. QED BY <2>1, <3>1 DEF Reach, FaultMoves
  <2>2. QED
    BY <1>1, <1>3, <2>1
    DEF Activity, Hit, CommitBegin, CommitAssess, CommitAsk, CommitCancel, CommitRecord, Report
<1>4. ASSUME NEW h \in Callers \cup {Recovery}, NEW w \in Works, StartBy(h, w) PROVE FaultMoves
  <2>1. CASE FinishStart(h, w)
    <3>1. <<w, "start">> \in Plans /\ h \in Sessions
      BY EvaluationAssumption DEF Points
    <3>2. QED BY <2>1, <3>1 DEF FinishStart, FaultMoves
  <2>2. QED BY <1>1, <1>4, <2>1 DEF StartBy, Claim, StartWorkflow
<1>5. ASSUME NEW c \in Callers,
             \/ Answer(c) \/ CallFails(c) \/ GiveUp(c)
             \/ \E u \in Suites : Request(c, u)
      PROVE  FaultMoves
  BY <1>1, <1>5 DEF Answer, Accept, Refuse, CallFails, GiveUp, Request
<1>6. ASSUME NEW c \in Callers, Die(c) PROVE FaultMoves
  BY <1>6, EvaluationAssumption DEF Die, FaultMoves, Released
<1>7. ASSUME NEW w \in Works, RecoveryDies(w) PROVE FaultMoves
  BY <1>7, EvaluationAssumption DEF RecoveryDies, FaultMoves, Released
<1>8. ASSUME NEW w \in Works, TimeOut(w) \/ \E s \in Slots : Schedule(w, s) PROVE FaultMoves
  BY <1>1, <1>8 DEF TimeOut, Schedule
<1>9. ASSUME NEW s \in Slots, Drop(s) PROVE FaultMoves
  BY <1>9, EvaluationAssumption DEF Drop, FaultMoves, Released
<1>10. ASSUME NEW p \in OperatorPlans, Operator(p) PROVE FaultMoves
  <2>1. p \in Plans
    BY EvaluationAssumption
  <2>2. \A n \in 1 .. MaxGranted : n \in Nat
    BY FaultAssumption
  <2>3. QED BY <1>10, <2>1, <2>2 DEF Operator, Configure, FaultMoves
<1>11. CASE UNCHANGED vars
  BY <1>1, <1>11 DEF vars
<1>12. QED BY <1>1, <1>2, <1>3, <1>4, <1>5, <1>6, <1>7, <1>8, <1>9, <1>10, <1>11 DEF Next

LEMMA FaultMovesIInv ==
    ASSUME FaultIInv, FaultMoves
    PROVE  FaultIInv'
<1>1. CASE UNCHANGED faultVars
  BY <1>1, FaultNextIInv
<1>2. CASE ~UNCHANGED faultVars
  BY <1>2, CreatePlanIInv, ClearPlanIInv, SelectPlanIInv, TakeTriggerIInv, ReleasedIInv DEF FaultMoves
<1>3. QED BY <1>1, <1>2

\* A fault that was survived stays on record.
LEMMA ConsumedGrows ==
    ASSUME FaultIInv, FaultMoves, NEW q \in Plans
    PROVE  consumed[q] \in Nat /\ consumed'[q] \in Nat /\ consumed[q] <= consumed'[q]
<1>1. FaultIInv'
  BY FaultMovesIInv
<1>2. consumed[q] \in Nat /\ consumed'[q] \in Nat
  BY <1>1 DEF FaultIInv, FaultTypeOK
<1>3. consumed' = consumed \/ \E p \in Plans : consumed' = [consumed EXCEPT ![p] = @ + 1]
  BY DEF FaultMoves, faultVars, CreatePlan, ClearPlan, SelectPlan, TakeTrigger, Released
<1>4. DOMAIN consumed = Plans
  BY DEF FaultIInv, FaultTypeOK
<1>5. consumed'[q] = consumed[q] \/ consumed'[q] = consumed[q] + 1
  BY <1>3, <1>4
<1>6. QED BY <1>2, <1>5

LEMMA SumGrows ==
    ASSUME FaultIInv, FaultMoves, NEW w \in Works
    PROVE  SumOf(w) \in Nat /\ SumOf(w)' \in Nat /\ SumOf(w) <= SumOf(w)'
<1>1. \A p \in Points : <<w, p>> \in Plans
  BY EvaluationAssumption
<1>2. \A p \in Points : /\ consumed[<<w, p>>] \in Nat
                        /\ consumed'[<<w, p>>] \in Nat
                        /\ consumed[<<w, p>>] <= consumed'[<<w, p>>]
  BY <1>1, ConsumedGrows
<1> DEFINE n(p) == consumed[<<w, p>>]
           m(p) == consumed'[<<w, p>>]
<1>3. /\ SumOf(w) = n("lookup") + n("search") + n("provider") + n("waiting") + n("email") + n("start")
      /\ SumOf(w)' = m("lookup") + m("search") + m("provider") + m("waiting") + m("email") + m("start")
  BY DEF SumOf
<1>4. \A p \in Points : n(p) \in Nat /\ m(p) \in Nat /\ n(p) <= m(p)
  BY <1>2
<1> HIDE DEF n, m
<1>5. /\ n("lookup") \in Nat /\ m("lookup") \in Nat /\ n("lookup") <= m("lookup")
      /\ n("search") \in Nat /\ m("search") \in Nat /\ n("search") <= m("search")
      /\ n("provider") \in Nat /\ m("provider") \in Nat /\ n("provider") <= m("provider")
      /\ n("waiting") \in Nat /\ m("waiting") \in Nat /\ n("waiting") <= m("waiting")
      /\ n("email") \in Nat /\ m("email") \in Nat /\ n("email") <= m("email")
      /\ n("start") \in Nat /\ m("start") \in Nat /\ n("start") <= m("start")
  BY <1>4 DEF Points
<1>6. QED BY <1>3, <1>5

LEMMA SumIsNat ==
    ASSUME FaultIInv
    PROVE  \A w \in Works : SumOf(w) \in Nat
<1> SUFFICES ASSUME NEW w \in Works PROVE SumOf(w) \in Nat
  OBVIOUS
<1>1. \A p \in Points : <<w, p>> \in Plans
  BY EvaluationAssumption
<1>2. \A p \in Points : consumed[<<w, p>>] \in Nat
  BY <1>1 DEF FaultIInv, FaultTypeOK
<1>3. QED BY <1>2 DEF SumOf, Points

-----------------------------------------------------------------------------
(***************************************************************************)
(* The evaluators.                                                         *)
(***************************************************************************)
EarnedInv ==
    /\ FaultIInv
    /\ Shape
    /\ EvaluatorsApart
    /\ DecidesOnly
    /\ SlotsAct
    /\ TodoIsOfCase
    /\ LeasesAreHeld
    /\ EvidenceHolds
    /\ PassedIsEarned

\* Evaluator c is the one that steps; to which step, and for which case.
Steps(c) ==
    /\ DOMAIN evaluator' = Callers
    /\ \A d \in Callers \ {c} : evaluator'[d] = evaluator[d]
    /\ DOMAIN evaluator'[c] = EvaluatorFields
    /\ evaluator'[c].suite = evaluator[c].suite
    /\ evaluator'[c].passed => evaluator[c].passed

OnlyResult(c) ==
    /\ DOMAIN result' = Works
    /\ \A w \in Works : w # Work(c) => result'[w] = result[w]

Rests == UNCHANGED harness

\* The first request of a key, and a later one.
Begins(c) ==
    /\ evaluator[c].step \in Gone
    /\ evaluation[KeyOf[c]].status = "none"
    /\ DOMAIN evaluator' = Callers
    /\ \A d \in Callers \ {c} : evaluator'[d] = evaluator[d]
    /\ DOMAIN evaluator'[c] = EvaluatorFields
    /\ evaluator'[c].step = "case"
    /\ evaluator'[c].case = 1
    /\ evaluator'[c].suite \in Suites
    /\ evaluation' = [evaluation EXCEPT ![KeyOf[c]] = EvaluationRun("RUNNING", evaluator'[c].suite)]
    /\ UNCHANGED result

Denied(c) ==
    /\ evaluator[c].step \in Gone
    /\ Steps(c)
    /\ evaluator'[c].step \in Gone
    /\ evaluator'[c].case = evaluator[c].case
    /\ UNCHANGED <<evaluation, result>>

\* Within a case, or to its end by an exception or a crash.
Moves(c) ==
    /\ evaluator[c].step \notin Gone
    /\ Steps(c)
    /\ evaluator'[c].case = evaluator[c].case
    /\ evaluator'[c].step # "case"
    /\ evaluator'[c].step \notin Gone => evaluator[c].case \in DOMAIN evaluator[c].suite
    /\ evaluator'[c].step \in {"early", "approval", "phase"} => Case(c).outcome.run # "failed"
    /\ evaluator'[c].step = "decide" => Choosable(Work(c))
    /\ evaluator'[c].step = "collect" => Final(Work(c))
    /\ evaluator'[c].step = "persist" => Holds(Work(c), evaluator'[c].evidence)
    /\ evaluator'[c].step = "configure" => evaluator'[c].todo \subseteq FaultsOf(Case(c))
    /\ OnlyResult(c)
    /\ UNCHANGED evaluation

\* To the next case, with a verdict that is earned.
Advances(c) ==
    /\ evaluator[c].step \notin Gone
    /\ evaluator[c].case \in DOMAIN evaluator[c].suite
    /\ Steps(c)
    /\ evaluator'[c].case = evaluator[c].case + 1
    /\ evaluator'[c].step = "case"
    /\ evaluator'[c].passed =>
          /\ result'[Work(c)].status = "PASSED"
          /\ Mismatches(Case(c).outcome, result'[Work(c)].evidence) = {}
          /\ Holds(Work(c), result'[Work(c)].evidence)
    /\ OnlyResult(c)
    /\ UNCHANGED evaluation

Completes(c) ==
    /\ evaluator[c].step = "case"
    /\ evaluator[c].case \notin DOMAIN evaluator[c].suite
    /\ Steps(c)
    /\ evaluator'[c].step = "done"
    /\ evaluator'[c].case = evaluator[c].case
    /\ \E verdict \in {"SUCCEEDED", "FAILED"} :
          /\ evaluation' = [evaluation EXCEPT ![KeyOf[c]].status = verdict]
          /\ verdict = "SUCCEEDED" => evaluator[c].passed
    /\ UNCHANGED result

HarnessMoves ==
    Rests \/ \E c \in Callers : Begins(c) \/ Denied(c) \/ Moves(c) \/ Advances(c) \/ Completes(c)

LEMMA GoSteps ==
    ASSUME Shape, NEW c \in Callers, NEW step, Go(c, step)
    PROVE  Steps(c) /\ evaluator'[c] = [evaluator[c] EXCEPT !.step = step]
                    /\ evaluator'[c].step = step /\ evaluator'[c].case = evaluator[c].case
                    /\ evaluator'[c].todo = evaluator[c].todo
                    /\ evaluator'[c].evidence = evaluator[c].evidence
BY DEF Shape, Go, Steps, EvaluatorFields

LEMMA GoMoves ==
    ASSUME EarnedInv, NEW c \in Callers, NEW step, Go(c, step), UNCHANGED <<evaluation, result>>,
           evaluator[c].step \notin Gone,
           evaluator[c].step # "case" \/ step \in Gone,
           step # "case", step # "persist", step # "configure",
           step \in {"early", "approval", "phase"} => Case(c).outcome.run # "failed",
           step = "decide" => Choosable(Work(c)),
           step = "collect" => Final(Work(c))
    PROVE  Moves(c)
<1>1. Shape /\ EvaluatorsApart
  BY DEF EarnedInv
<1>2. Steps(c) /\ evaluator'[c].step = step /\ evaluator'[c].case = evaluator[c].case
  BY <1>1, GoSteps
<1>3. step \notin Gone => evaluator[c].case \in DOMAIN evaluator[c].suite
  BY <1>1 DEF EvaluatorsApart
<1>4. OnlyResult(c)
  BY <1>1 DEF Shape, OnlyResult
<1>5. QED BY <1>2, <1>3, <1>4 DEF Moves

LEMMA AdvanceSteps ==
    ASSUME Shape, NEW c \in Callers, NEW passed, Advance(c, passed)
    PROVE  /\ Steps(c)
           /\ evaluator'[c].step = "case"
           /\ evaluator'[c].case = evaluator[c].case + 1
           /\ evaluator'[c].passed => passed
<1> DEFINE new == [evaluator[c] EXCEPT
                     !.step = "case", !.case = @ + 1, !.passed = @ /\ passed,
                     !.retried = FALSE, !.evidence = None]
<1>1. evaluator' = [evaluator EXCEPT ![c] = new]
  BY DEF Advance
<1>2. DOMAIN evaluator = Callers /\ DOMAIN evaluator[c] = EvaluatorFields
  BY DEF Shape
<1>3. DOMAIN new = EvaluatorFields /\ new.suite = evaluator[c].suite /\ new.step = "case"
      /\ new.case = evaluator[c].case + 1 /\ new.passed = (evaluator[c].passed /\ passed)
  BY <1>2 DEF EvaluatorFields
<1> HIDE DEF new
<1>4. evaluator'[c] = new /\ DOMAIN evaluator' = Callers
      /\ \A d \in Callers \ {c} : evaluator'[d] = evaluator[d]
  BY <1>1, <1>2
<1>5. QED BY <1>3, <1>4 DEF Steps

LEMMA ResultSet ==
    ASSUME Shape, NEW c \in Callers, NEW new, result' = [result EXCEPT ![Work(c)] = new]
    PROVE  OnlyResult(c) /\ (Work(c) \in Works => result'[Work(c)] = new)
BY DEF Shape, OnlyResult

LEMMA RequestMoves ==
    ASSUME EarnedInv, NEW c \in Callers, NEW u \in Suites, Request(c, u)
    PROVE  HarnessMoves
<1>1. Shape
  BY DEF EarnedInv
<1>2. CASE /\ evaluation[KeyOf[c]].status = "none"
           /\ evaluation' = [evaluation EXCEPT ![KeyOf[c]] = EvaluationRun("RUNNING", u)]
           /\ evaluator' = [evaluator EXCEPT ![c].step = "case", ![c].suite = u, ![c].case = 1]
  <2>1. /\ DOMAIN evaluator' = Callers
        /\ \A d \in Callers \ {c} : evaluator'[d] = evaluator[d]
        /\ DOMAIN evaluator'[c] = EvaluatorFields
        /\ evaluator'[c].step = "case"
        /\ evaluator'[c].case = 1
        /\ evaluator'[c].suite = u
    BY <1>1, <1>2 DEF Shape, EvaluatorFields
  <2>2. Begins(c)
    BY <1>2, <2>1 DEF Begins, Request
  <2>3. QED BY <2>2 DEF HarnessMoves
<1>3. CASE Go(c, "done") /\ UNCHANGED evaluation
  <2>1. Denied(c)
    BY <1>1, <1>3, GoSteps DEF Denied, Request, Gone
  <2>2. QED BY <2>1 DEF HarnessMoves
<1>4. QED BY <1>2, <1>3 DEF Request

LEMMA InvalidCaseMoves ==
    ASSUME EarnedInv, NEW c \in Callers, InvalidCase(c)
    PROVE  Moves(c) \/ Advances(c)
<1>1. Shape
  BY DEF EarnedInv
<1>2. evaluator[c].step = "case" /\ evaluator[c].case \in DOMAIN evaluator[c].suite
      /\ UNCHANGED evaluation
  BY DEF InvalidCase, At
<1>3. CASE Go(c, "aborted") /\ UNCHANGED result
  BY <1>2, <1>3, GoMoves DEF Gone
<1>4. CASE result' = [result EXCEPT ![Work(c)] = Result("ERROR", None)] /\ Advance(c, FALSE)
  BY <1>1, <1>2, <1>4, AdvanceSteps, ResultSet DEF Advances, Gone
<1>5. QED BY <1>3, <1>4 DEF InvalidCase

LEMMA CreateIntentMoves ==
    ASSUME EarnedInv, NEW c \in Callers, CreateIntent(c)
    PROVE  Moves(c)
<1>1. Shape
  BY DEF EarnedInv
<1>2. /\ evaluator[c].step = "case"
      /\ evaluator[c].case \in DOMAIN evaluator[c].suite
      /\ evaluator' = [evaluator EXCEPT ![c].step = "configure", ![c].todo = FaultsOf(Case(c))]
      /\ UNCHANGED <<evaluation, result>>
  BY DEF CreateIntent, At
<1>3. /\ Steps(c)
      /\ evaluator'[c].step = "configure"
      /\ evaluator'[c].case = evaluator[c].case
      /\ evaluator'[c].todo = FaultsOf(Case(c))
  BY <1>1, <1>2 DEF Shape, Steps, EvaluatorFields
<1>4. OnlyResult(c)
  BY <1>1, <1>2 DEF Shape, OnlyResult
<1>5. QED BY <1>2, <1>3, <1>4 DEF Moves, Gone

\* An evaluator goes on with what is left of its faults.
LEMMA TodoMoves ==
    ASSUME EarnedInv, NEW c \in Callers, NEW less, UNCHANGED <<evaluation, result>>,
           evaluator[c].step = "configure", less \subseteq evaluator[c].todo,
           evaluator' = [evaluator EXCEPT ![c].todo = less]
    PROVE  Moves(c)
<1>1. Shape /\ EvaluatorsApart /\ TodoIsOfCase
  BY DEF EarnedInv
<1>2. /\ Steps(c)
      /\ evaluator'[c].step = evaluator[c].step
      /\ evaluator'[c].case = evaluator[c].case
      /\ evaluator'[c].todo = less
  BY <1>1 DEF Shape, Steps, EvaluatorFields
<1>3. evaluator[c].case \in DOMAIN evaluator[c].suite
  BY <1>1 DEF EvaluatorsApart, Gone
<1>4. OnlyResult(c)
  BY <1>1 DEF Shape, OnlyResult
<1>5. evaluator[c].todo \subseteq FaultsOf(Case(c))
  BY <1>1 DEF TodoIsOfCase
<1>6. QED BY <1>2, <1>3, <1>4, <1>5 DEF Moves, Gone

\* An evaluator calls for an update, and the call ends.
LEMMA CallMoves ==
    ASSUME EarnedInv, NEW c \in Callers, NEW todo, NEW sent, UNCHANGED <<evaluation, result>>,
           evaluator[c].step \in {"early", "decide"},
           evaluator' = [evaluator EXCEPT ![c].sent = sent, ![c].todo = todo]
    PROVE  Moves(c)
<1>1. Shape /\ EvaluatorsApart /\ DecidesOnly
  BY DEF EarnedInv
<1>2. /\ Steps(c)
      /\ evaluator'[c].step = evaluator[c].step
      /\ evaluator'[c].case = evaluator[c].case
  BY <1>1 DEF Shape, Steps, EvaluatorFields
<1>3. evaluator[c].case \in DOMAIN evaluator[c].suite
  BY <1>1 DEF EvaluatorsApart, Gone
<1>4. OnlyResult(c)
  BY <1>1 DEF Shape, OnlyResult
<1>5. /\ evaluator[c].step = "early" => Case(c).outcome.run # "failed"
      /\ evaluator[c].step = "decide" => Choosable(Work(c))
  BY <1>1 DEF DecidesOnly
<1>6. QED BY <1>2, <1>3, <1>4, <1>5 DEF Moves, Gone

LEMMA ConfigureFaultMoves ==
    ASSUME EarnedInv, NEW c \in Callers, NEW f, ConfigureFault(c, f)
    PROVE  Moves(c)
<1>1. evaluator[c].step = "configure" /\ UNCHANGED <<evaluation, result>>
  BY DEF ConfigureFault, At
<1>2. CASE evaluator' = [evaluator EXCEPT ![c].todo = evaluator[c].todo \ {f}]
  BY <1>1, <1>2, TodoMoves
<1>3. CASE Go(c, "error")
  BY <1>1, <1>3, GoMoves DEF Gone
<1>4. QED BY <1>2, <1>3 DEF ConfigureFault

LEMMA ConfiguredMoves ==
    ASSUME EarnedInv, NEW c \in Callers, Configured(c)
    PROVE  Moves(c)
BY GoMoves DEF Configured, At, Gone

LEMMA DriveCaseMoves ==
    ASSUME EarnedInv, NEW c \in Callers, DriveCase(c)
    PROVE  Moves(c)
<1> DEFINE attempts == Driver(c).attempts
           early == {i \in DOMAIN attempts : attempts[i].timing = "before_request"}
<1>1. evaluator[c].step = "drive" /\ UNCHANGED <<evaluation, result>>
  BY DEF DriveCase, At
<1>2. CASE Go(c, "await")
  BY <1>1, <1>2, GoMoves DEF Gone
<1>3. CASE /\ Case(c).outcome.run # "failed"
           /\ evaluator' = [evaluator EXCEPT ![c].step = "early", ![c].todo = early]
  <2> HIDE DEF early
  <2>1. Shape /\ EvaluatorsApart
    BY DEF EarnedInv
  <2>2. Steps(c) /\ evaluator'[c].step = "early" /\ evaluator'[c].case = evaluator[c].case
    BY <1>3, <2>1 DEF Shape, Steps, EvaluatorFields
  <2>3. evaluator[c].case \in DOMAIN evaluator[c].suite
    BY <1>1, <2>1 DEF EvaluatorsApart, Gone
  <2>4. OnlyResult(c)
    BY <1>1, <2>1 DEF Shape, OnlyResult
  <2>5. QED BY <1>1, <1>3, <2>2, <2>3, <2>4 DEF Moves, Gone
<1>4. QED BY <1>2, <1>3 DEF DriveCase

LEMMA ProbeMoves ==
    ASSUME EarnedInv, NEW c \in Callers, Probe(c)
    PROVE  Moves(c)
<1>1. evaluator[c].step = "early" /\ UNCHANGED <<evaluation, result>>
  BY DEF Probe, At
<1>2. Go(c, "error") \/ Go(c, "approval")
  BY DEF Probe
<1>3. Case(c).outcome.run # "failed"
  BY <1>1 DEF EarnedInv, DecidesOnly
<1>4. QED BY <1>1, <1>2, <1>3, GoMoves DEF Gone

LEMMA SeeApprovalMoves ==
    ASSUME EarnedInv, NEW c \in Callers, SeeApproval(c)
    PROVE  Moves(c)
<1>1. evaluator[c].step = "approval" /\ UNCHANGED <<evaluation, result>> /\ Go(c, "phase")
  BY DEF SeeApproval, At
<1>2. Case(c).outcome.run # "failed"
  BY <1>1 DEF EarnedInv, DecidesOnly
<1>3. QED BY <1>1, <1>2, GoMoves DEF Gone

LEMMA SeePhaseMovesTo ==
    ASSUME EarnedInv, NEW c \in Callers, SeePhase(c)
    PROVE  Moves(c)
<1> DEFINE attempts == Driver(c).attempts
           rest == {i \in DOMAIN attempts :
                       attempts[i].timing # "before_request" /\ attempts[i].authorized}
<1>1. Shape /\ EvaluatorsApart
  BY DEF EarnedInv
<1>2. /\ evaluator[c].step = "phase"
      /\ UNCHANGED <<evaluation, result>>
      /\ evaluator' = [evaluator EXCEPT
            ![c].step = IF Driver(c).cancels # "none" THEN "await" ELSE "decide",
            ![c].todo = rest]
  BY DEF SeePhase, At
<1> HIDE DEF rest
<1>3. /\ Steps(c)
      /\ evaluator'[c].step = IF Driver(c).cancels # "none" THEN "await" ELSE "decide"
      /\ evaluator'[c].case = evaluator[c].case
  BY <1>1, <1>2 DEF Shape, Steps, EvaluatorFields
<1>4. OnlyResult(c)
  BY <1>1, <1>2 DEF Shape, OnlyResult
<1>5. /\ evaluator[c].case \in DOMAIN evaluator[c].suite
      /\ Requested(Work(c))
      /\ Contract(Work(c)) = Case(c)
  BY <1>1, <1>2, WorkOfCase DEF Gone
<1>6. Case(c).outcome.run # "failed"
  BY <1>2 DEF EarnedInv, DecidesOnly
<1>7. Driver(c).cancels = "none" => Choosable(Work(c))
  BY <1>5, <1>6 DEF Choosable, Driver
<1>8. QED BY <1>2, <1>3, <1>4, <1>5, <1>7 DEF Moves, Gone

LEMMA SendMoves ==
    ASSUME EarnedInv, NEW c \in Callers, Send(c)
    PROVE  Moves(c)
<1>1. Shape
  BY DEF EarnedInv
<1>2. evaluator' = [evaluator EXCEPT ![c].sent = TRUE, ![c].todo = evaluator[c].todo]
  BY <1>1 DEF Send, Shape, EvaluatorFields
<1>3. evaluator[c].step \in {"early", "decide"} /\ UNCHANGED <<evaluation, result>>
  BY DEF Send
<1>4. QED BY <1>2, <1>3, CallMoves

LEMMA ReturnMoves ==
    ASSUME EarnedInv, NEW c \in Callers, Answer(c) \/ CallFails(c)
    PROVE  Moves(c)
<1>1. evaluator[c].step \in {"early", "decide"} /\ UNCHANGED <<evaluation, result>>
  BY DEF Answer, Accept, Refuse, CallFails, Pending
<1>2. PICK over : Returned(c, over)
  BY DEF Answer, Accept, Refuse, CallFails
<1>3. QED BY <1>1, <1>2, CallMoves DEF Returned

LEMMA DecidedMoves ==
    ASSUME EarnedInv, NEW c \in Callers, Decided(c) \/ GiveUp(c)
    PROVE  Moves(c)
BY GoMoves DEF Decided, GiveUp, Waiting, Required, At, Gone

\* A case that is driven to its status has its decision, or gets none.
LEMMA SeeStatusMoves ==
    ASSUME EarnedInv, NEW c \in Callers, SeeStatus(c)
    PROVE  Moves(c)
<1>1. /\ evaluator[c].step = "await"
      /\ db[Work(c)].run = Awaited(Case(c))
      /\ Go(c, "collect")
      /\ UNCHANGED <<evaluation, result>>
  BY DEF SeeStatus, At
<1>2. /\ Work(c) \in Works
      /\ Requested(Work(c))
      /\ Contract(Work(c)) = Case(c)
  BY <1>1, WorkOfCase DEF EarnedInv, Gone
<1>3. ASSUME Choosable(Work(c)) PROVE db[Work(c)].decided = 1
  <2>1. Case(c).outcome.run # "failed" /\ Case(c).driver.cancels = "none"
    BY <1>2, <1>3 DEF Choosable
  <2>2. db[Work(c)].run \in {"SUCCEEDED", "REJECTED"}
    BY <1>1, <2>1 DEF Awaited
  <2>3. QED BY <1>2, <2>2 DEF EarnedInv, DecidesOnly
<1>4. Final(Work(c))
  BY <1>2, <1>3 DEF Final
<1>5. QED BY <1>1, <1>4, GoMoves DEF Gone

LEMMA CollectMoves ==
    ASSUME EarnedInv, NEW c \in Callers, Collect(c)
    PROVE  Moves(c)
<1>1. Shape /\ EvaluatorsApart /\ FaultIInv
  BY DEF EarnedInv
<1>2. /\ evaluator[c].step = "collect"
      /\ UNCHANGED <<evaluation, result>>
      /\ evaluator' = [evaluator EXCEPT ![c].step = "persist", ![c].evidence = Evidence(Work(c))]
  BY DEF Collect, At
<1>3. /\ Steps(c)
      /\ evaluator'[c].step = "persist"
      /\ evaluator'[c].case = evaluator[c].case
      /\ evaluator'[c].evidence = Evidence(Work(c))
  BY <1>1, <1>2 DEF Shape, Steps, EvaluatorFields
<1>4. OnlyResult(c)
  BY <1>1, <1>2 DEF Shape, OnlyResult
<1>5. evaluator[c].case \in DOMAIN evaluator[c].suite /\ Work(c) \in Works
  BY <1>1, <1>2, WorkOfCase DEF Gone
<1>6. SumOf(Work(c)) \in Nat
  BY <1>1, <1>5, SumIsNat
<1>7. Final(Work(c))
  BY <1>2 DEF EarnedInv, EvidenceHolds
<1>8. Holds(Work(c), Evidence(Work(c)))
  BY <1>6, <1>7 DEF Holds, Evidence
<1>9. QED BY <1>2, <1>3, <1>4, <1>5, <1>8 DEF Moves, Gone

LEMMA PersistMoves ==
    ASSUME EarnedInv, NEW c \in Callers, Persist(c)
    PROVE  Moves(c) \/ Advances(c)
<1> DEFINE e == evaluator[c].evidence
           passes == Mismatches(Case(c).outcome, e) = {}
           new == Result(IF passes THEN "PASSED" ELSE "FAILED", e)
<1>1. Shape /\ EvaluatorsApart
  BY DEF EarnedInv
<1>2. /\ evaluator[c].step = "persist"
      /\ UNCHANGED evaluation
      /\ result' = [result EXCEPT ![Work(c)] = new]
  BY DEF Persist, At
<1>3. Work(c) \in Works /\ evaluator[c].case \in DOMAIN evaluator[c].suite
  BY <1>1, <1>2, WorkOfCase DEF Gone
<1>4. Holds(Work(c), e)
  BY <1>2 DEF EarnedInv, EvidenceHolds
<1>5. new.evidence = e /\ (passes => new.status = "PASSED")
  BY DEF Result
<1>6. OnlyResult(c) /\ result'[Work(c)] = new
  <2> HIDE DEF new
  <2>1. QED BY <1>1, <1>2, <1>3, ResultSet
<1>7. CASE Advance(c, passes)
  <2> HIDE DEF new, passes
  <2>1. Steps(c) /\ evaluator'[c].step = "case" /\ evaluator'[c].case = evaluator[c].case + 1
        /\ (evaluator'[c].passed => passes)
    BY <1>1, <1>7, AdvanceSteps
  <2>2. passes => /\ result'[Work(c)].status = "PASSED"
                  /\ result'[Work(c)].evidence = e
                  /\ Mismatches(Case(c).outcome, e) = {}
    BY <1>5, <1>6 DEF passes
  <2>3. QED BY <1>2, <1>3, <1>4, <1>6, <2>1, <2>2 DEF Advances, Gone
<1>8. CASE Go(c, "error")
  <2> HIDE DEF new, passes, e
  <2>1. Steps(c) /\ evaluator'[c].step = "error" /\ evaluator'[c].case = evaluator[c].case
    BY <1>1, <1>8, GoSteps
  <2>2. QED BY <1>2, <1>3, <1>6, <2>1 DEF Moves, Gone
<1>9. QED BY <1>7, <1>8 DEF Persist

LEMMA RecordErrorMoves ==
    ASSUME EarnedInv, NEW c \in Callers, RecordError(c)
    PROVE  Moves(c) \/ Advances(c)
<1>1. Shape /\ EvaluatorsApart
  BY DEF EarnedInv
<1>2. evaluator[c].step = "error" /\ UNCHANGED evaluation
  BY DEF RecordError, At
<1>3. evaluator[c].case \in DOMAIN evaluator[c].suite
  BY <1>1, <1>2, WorkOfCase DEF Gone
<1>4. CASE Go(c, "aborted") /\ UNCHANGED result
  BY <1>2, <1>4, GoMoves DEF Gone
<1>5. CASE result' = [result EXCEPT ![Work(c)] = Result("ERROR", None)] /\ Advance(c, FALSE)
  BY <1>1, <1>2, <1>3, <1>5, AdvanceSteps, ResultSet DEF Advances, Gone
<1>6. QED BY <1>4, <1>5 DEF RecordError

LEMMA CompleteMoves ==
    ASSUME EarnedInv, NEW c \in Callers, Complete(c)
    PROVE  Completes(c)
<1>1. Go(c, "done")
  BY DEF Complete
<1>2. Steps(c) /\ evaluator'[c].step = "done" /\ evaluator'[c].case = evaluator[c].case
  BY <1>1, GoSteps DEF EarnedInv
<1>3. QED BY <1>2 DEF Complete, Completes, At

LEMMA DieMoves ==
    ASSUME EarnedInv, NEW c \in Callers, Die(c)
    PROVE  Moves(c)
BY GoMoves DEF Die, Gone

\* What the caller of a start goes on with.
LEMMA StartByMoves ==
    ASSUME EarnedInv, NEW h \in Callers \cup {Recovery}, NEW w \in Works, StartBy(h, w)
    PROVE  HarnessMoves
<1>1. UNCHANGED <<evaluation, result>>
  BY DEF StartBy, Claim, StartWorkflow, FinishStart, harness
<1>2. CASE UNCHANGED evaluator
  BY <1>1, <1>2 DEF HarnessMoves, Rests, harness
<1>3. CASE h \notin Callers
  BY <1>2, <1>3 DEF StartBy, Claim, StartWorkflow, FinishStart, MarkStarted, Started, Unavailable, harness
<1>4. CASE h \in Callers /\ ~UNCHANGED evaluator
  <2>1. evaluator[h].step = "start"
    <3>1. CASE Claim(h, w)
      BY <1>4, <3>1 DEF Claim, Starting, At
    <3>2. CASE start[w].holder = h
      BY <1>4, <3>2 DEF EarnedInv, LeasesAreHeld
    <3>3. QED BY <3>1, <3>2 DEF StartBy, StartWorkflow, FinishStart
  <2>2. \/ Go(h, "drive")
        \/ evaluator' = [evaluator EXCEPT
              ![h].step = IF evaluator[h].retried THEN "error" ELSE "start", ![h].retried = TRUE]
    BY <1>4 DEF StartBy, Claim, StartWorkflow, FinishStart, MarkStarted, Started, Unavailable, harness
  <2>3. CASE Go(h, "drive")
    <3>1. Moves(h)
      BY <1>1, <1>4, <2>1, <2>3, GoMoves DEF Gone
    <3>2. QED BY <1>4, <3>1 DEF HarnessMoves
  <2>4. CASE evaluator' = [evaluator EXCEPT
                ![h].step = IF evaluator[h].retried THEN "error" ELSE "start", ![h].retried = TRUE]
    <3>1. Shape /\ EvaluatorsApart
      BY DEF EarnedInv
    <3>2. /\ Steps(h)
          /\ evaluator'[h].step \in {"error", "start"}
          /\ evaluator'[h].case = evaluator[h].case
      BY <1>4, <2>4, <3>1 DEF Shape, Steps, EvaluatorFields
    <3>3. OnlyResult(h)
      BY <1>1, <3>1 DEF Shape, OnlyResult
    <3>4. evaluator[h].case \in DOMAIN evaluator[h].suite
      BY <1>4, <2>1, <3>1, WorkOfCase DEF Gone
    <3>5. Moves(h)
      BY <1>1, <2>1, <3>2, <3>3, <3>4 DEF Moves, Gone
    <3>6. QED BY <1>4, <3>5 DEF HarnessMoves
  <2>5. QED BY <2>2, <2>3, <2>4
<1>5. QED BY <1>2, <1>3, <1>4

LEMMA HarnessStep ==
    ASSUME EarnedInv, [Next]_vars
    PROVE  HarnessMoves
<1>1. CASE UNCHANGED harness
  BY <1>1 DEF HarnessMoves, Rests
<1>2. ASSUME NEW c \in Callers, Evaluate(c) PROVE HarnessMoves
  <2>1. Moves(c) \/ Advances(c) \/ Completes(c) \/ Rests
    BY <1>2, InvalidCaseMoves, CreateIntentMoves, ConfigureFaultMoves, ConfiguredMoves,
       DriveCaseMoves, SendMoves, ProbeMoves, SeeApprovalMoves, SeePhaseMovesTo, DecidedMoves,
       SeeStatusMoves, CollectMoves, PersistMoves, RecordErrorMoves, CompleteMoves DEF Evaluate
  <2>2. QED BY <2>1 DEF HarnessMoves
<1>3. ASSUME NEW c \in Callers, Answer(c) \/ CallFails(c) \/ GiveUp(c) \/ Die(c)
      PROVE  HarnessMoves
  BY <1>3, ReturnMoves, DecidedMoves, DieMoves DEF HarnessMoves
<1>4. ASSUME NEW c \in Callers, NEW u \in Suites, Request(c, u) PROVE HarnessMoves
  BY <1>4, RequestMoves
<1>5. ASSUME NEW h \in Callers \cup {Recovery}, NEW w \in Works, StartBy(h, w) PROVE HarnessMoves
  BY <1>5, StartByMoves
<1>6. ASSUME NEW w \in Works, RecoveryDies(w) \/ TimeOut(w) \/ \E s \in Slots : Schedule(w, s)
      PROVE  UNCHANGED harness
  BY <1>6 DEF RecoveryDies, TimeOut, Schedule
<1>7. ASSUME NEW s \in Slots, Activity(s) \/ Drop(s) PROVE UNCHANGED harness
  BY <1>7 DEF Activity, Reach, Hit, CommitBegin, CommitAssess, CommitAsk, CommitCancel,
             CommitRecord, Report, Drop
<1>8. ASSUME NEW p \in OperatorPlans, Operator(p) PROVE UNCHANGED harness
  BY <1>8 DEF Operator
<1>9. CASE UNCHANGED vars
  BY <1>1, <1>9 DEF vars
<1>10. QED BY <1>1, <1>2, <1>3, <1>4, <1>5, <1>6, <1>7, <1>8, <1>9 DEF Next

-----------------------------------------------------------------------------
(***************************************************************************)
(* The leases.                                                             *)
(***************************************************************************)
StartFields == {"status", "holder", "accepted", "attempts"}

StartMoves ==
    /\ DOMAIN start' = Works
    /\ \A w \in Works : DOMAIN start'[w] = StartFields
    /\ LeasesAreHeld'

\* An evaluator that does not leave "start" keeps its leases; one that does has none.
LeaseKept(c) ==
    evaluator[c].step = "start" => /\ evaluator'[c].step = "start"
                                   /\ evaluator'[c].case = evaluator[c].case

LEMMA StartKept ==
    ASSUME EarnedInv, UNCHANGED start, NEW h,
           \A w \in Works : start[w].holder # h,
           \A c \in Callers \ {h} : LeaseKept(c)
    PROVE  StartMoves
<1>1. Shape /\ LeasesAreHeld
  BY DEF EarnedInv
<1>2. DOMAIN start' = Works /\ \A w \in Works : DOMAIN start'[w] = StartFields
  BY <1>1 DEF Shape, StartFields
<1>3. ASSUME NEW w \in Works, NEW c \in Callers, start'[w].holder = c
      PROVE  evaluator'[c].step = "start" /\ w = <<KeyOf[c], evaluator'[c].case>>
  BY <1>1, <1>3 DEF LeasesAreHeld, LeaseKept, Work
<1>4. QED BY <1>2, <1>3 DEF StartMoves, LeasesAreHeld, Work

\* The row of w changes, and then holder has the lease on it.
LEMMA StartUpdated ==
    ASSUME EarnedInv, NEW w \in Works, NEW new, NEW h, start' = [start EXCEPT ![w] = new],
           DOMAIN new = StartFields,
           \A c \in Callers : new.holder = c => evaluator'[c].step = "start"
                                                /\ w = <<KeyOf[c], evaluator'[c].case>>,
           \A c \in Callers \ {h} : LeaseKept(c),
           h \in Callers /\ ~LeaseKept(h) => w = Work(h) /\ evaluator[h].step = "start"
    PROVE  StartMoves
<1>1. Shape /\ LeasesAreHeld
  BY DEF EarnedInv
<1>2. /\ \A v \in Works \ {w} : start'[v] = start[v]
      /\ start'[w] = new
      /\ DOMAIN start' = Works
  BY <1>1 DEF Shape
<1>3. ASSUME NEW v \in Works, NEW c \in Callers, start'[v].holder = c
      PROVE  evaluator'[c].step = "start" /\ v = <<KeyOf[c], evaluator'[c].case>>
  <2>1. CASE v = w
    BY <1>2, <1>3, <2>1
  <2>2. CASE v # w
    <3>1. evaluator[c].step = "start" /\ v = Work(c)
      BY <1>1, <1>2, <1>3, <2>2 DEF LeasesAreHeld
    <3>2. LeaseKept(c)
      BY <2>2, <3>1
    <3>3. QED BY <3>1, <3>2 DEF LeaseKept, Work
  <2>3. QED BY <2>1, <2>2
<1>4. QED BY <1>1, <1>2, <1>3 DEF StartMoves, LeasesAreHeld, Work, Shape, StartFields

LEMMA SameEvaluators ==
    ASSUME UNCHANGED evaluator
    PROVE  \A c \in Callers : LeaseKept(c)
BY DEF LeaseKept

LEMMA OthersKeep ==
    ASSUME NEW c \in Callers, Shape,
           Go(c, "drive") \/ Unavailable(c) \/ Go(c, "dead")
    PROVE  \A d \in Callers \ {c} : LeaseKept(d)
BY DEF LeaseKept, Go, Unavailable, Shape

\* At any other step an evaluator holds nothing.
LEMMA NoLease ==
    ASSUME EarnedInv, NEW c \in Callers, evaluator[c].step # "start", UNCHANGED start,
           \A d \in Callers \ {c} : evaluator'[d] = evaluator[d]
    PROVE  StartMoves
<1>1. \A w \in Works : start[w].holder # c
  BY DEF EarnedInv, LeasesAreHeld
<1>2. \A d \in Callers \ {c} : LeaseKept(d)
  BY DEF LeaseKept
<1>3. QED BY <1>1, <1>2, StartKept

LEMMA ClaimLease ==
    ASSUME EarnedInv, NEW h \in Callers \cup {Recovery}, NEW w \in Works, Claim(h, w)
    PROVE  StartMoves
<1>1. Shape /\ LeasesAreHeld
  BY DEF EarnedInv
<1>2. CASE h \in Callers /\ Go(h, "drive") /\ UNCHANGED start
  <2>1. evaluator[h].step = "start" /\ w = Work(h) /\ start[w].holder # h
    BY <1>2 DEF Claim, Starting, At
  <2>2. \A v \in Works : start[v].holder # h
    BY <1>1, <1>2, <2>1 DEF LeasesAreHeld
  <2>3. QED BY <1>1, <1>2, <2>2, OthersKeep, StartKept
<1>3. CASE /\ start' = [start EXCEPT ![w].status = "pending", ![w].holder = h,
                                     ![w].accepted = FALSE, ![w].attempts = @ + 1]
           /\ UNCHANGED evaluator
  <2> DEFINE new == [start[w] EXCEPT !.status = "pending", !.holder = h,
                                     !.accepted = FALSE, !.attempts = @ + 1]
  <2>1. start' = [start EXCEPT ![w] = new]
    BY <1>3
  <2>2. DOMAIN new = StartFields /\ new.holder = h
    BY <1>1 DEF Shape, StartFields
  <2>3. h \in Callers => evaluator[h].step = "start" /\ w = Work(h)
    BY DEF Claim, Starting, At
  <2> HIDE DEF new
  <2>4. \A c \in Callers : LeaseKept(c)
    BY <1>3, SameEvaluators
  <2>5. \A c \in Callers : new.holder = c => evaluator'[c].step = "start"
                                             /\ w = <<KeyOf[c], evaluator'[c].case>>
    BY <1>3, <2>2, <2>3 DEF Work
  <2>6. QED BY <2>1, <2>2, <2>4, <2>5, StartUpdated
<1>4. QED BY <1>2, <1>3 DEF Claim

\* The lease is given up, by its holder.
LEMMA ReleaseLease ==
    ASSUME EarnedInv, NEW h \in Callers \cup {Recovery}, NEW w \in Works, NEW status,
           start[w].holder = h,
           start' = [start EXCEPT ![w].status = status, ![w].holder = None],
           Started(h) \/ Unavailable(h)
    PROVE  StartMoves
<1>1. Shape /\ LeasesAreHeld
  BY DEF EarnedInv
<1> DEFINE new == [start[w] EXCEPT !.status = status, !.holder = None]
<1>2. start' = [start EXCEPT ![w] = new]
  OBVIOUS
<1>3. DOMAIN new = StartFields /\ new.holder = None
  BY <1>1 DEF Shape, StartFields
<1> HIDE DEF new
<1>4. None \notin Callers
  BY EvaluationAssumption
<1>5. h \in Callers => evaluator[h].step = "start" /\ w = Work(h)
  BY <1>1 DEF LeasesAreHeld
<1>6. \A c \in Callers \ {h} : LeaseKept(c)
  <2>1. CASE h \in Callers
    BY <1>1, <2>1, OthersKeep DEF Started
  <2>2. CASE h \notin Callers
    <3>1. (Started(h) => UNCHANGED evaluator) /\ (Unavailable(h) => UNCHANGED evaluator)
      BY <2>2, SMT DEF Started, Unavailable
    <3>2. QED BY <3>1, SameEvaluators
  <2>3. QED BY <2>1, <2>2
<1>7. \A c \in Callers : new.holder = c => evaluator'[c].step = "start"
                                           /\ w = <<KeyOf[c], evaluator'[c].case>>
  BY <1>3, <1>4
<1>8. h \in Callers /\ ~LeaseKept(h) => w = Work(h) /\ evaluator[h].step = "start"
  BY <1>5
<1>9. DOMAIN new = StartFields
  BY <1>3
<1>10. QED BY <1>2, <1>6, <1>7, <1>8, <1>9, StartUpdated, ZenonT(60)

LEMMA StartWorkflowLease ==
    ASSUME EarnedInv, NEW h \in Callers \cup {Recovery}, NEW w \in Works, StartWorkflow(h, w)
    PROVE  StartMoves
<1>1. CASE start' = [start EXCEPT ![w].accepted = TRUE] /\ UNCHANGED evaluator
  <2> DEFINE new == [start[w] EXCEPT !.accepted = TRUE]
  <2>1. start' = [start EXCEPT ![w] = new]
    BY <1>1
  <2>2. DOMAIN new = StartFields /\ new.holder = start[w].holder
    BY DEF EarnedInv, Shape, StartFields
  <2> HIDE DEF new
  <2>3. \A c \in Callers : LeaseKept(c)
    BY <1>1, SameEvaluators
  <2>4. ASSUME NEW c \in Callers, new.holder = c
        PROVE  evaluator'[c].step = "start" /\ w = <<KeyOf[c], evaluator'[c].case>>
    <3>1. evaluator[c].step = "start" /\ w = Work(c)
      BY <2>2, <2>4 DEF EarnedInv, LeasesAreHeld
    <3>2. QED BY <1>1, <3>1 DEF Work
  <2>5. QED BY <2>1, <2>2, <2>3, <2>4, StartUpdated
<1>2. CASE MarkStarted(h, w)
  BY <1>2, ReleaseLease DEF StartWorkflow, MarkStarted
<1>3. QED BY <1>1, <1>2 DEF StartWorkflow

LEMMA FinishStartLease ==
    ASSUME EarnedInv, NEW h \in Callers \cup {Recovery}, NEW w \in Works, FinishStart(h, w)
    PROVE  StartMoves
<1>1. CASE UNCHANGED <<start, evaluator>>
  <2>1. None \notin Callers
    BY EvaluationAssumption
  <2>2. QED BY <1>1 DEF EarnedInv, Shape, LeasesAreHeld, StartMoves, StartFields, Work
<1>2. CASE MarkStarted(h, w)
  BY <1>2, ReleaseLease DEF FinishStart, MarkStarted
<1>3. CASE start' = [start EXCEPT ![w].status = "failed", ![w].holder = None] /\ Unavailable(h)
  BY <1>3, ReleaseLease DEF FinishStart
<1>4. QED BY <1>1, <1>2, <1>3 DEF FinishStart

LEMMA CreateIntentLease ==
    ASSUME EarnedInv, NEW c \in Callers, CreateIntent(c)
    PROVE  StartMoves
<1>1. Shape /\ LeasesAreHeld /\ EvaluatorsApart
  BY DEF EarnedInv
<1>2. /\ evaluator[c].step = "case"
      /\ start' = [start EXCEPT ![Work(c)].status = "pending"]
      /\ \A d \in Callers \ {c} : evaluator'[d] = evaluator[d]
  BY <1>1 DEF CreateIntent, At, Shape
<1>3. /\ DOMAIN start' = Works
      /\ \A w \in Works : DOMAIN start'[w] = StartFields /\ start'[w].holder = start[w].holder
  <2> DEFINE v == Work(c)
  <2>1. start' = [start EXCEPT ![v].status = "pending"]
    BY <1>2
  <2> HIDE DEF v
  <2>2. QED BY <1>1, <2>1 DEF Shape, StartFields
<1>4. ASSUME NEW w \in Works, NEW d \in Callers, start'[w].holder = d
      PROVE  evaluator'[d].step = "start" /\ w = <<KeyOf[d], evaluator'[d].case>>
  BY <1>1, <1>2, <1>3, <1>4 DEF LeasesAreHeld, Work
<1>5. QED BY <1>3, <1>4 DEF StartMoves, LeasesAreHeld, Work

LEMMA DieLease ==
    ASSUME EarnedInv, NEW c \in Callers, Die(c)
    PROVE  StartMoves
<1>1. Shape /\ LeasesAreHeld
  BY DEF EarnedInv
<1>2. /\ start' = [w \in Works |-> IF start[w].holder = c THEN [start[w] EXCEPT !.holder = None]
                                   ELSE start[w]]
      /\ \A d \in Callers \ {c} : evaluator'[d] = evaluator[d]
  BY <1>1 DEF Die, Go, Shape
<1>3. \A w \in Works : DOMAIN [start[w] EXCEPT !.holder = None] = StartFields
                       /\ [start[w] EXCEPT !.holder = None].holder = None
  BY <1>1 DEF Shape, StartFields
<1>4. None \notin Callers
  BY EvaluationAssumption
<1>5. \A w \in Works : /\ DOMAIN start'[w] = StartFields
                       /\ start'[w].holder # c
                       /\ \A d \in Callers : start'[w].holder = d => start[w].holder = d
  BY <1>1, <1>2, <1>3, <1>4 DEF Shape, StartFields
<1>6. DOMAIN start' = Works
  BY <1>2
<1>7. ASSUME NEW w \in Works, NEW d \in Callers, start'[w].holder = d
      PROVE  evaluator'[d].step = "start" /\ w = <<KeyOf[d], evaluator'[d].case>>
  BY <1>1, <1>2, <1>5, <1>7 DEF LeasesAreHeld, Work
<1>8. QED BY <1>5, <1>6, <1>7 DEF StartMoves, LeasesAreHeld, Work

LEMMA RecoveryDiesLease ==
    ASSUME EarnedInv, NEW w \in Works, RecoveryDies(w)
    PROVE  StartMoves
<1>1. Shape /\ LeasesAreHeld
  BY DEF EarnedInv
<1> DEFINE new == [start[w] EXCEPT !.holder = None]
<1>2. start' = [start EXCEPT ![w] = new] /\ UNCHANGED evaluator
  BY DEF RecoveryDies, harness
<1>3. DOMAIN new = StartFields /\ new.holder = None
  BY <1>1 DEF Shape, StartFields
<1> HIDE DEF new
<1>4. None \notin Callers
  BY EvaluationAssumption
<1>5. \A c \in Callers : LeaseKept(c)
  BY <1>2, SameEvaluators
<1>6. QED BY <1>2, <1>3, <1>4, <1>5, StartUpdated

LEMMA StartStep ==
    ASSUME EarnedInv, [Next]_vars
    PROVE  StartMoves
<1>1. CASE UNCHANGED <<start, evaluator>>
  BY <1>1 DEF EarnedInv, Shape, LeasesAreHeld, StartMoves, StartFields, Work
<1>2. ASSUME NEW c \in Callers, Evaluate(c) \/ Answer(c) \/ CallFails(c) \/ GiveUp(c)
      PROVE  StartMoves
  <2>1. CASE CreateIntent(c)
    BY <2>1, CreateIntentLease
  <2>2. CASE ~CreateIntent(c)
    <3>1. UNCHANGED start /\ evaluator[c].step # "start"
      BY <1>2, <2>2
      DEF Evaluate, InvalidCase, ConfigureFault, Configured, DriveCase, Send, Probe, SeeApproval,
          SeePhase, Decided, SeeStatus, Collect, Persist, RecordError, Complete, Answer, Accept,
          Refuse, CallFails, Pending, GiveUp, Waiting, At
    <3>2. \A d \in Callers \ {c} : evaluator'[d] = evaluator[d]
      BY <1>2, <2>2
      DEF EarnedInv, Shape, Evaluate, InvalidCase, ConfigureFault, Configured, DriveCase, Send,
          Probe, SeeApproval, SeePhase, Decided, SeeStatus, Collect, Persist, RecordError, Complete,
          Answer, Accept, Refuse, CallFails, Returned, GiveUp, Go, Advance
    <3>3. QED BY <3>1, <3>2, NoLease
  <2>3. QED BY <2>1, <2>2
<1>3. ASSUME NEW c \in Callers, Die(c) PROVE StartMoves
  BY <1>3, DieLease
<1>4. ASSUME NEW c \in Callers, NEW u \in Suites, Request(c, u) PROVE StartMoves
  <2>1. UNCHANGED start /\ evaluator[c].step # "start"
    BY <1>4 DEF Request, Gone
  <2>2. \A d \in Callers \ {c} : evaluator'[d] = evaluator[d]
    BY <1>4 DEF Request, Go, EarnedInv, Shape
  <2>3. QED BY <2>1, <2>2, NoLease
<1>5. ASSUME NEW h \in Callers \cup {Recovery}, NEW w \in Works, StartBy(h, w) PROVE StartMoves
  BY <1>5, ClaimLease, StartWorkflowLease, FinishStartLease DEF StartBy
<1>6. ASSUME NEW w \in Works, RecoveryDies(w) PROVE StartMoves
  BY <1>6, RecoveryDiesLease
<1>7. ASSUME NEW w \in Works, TimeOut(w) \/ \E s \in Slots : Schedule(w, s)
      PROVE  UNCHANGED <<start, evaluator>>
  BY <1>7 DEF TimeOut, Schedule, harness
<1>8. ASSUME NEW s \in Slots, Activity(s) \/ Drop(s) PROVE UNCHANGED <<start, evaluator>>
  BY <1>8 DEF Activity, Reach, Hit, CommitBegin, CommitAssess, CommitAsk, CommitCancel,
             CommitRecord, Report, Drop, harness
<1>9. ASSUME NEW p \in OperatorPlans, Operator(p) PROVE UNCHANGED <<start, evaluator>>
  BY <1>9 DEF Operator, harness
<1>10. CASE UNCHANGED vars
  BY <1>1, <1>10 DEF vars, harness
<1>11. QED
  BY <1>1, <1>2, <1>3, <1>4, <1>5, <1>6, <1>7, <1>8, <1>9, <1>10 DEF Next

-----------------------------------------------------------------------------
(***************************************************************************)
(* What stays as it is.                                                    *)
(***************************************************************************)
\* What is known of a step, whichever it is.
Stepped ==
    /\ HarnessMoves
    /\ StartMoves
    /\ DbMoves
    /\ WorkflowMoves
    /\ AttemptMoves
    /\ FaultMoves

LEMMA NextSteps ==
    ASSUME EarnedInv, [Next]_vars
    PROVE  Stepped
<1>1. HarnessMoves /\ StartMoves
  BY HarnessStep, StartStep
<1>2. DbMoves
  BY DbStep DEF EarnedInv
<1>3. WorkflowMoves /\ AttemptMoves
  BY WorkerStep DEF EarnedInv, WorkerInv
<1>4. FaultMoves
  BY FaultStep DEF EarnedInv
<1>5. QED BY <1>1, <1>2, <1>3, <1>4 DEF Stepped

\* An execution keeps its suite.
LEMMA SuitesStay ==
    ASSUME EarnedInv, HarnessMoves
    PROVE  \A k \in Keys : evaluation[k].status # "none" =>
              evaluation'[k].status # "none" /\ evaluation'[k].suite = evaluation[k].suite
<1> SUFFICES ASSUME NEW k \in Keys, evaluation[k].status # "none"
             PROVE  evaluation'[k].status # "none" /\ evaluation'[k].suite = evaluation[k].suite
  OBVIOUS
<1>1. Shape
  BY DEF EarnedInv
<1>2. CASE UNCHANGED evaluation
  BY <1>2
<1>3. ASSUME NEW c \in Callers, Begins(c)
      PROVE  evaluation'[k] = evaluation[k]
  BY <1>1, <1>3 DEF Begins, Shape
<1>4. ASSUME NEW c \in Callers, Completes(c)
      PROVE  evaluation'[k].status # "none" /\ evaluation'[k].suite = evaluation[k].suite
  BY <1>1, <1>4 DEF Completes, Shape
<1>5. QED BY <1>2, <1>3, <1>4 DEF HarnessMoves, Rests, Denied, Moves, Advances, harness

LEMMA ContractsStay ==
    ASSUME EarnedInv, HarnessMoves
    PROVE  \A w \in Works : Requested(w) => Requested(w)' /\ Contract(w)' = Contract(w)
<1>1. \A w \in Works : w[1] \in Keys
  BY DEF Works
<1>2. QED BY <1>1, SuitesStay DEF Requested, Contract

LEMMA ChoosableStays ==
    ASSUME EarnedInv, HarnessMoves
    PROVE  \A w \in Works : Requested(w) => (Choosable(w)' <=> Choosable(w))
BY ContractsStay DEF Choosable

\* Once final, the effects of a decision are what they will be.
LEMMA FinalStays ==
    ASSUME EarnedInv, Stepped
    PROVE  \A w \in Works : Final(w) =>
              /\ Final(w)'
              /\ db'[w].decided = db[w].decided
              /\ db'[w].listed = db[w].listed
              /\ db'[w].emails = db[w].emails
<1> SUFFICES ASSUME NEW w \in Works, Final(w)
             PROVE  /\ Final(w)'
                    /\ db'[w].decided = db[w].decided
                    /\ db'[w].listed = db[w].listed
                    /\ db'[w].emails = db[w].emails
  OBVIOUS
<1>1. HarnessMoves /\ DbMoves
  BY DEF Stepped
<1>2. Requested(w) /\ Requested(w)' /\ (Choosable(w)' <=> Choosable(w))
  BY <1>1, ContractsStay, ChoosableStays DEF Final
<1>3. ~(Decides(db[w], db'[w]) /\ Choosable(w))
  BY DEF Final, Decides
<1>4. SameEffects(db[w], db'[w])
  BY <1>1, <1>3 DEF DbMoves
<1>5. QED BY <1>2, <1>4 DEF SameEffects, Final

\* So is evidence that was taken of them.
LEMMA HoldsStays ==
    ASSUME EarnedInv, Stepped, NEW e, NEW f, f = e
    PROVE  \A w \in Works : Holds(w, e) =>
              /\ Final(w)'
              /\ f.decisions = db'[w].decided
              /\ f.listed = db'[w].listed
              /\ f.emails = db'[w].emails
              /\ f.retries \in Nat
              /\ f.retries <= SumOf(w)'
<1> SUFFICES ASSUME NEW w \in Works, Holds(w, e)
             PROVE  /\ Final(w)'
                    /\ f.decisions = db'[w].decided
                    /\ f.listed = db'[w].listed
                    /\ f.emails = db'[w].emails
                    /\ f.retries \in Nat
                    /\ f.retries <= SumOf(w)'
  OBVIOUS
<1>1. /\ Final(w)'
      /\ db'[w].decided = db[w].decided
      /\ db'[w].listed = db[w].listed
      /\ db'[w].emails = db[w].emails
  BY FinalStays DEF Holds
<1>2. SumOf(w) \in Nat /\ SumOf(w)' \in Nat /\ SumOf(w) <= SumOf(w)'
  BY SumGrows DEF EarnedInv, Stepped
<1>3. f.retries \in Nat /\ f.retries <= SumOf(w)
  BY DEF Holds
<1>4. f.retries <= SumOf(w)'
  BY <1>2, <1>3
<1>5. QED BY <1>1, <1>3, <1>4 DEF Holds

\* What the execution of another key has earned, and this one's earlier cases.
LEMMA EarnedStays ==
    ASSUME EarnedInv, Stepped
    PROVE  \A w \in Works : Earned(w) /\ result'[w] = result[w] => Earned(w)'
<1> SUFFICES ASSUME NEW w \in Works, Earned(w), result'[w] = result[w]
             PROVE  Earned(w)'
  OBVIOUS
<1> DEFINE e == result[w].evidence
           f == result'[w].evidence
<1>1. f = e
  OBVIOUS
<1>2. Holds(w, e)
  BY DEF Earned
<1>3. Contract(w)' = Contract(w)
  BY <1>2, ContractsStay DEF Holds, Final, Stepped
<1>4. /\ Final(w)'
      /\ f.decisions = db'[w].decided
      /\ f.listed = db'[w].listed
      /\ f.emails = db'[w].emails
      /\ f.retries \in Nat
      /\ f.retries <= SumOf(w)'
  <2> HIDE DEF e, f
  <2>1. QED BY <1>1, <1>2, HoldsStays
<1>5. Mismatches(Contract(w)'.outcome, f) = {}
  BY <1>3 DEF Earned
<1>6. result'[w].status = "PASSED"
  BY DEF Earned
<1>7. Holds(w, result[w].evidence)'
  BY <1>4 DEF Holds
<1>8. QED BY <1>5, <1>6, <1>7 DEF Earned

-----------------------------------------------------------------------------
(***************************************************************************)
(* The invariant holds.                                                    *)
(***************************************************************************)
LEMMA ShapeStays ==
    ASSUME EarnedInv, Stepped
    PROVE  Shape'
<1>1. Shape
  BY DEF EarnedInv
<1>2. HarnessMoves /\ StartMoves /\ DbMoves /\ WorkflowMoves /\ AttemptMoves
  BY DEF Stepped
<1>3. DOMAIN evaluation' = Keys /\ \A k \in Keys : DOMAIN evaluation'[k] = {"status", "suite"}
  <2>1. CASE UNCHANGED evaluation
    BY <1>1, <2>1 DEF Shape
  <2>2. ASSUME NEW c \in Callers, Begins(c)
        PROVE  DOMAIN evaluation' = Keys /\ \A k \in Keys : DOMAIN evaluation'[k] = {"status", "suite"}
    BY <1>1, <2>2 DEF Shape, Begins, EvaluationRun
  <2>3. ASSUME NEW c \in Callers, Completes(c)
        PROVE  DOMAIN evaluation' = Keys /\ \A k \in Keys : DOMAIN evaluation'[k] = {"status", "suite"}
    BY <1>1, <2>3 DEF Shape, Completes
  <2>4. QED
    BY <1>2, <2>1, <2>2, <2>3 DEF HarnessMoves, Rests, Denied, Moves, Advances, harness
<1>4. /\ DOMAIN evaluator' = Callers
      /\ \A c \in Callers : DOMAIN evaluator'[c] = EvaluatorFields /\ evaluator'[c].case \in Nat
  <2>1. CASE Rests
    BY <1>1, <2>1 DEF Shape, Rests, harness
  <2>2. ASSUME NEW c \in Callers, Begins(c) \/ Denied(c) \/ Moves(c) \/ Advances(c) \/ Completes(c)
        PROVE  /\ DOMAIN evaluator' = Callers
               /\ \A d \in Callers : DOMAIN evaluator'[d] = EvaluatorFields /\ evaluator'[d].case \in Nat
    <3>1. evaluator[c].case \in Nat
      BY <1>1 DEF Shape
    <3>2. evaluator'[c].case \in Nat
      BY <2>2, <3>1 DEF Begins, Denied, Moves, Advances, Completes
    <3>3. /\ DOMAIN evaluator' = Callers
          /\ DOMAIN evaluator'[c] = EvaluatorFields
          /\ \A d \in Callers \ {c} : evaluator'[d] = evaluator[d]
      BY <2>2 DEF Begins, Denied, Moves, Advances, Completes, Steps
    <3>4. QED BY <1>1, <3>2, <3>3 DEF Shape
  <2>3. QED BY <1>2, <2>1, <2>2 DEF HarnessMoves
<1>5. DOMAIN result' = Works
  BY <1>1, <1>2 DEF Shape, HarnessMoves, Rests, Begins, Denied, Moves, Advances, Completes,
                    OnlyResult, harness
<1>6. DOMAIN db' = Works /\ \A w \in Works : DOMAIN db'[w] = DbFields
  BY <1>2 DEF DbMoves, SameEffects, Decides
<1>7. QED BY <1>2, <1>3, <1>4, <1>5, <1>6 DEF Shape, StartMoves, StartFields, WorkflowMoves, AttemptMoves

LEMMA RunsAsRunning ==
    ASSUME EvaluatorsApart
    PROVE  \A c \in Callers : evaluator[c].step \notin Gone => evaluation[KeyOf[c]].status = "RUNNING"
<1> SUFFICES ASSUME NEW c \in Callers, evaluator[c].step \notin Gone
             PROVE  evaluation[KeyOf[c]].status = "RUNNING"
  OBVIOUS
<1>1. evaluation[KeyOf[c]] = EvaluationRun("RUNNING", evaluator[c].suite)
  BY DEF EvaluatorsApart
<1>2. QED BY <1>1 DEF EvaluationRun

LEMMA EvaluatorsApartStays ==
    ASSUME EarnedInv, Stepped
    PROVE  EvaluatorsApart'
<1>1. Shape /\ EvaluatorsApart
  BY DEF EarnedInv
<1>2. HarnessMoves
  BY DEF Stepped
<1>3. CASE Rests
  BY <1>1, <1>3 DEF EvaluatorsApart, Rests, harness
<1>4. ASSUME NEW c \in Callers, Begins(c) PROVE EvaluatorsApart'
  <2> DEFINE k == KeyOf[c]
             u == evaluator'[c].suite
  <2>1. k \in Keys /\ u \in Suites
    BY <1>4, EvaluationAssumption DEF Begins
  <2>2. evaluation'[k] = EvaluationRun("RUNNING", u) /\ \A j \in Keys \ {k} : evaluation'[j] = evaluation[j]
    BY <1>1, <1>4, <2>1 DEF Begins, Shape
  <2>3. \A d \in Callers : evaluator[d].step \notin Gone => KeyOf[d] # k
    BY <1>1, <1>4, RunsAsRunning DEF Begins
  <2>4. /\ \A d \in Callers \ {c} : evaluator'[d] = evaluator[d]
        /\ evaluator'[c].step = "case" /\ evaluator'[c].case = 1
    BY <1>4 DEF Begins
  <2>5. \A d \in Callers : KeyOf[d] \in Keys
    BY EvaluationAssumption
  <2>6. EvaluationRun("RUNNING", u).status = "RUNNING" /\ EvaluationRun("RUNNING", u).suite = u
    BY DEF EvaluationRun
  <2>7. \A j \in Keys : evaluation'[j].status # "none" => evaluation'[j].suite \in Suites
    <3> HIDE DEF u, k
    <3>1. QED BY <1>1, <2>1, <2>2, <2>6 DEF EvaluatorsApart
  <2>8. ASSUME NEW d \in Callers, evaluator'[d].step \notin Gone
        PROVE  /\ evaluation'[KeyOf[d]] = EvaluationRun("RUNNING", evaluator'[d].suite)
               /\ evaluator'[d].suite \in Suites
               /\ evaluator'[d].case >= 1
               /\ evaluator'[d].step # "case" => evaluator'[d].case \in DOMAIN evaluator'[d].suite
    <3>1. CASE d = c
      BY <2>1, <2>2, <2>4, <3>1
    <3>2. CASE d # c
      <4>1. evaluator'[d] = evaluator[d] /\ KeyOf[d] # k
        BY <2>3, <2>4, <2>8, <3>2
      <4>2. evaluation'[KeyOf[d]] = evaluation[KeyOf[d]]
        BY <2>2, <2>5, <4>1
      <4>3. QED BY <1>1, <2>8, <4>1, <4>2 DEF EvaluatorsApart
    <3>3. QED BY <3>1, <3>2
  <2>9. \A d, e \in Callers :
           evaluator'[d].step \notin Gone /\ evaluator'[e].step \notin Gone /\ KeyOf[d] = KeyOf[e] => d = e
    <3> HIDE DEF u
    <3>1. QED BY <1>1, <2>3, <2>4 DEF EvaluatorsApart
  <2>10. QED BY <2>7, <2>8, <2>9 DEF EvaluatorsApart
<1>5. ASSUME NEW c \in Callers, Denied(c) \/ Moves(c) \/ Advances(c) PROVE EvaluatorsApart'
  <2>1. /\ \A d \in Callers \ {c} : evaluator'[d] = evaluator[d]
        /\ evaluator'[c].suite = evaluator[c].suite
        /\ UNCHANGED evaluation
    BY <1>5 DEF Denied, Moves, Advances, Steps
  <2>2. evaluator'[c].step \notin Gone =>
           /\ evaluator[c].step \notin Gone
           /\ evaluator'[c].step # "case" => evaluator'[c].case \in DOMAIN evaluator'[c].suite
           /\ evaluator'[c].case = evaluator[c].case \/ evaluator'[c].case = evaluator[c].case + 1
    BY <1>5, <2>1 DEF Denied, Moves, Advances
  <2>3. evaluator[c].case \in Nat
    BY <1>1 DEF Shape
  <2>4. evaluator'[c].step \notin Gone => evaluator'[c].case >= 1
    BY <1>1, <2>2, <2>3 DEF EvaluatorsApart
  <2>5. QED BY <1>1, <2>1, <2>2, <2>4 DEF EvaluatorsApart
<1>6. ASSUME NEW c \in Callers, Completes(c) PROVE EvaluatorsApart'
  <2>1. /\ \A d \in Callers \ {c} : evaluator'[d] = evaluator[d]
        /\ evaluator[c].step = "case"
        /\ evaluator'[c].step = "done"
    BY <1>6 DEF Completes, Steps
  <2>2. evaluator[c].step \notin Gone /\ evaluator'[c].step \in Gone
    BY <2>1 DEF Gone
  <2>3. \A d \in Callers \ {c} : evaluator[d].step \notin Gone => KeyOf[d] # KeyOf[c]
    BY <1>1, <2>2 DEF EvaluatorsApart
  <2>4. \A j \in Keys : /\ j # KeyOf[c] => evaluation'[j] = evaluation[j]
                        /\ evaluation'[j].suite = evaluation[j].suite
    BY <1>1, <1>6 DEF Completes, Shape
  <2>5. evaluation[KeyOf[c]].status # "none"
    BY <1>1, <2>2, RunsAsRunning
  <2>6. \A d \in Callers : KeyOf[d] \in Keys
    BY EvaluationAssumption
  <2>7. \A j \in Keys : evaluation'[j].status # "none" => evaluation'[j].suite \in Suites
    BY <1>1, <2>4, <2>5, <2>6 DEF EvaluatorsApart
  <2>8. ASSUME NEW d \in Callers, evaluator'[d].step \notin Gone
        PROVE  evaluator'[d] = evaluator[d] /\ evaluation'[KeyOf[d]] = evaluation[KeyOf[d]]
    BY <2>1, <2>2, <2>3, <2>4, <2>6, <2>8
  <2>9. QED BY <1>1, <2>7, <2>8 DEF EvaluatorsApart
<1>7. QED BY <1>2, <1>3, <1>4, <1>5, <1>6 DEF HarnessMoves

\* An evaluator stays where it is, or it is the one that steps.
LEMMA Stepper ==
    ASSUME HarnessMoves, NEW c \in Callers
    PROVE  \/ evaluator'[c] = evaluator[c]
           \/ Begins(c) \/ Denied(c) \/ Moves(c) \/ Advances(c) \/ Completes(c)
<1>1. CASE Rests
  BY <1>1 DEF Rests, harness
<1>2. ASSUME NEW d \in Callers, d # c,
             Begins(d) \/ Denied(d) \/ Moves(d) \/ Advances(d) \/ Completes(d)
      PROVE  evaluator'[c] = evaluator[c]
  BY <1>2 DEF Begins, Denied, Moves, Advances, Completes, Steps
<1>3. QED BY <1>1, <1>2 DEF HarnessMoves

LEMMA DecidesOnlyStays ==
    ASSUME EarnedInv, Stepped
    PROVE  DecidesOnly'
<1>1. DecidesOnly /\ EvaluatorsApart
  BY DEF EarnedInv
<1>2. HarnessMoves /\ DbMoves /\ WorkflowMoves /\ AttemptMoves
  BY DEF Stepped
<1>3. \A w \in Works : Choosable(w) => Choosable(w)'
  BY <1>2, ChoosableStays DEF Choosable
<1>4. ASSUME NEW c \in Callers
      PROVE  evaluator'[c].step \in {"early", "approval", "phase"} => Case(c)'.outcome.run # "failed"
  <2>1. evaluator'[c] = evaluator[c] \/ Moves(c) => Case(c)' = Case(c)
    BY DEF Moves, Steps, Case
  <2>2. CASE evaluator'[c] = evaluator[c]
    BY <1>1, <2>1, <2>2 DEF DecidesOnly
  <2>3. CASE Moves(c)
    BY <2>1, <2>3 DEF Moves
  <2>4. CASE Begins(c) \/ Denied(c) \/ Advances(c) \/ Completes(c)
    BY <2>4 DEF Begins, Denied, Advances, Completes, Gone
  <2>5. QED BY <1>2, <2>2, <2>3, <2>4, Stepper
<1>5. ASSUME NEW c \in Callers, evaluator'[c].step = "decide"
      PROVE  \E w \in Works : w = <<KeyOf[c], evaluator'[c].case>> /\ Choosable(w)'
  <2>1. CASE evaluator'[c] = evaluator[c]
    <3>1. Work(c) \in Works /\ Choosable(Work(c))
      BY <1>1, <1>5, <2>1, WorkOfCase DEF Gone, DecidesOnly
    <3>2. QED BY <1>3, <2>1, <3>1 DEF Work
  <2>2. CASE Moves(c)
    <3>1. evaluator[c].suite \in Suites /\ evaluator[c].case \in DOMAIN evaluator[c].suite
      BY <1>1, <1>5, <2>2 DEF Moves, EvaluatorsApart, Gone
    <3>2. Work(c) \in Works /\ Choosable(Work(c))
      BY <1>5, <2>2, <3>1, EvaluationAssumption DEF Work, Works, Moves
    <3>3. evaluator'[c].case = evaluator[c].case
      BY <2>2 DEF Moves
    <3>4. QED BY <1>3, <3>2, <3>3 DEF Work
  <2>3. CASE Begins(c) \/ Denied(c) \/ Advances(c) \/ Completes(c)
    BY <1>5, <2>3 DEF Begins, Denied, Advances, Completes, Gone
  <2>4. QED BY <1>2, <2>1, <2>2, <2>3, Stepper
<1>6. ASSUME NEW c \in Callers, evaluator'[c].step = "decide"
      PROVE  Choosable(Work(c))'
  BY <1>5, <1>6 DEF Choosable, Requested, Contract, Work
<1>7. ASSUME NEW w \in Works
      PROVE  /\ workflow'[w].phase = "record" => Choosable(w)'
             /\ db'[w].run \in {"SUCCEEDED", "REJECTED"} => db'[w].decided = 1
  BY <1>1, <1>2, <1>3 DEF WorkflowMoves, DbMoves, SameEffects, Decides, Decisive, DecidesOnly
<1>8. ASSUME NEW s \in Slots, attempt'[s] # None, attempt'[s].activity = "record"
      PROVE  \E w \in Works : w = attempt'[s].work /\ Choosable(w)'
  BY <1>2, <1>3, <1>8 DEF AttemptMoves
<1>9. ASSUME NEW s \in Slots, attempt'[s] # None, attempt'[s].activity = "record"
      PROVE  Choosable(attempt[s].work)'
  BY <1>8, <1>9 DEF Choosable, Requested, Contract
<1>10. QED BY <1>4, <1>6, <1>7, <1>9 DEF DecidesOnly

LEMMA TodoIsOfCaseStays ==
    ASSUME EarnedInv, Stepped
    PROVE  TodoIsOfCase'
<1> SUFFICES ASSUME NEW c \in Callers, evaluator'[c].step = "configure"
             PROVE  evaluator'[c].todo \subseteq FaultsOf(Case(c)')
  BY DEF TodoIsOfCase
<1>1. evaluator'[c] = evaluator[c] \/ Moves(c) => Case(c)' = Case(c)
  BY DEF Moves, Steps, Case
<1>2. CASE evaluator'[c] = evaluator[c]
  BY <1>1, <1>2 DEF EarnedInv, TodoIsOfCase
<1>3. CASE Moves(c)
  BY <1>1, <1>3 DEF Moves
<1>4. CASE Begins(c) \/ Denied(c) \/ Advances(c) \/ Completes(c)
  BY <1>4 DEF Begins, Denied, Advances, Completes, Gone
<1>5. QED BY <1>2, <1>3, <1>4, Stepper DEF Stepped

\* Evidence that is taken, or about to be, is final.
LEMMA EvidenceHoldsStays ==
    ASSUME EarnedInv, Stepped
    PROVE  EvidenceHolds'
<1>1. EvaluatorsApart /\ EvidenceHolds
  BY DEF EarnedInv
<1>2. ASSUME NEW c \in Callers, evaluator'[c].step \in {"collect", "persist"}
      PROVE  /\ Work(c) \in Works
             /\ evaluator'[c].case = evaluator[c].case
             /\ evaluator'[c].step = "collect" => Final(Work(c))
             /\ evaluator'[c].step = "persist" => Holds(Work(c), evaluator'[c].evidence)
  <2>1. CASE evaluator'[c] = evaluator[c]
    BY <1>1, <1>2, <2>1, WorkOfCase DEF Gone, EvidenceHolds
  <2>2. CASE Moves(c)
    <3>1. evaluator[c].suite \in Suites /\ evaluator[c].case \in DOMAIN evaluator[c].suite
      BY <1>1, <1>2, <2>2 DEF Moves, EvaluatorsApart, Gone
    <3>2. Work(c) \in Works
      BY <3>1, EvaluationAssumption DEF Work, Works
    <3>3. QED BY <2>2, <3>2 DEF Moves
  <2>3. CASE Begins(c) \/ Denied(c) \/ Advances(c) \/ Completes(c)
    BY <1>2, <2>3 DEF Begins, Denied, Advances, Completes, Gone
  <2>4. QED BY <2>1, <2>2, <2>3, Stepper DEF Stepped
<1>3. ASSUME NEW c \in Callers, evaluator'[c].step = "collect"
      PROVE  Final(Work(c))'
  <2>1. PICK w \in Works : w = Work(c) /\ Final(w)
    BY <1>2, <1>3
  <2>2. Final(w)'
    BY <2>1, FinalStays
  <2>3. w = <<KeyOf[c], evaluator'[c].case>>
    BY <1>2, <1>3, <2>1 DEF Work
  <2>4. QED BY <2>2, <2>3 DEF Final, Choosable, Requested, Contract, Work
<1>4. ASSUME NEW c \in Callers, evaluator'[c].step = "persist"
      PROVE  Holds(Work(c), evaluator[c].evidence)'
  <2> DEFINE e == evaluator'[c].evidence
  <2>1. PICK w \in Works : w = Work(c) /\ Holds(w, e)
    BY <1>2, <1>4
  <2>2. /\ Final(w)'
        /\ e.decisions = db'[w].decided
        /\ e.listed = db'[w].listed
        /\ e.emails = db'[w].emails
        /\ e.retries \in Nat
        /\ e.retries <= SumOf(w)'
    <3> HIDE DEF e
    <3>1. QED BY <2>1, HoldsStays
  <2>3. w = <<KeyOf[c], evaluator'[c].case>>
    BY <1>2, <1>4, <2>1 DEF Work
  <2>4. QED BY <2>2, <2>3 DEF Holds, Final, Choosable, Requested, Contract, Work, SumOf
<1>5. QED BY <1>3, <1>4 DEF EvidenceHolds

\* Only the evaluator of a case touches its result.
LEMMA ResultsStay ==
    ASSUME EarnedInv, HarnessMoves, NEW w \in Works, result'[w] # result[w]
    PROVE  \E d \in Callers : evaluator[d].step \notin Gone /\ w = Work(d)
BY DEF HarnessMoves, Rests, harness, Begins, Denied, Moves, Advances, Completes, OnlyResult

LEMMA WorksOfSuite ==
    ASSUME NEW u \in Suites, NEW i \in DOMAIN u, NEW k \in Keys
    PROVE  i \in Nat /\ i >= 1 /\ <<k, i>> \in Works
BY EvaluationAssumption DEF Works

\* The cases that are behind an evaluator.
LEMMA EarlierStay ==
    ASSUME EarnedInv, Stepped, NEW c \in Callers, evaluator[c].step \notin Gone, evaluator[c].passed
    PROVE  \A i \in DOMAIN evaluator[c].suite : i < evaluator[c].case => Earned(<<KeyOf[c], i>>)'
<1> SUFFICES ASSUME NEW i \in DOMAIN evaluator[c].suite, i < evaluator[c].case
             PROVE  Earned(<<KeyOf[c], i>>)'
  OBVIOUS
<1>1. HarnessMoves /\ EvaluatorsApart /\ PassedIsEarned /\ Shape
  BY DEF EarnedInv, Stepped
<1>2. i \in Nat /\ <<KeyOf[c], i>> \in Works /\ evaluator[c].case \in Nat
  BY <1>1, WorksOfSuite, EvaluationAssumption DEF EvaluatorsApart, Shape
<1>3. i # evaluator[c].case
  BY <1>2
<1> DEFINE w == <<KeyOf[c], i>>
<1>4. Earned(w)
  BY <1>1 DEF PassedIsEarned
<1>5. result'[w] = result[w]
  <2>1. SUFFICES ASSUME NEW d \in Callers, evaluator[d].step \notin Gone, w = Work(d) PROVE FALSE
    BY <1>1, <1>2, ResultsStay
  <2>2. KeyOf[d] = KeyOf[c] /\ evaluator[d].case = i
    BY <2>1 DEF Work
  <2>3. d = c
    BY <1>1, <2>1, <2>2 DEF EvaluatorsApart
  <2>4. QED BY <1>3, <2>2, <2>3
<1>6. QED BY <1>2, <1>4, <1>5, EarnedStays

LEMMA PassedIsEarnedStays ==
    ASSUME EarnedInv, Stepped
    PROVE  PassedIsEarned'
<1>1. HarnessMoves /\ EvaluatorsApart /\ PassedIsEarned /\ Shape
  BY DEF EarnedInv, Stepped
<1>2. ASSUME NEW c \in Callers, evaluator'[c].step \notin Gone, evaluator'[c].passed,
             NEW i \in DOMAIN evaluator'[c].suite, i < evaluator'[c].case
      PROVE  Earned(<<KeyOf[c], i>>)'
  <2>1. CASE Begins(c)
    <3>1. evaluator'[c].suite \in Suites /\ evaluator'[c].case = 1
      BY <2>1 DEF Begins
    <3>2. \A u \in Suites : \A j \in DOMAIN u : j \in Nat /\ j >= 1
      BY WorksOfSuite, EvaluationAssumption
    <3>3. i \in Nat /\ i >= 1
      BY <3>1, <3>2
    <3>4. QED BY <1>2, <3>1, <3>3
  <2>2. CASE Denied(c) \/ Completes(c)
    BY <1>2, <2>2 DEF Denied, Completes, Gone
  <2>3. CASE evaluator'[c] = evaluator[c]
    BY <1>2, <2>3, EarlierStay
  <2>4. CASE Moves(c)
    BY <1>2, <2>4, EarlierStay DEF Moves, Steps
  <2>5. CASE Advances(c)
    <3>1. /\ evaluator[c].step \notin Gone
          /\ evaluator[c].passed
          /\ evaluator'[c].suite = evaluator[c].suite
          /\ evaluator'[c].case = evaluator[c].case + 1
      BY <1>2, <2>5 DEF Advances, Steps
    <3>2. i \in Nat /\ <<KeyOf[c], i>> \in Works /\ evaluator[c].case \in Nat
      BY <1>1, <1>2, <3>1, WorksOfSuite, EvaluationAssumption DEF EvaluatorsApart, Shape
    <3>3. CASE i < evaluator[c].case
      BY <1>2, <3>1, <3>3, EarlierStay
    <3>4. CASE i = evaluator[c].case
      <4> DEFINE w == <<KeyOf[c], i>>
                 e == result'[w].evidence
      <4>1. w = Work(c)
        BY <3>4 DEF Work
      <4>2. /\ result'[w].status = "PASSED"
            /\ Mismatches(Case(c).outcome, e) = {}
            /\ Holds(w, e)
        BY <1>2, <2>5, <4>1 DEF Advances
      <4>3. Contract(w) = Case(c) /\ Requested(w)
        <5>1. evaluation[KeyOf[c]] = EvaluationRun("RUNNING", evaluator[c].suite)
          BY <1>1, <3>1 DEF EvaluatorsApart
        <5>2. evaluation[KeyOf[c]].suite = evaluator[c].suite
          BY <5>1 DEF EvaluationRun
        <5>3. Contract(w) = Case(c)
          BY <3>4, <5>2 DEF Contract, Case
        <5>4. QED BY <4>2, <5>3 DEF Holds, Final
      <4>4. Contract(w)' = Contract(w)
        <5> HIDE DEF w
        <5>1. w \in Works
          BY <3>2 DEF w
        <5>2. QED BY <1>1, <4>3, <5>1, ContractsStay
      <4>5. /\ Final(w)'
            /\ e.decisions = db'[w].decided
            /\ e.listed = db'[w].listed
            /\ e.emails = db'[w].emails
            /\ e.retries \in Nat
            /\ e.retries <= SumOf(w)'
        <5>1. w \in Works
          BY <3>2
        <5> HIDE DEF w, e
        <5>2. QED BY <4>2, <5>1, HoldsStays
      <4>6. Holds(w, result[w].evidence)'
        BY <4>5 DEF Holds
      <4>7. QED BY <4>2, <4>3, <4>4, <4>6 DEF Earned
    <3>5. QED BY <1>2, <3>1, <3>2, <3>3, <3>4
  <2>6. QED BY <1>1, <2>1, <2>2, <2>3, <2>4, <2>5, Stepper
<1>3. ASSUME NEW k \in Keys, evaluation'[k].status = "SUCCEEDED",
             NEW i \in DOMAIN evaluation'[k].suite
      PROVE  Earned(<<k, i>>)'
  <2>1. CASE evaluation[k].status = "SUCCEEDED"
    <3>1. evaluation'[k].suite = evaluation[k].suite /\ evaluation[k].suite \in Suites
      BY <1>1, <2>1, SuitesStay DEF EvaluatorsApart
    <3>2. <<k, i>> \in Works /\ i \in DOMAIN evaluation[k].suite
      BY <1>3, <3>1, WorksOfSuite
    <3> DEFINE w == <<k, i>>
    <3>3. Earned(w)
      BY <1>1, <2>1, <3>2 DEF PassedIsEarned
    <3>4. result'[w] = result[w]
      <4>1. SUFFICES ASSUME NEW d \in Callers, evaluator[d].step \notin Gone, w = Work(d) PROVE FALSE
        BY <1>1, <3>2, ResultsStay
      <4>2. KeyOf[d] = k
        BY <4>1 DEF Work
      <4>3. QED BY <1>1, <2>1, <4>1, <4>2, RunsAsRunning
    <3>5. QED BY <3>2, <3>3, <3>4, EarnedStays
  <2>2. CASE evaluation[k].status # "SUCCEEDED"
    <3>1. PICK c \in Callers : Completes(c) /\ KeyOf[c] = k /\ evaluator[c].passed
      <4>1. evaluation'[k] # evaluation[k]
        BY <1>3, <2>2
      <4>2. \A c \in Callers : Begins(c) => evaluation'[k].status # "SUCCEEDED"
        <5> SUFFICES ASSUME NEW c \in Callers, Begins(c) PROVE evaluation'[k].status # "SUCCEEDED"
          OBVIOUS
        <5>1. evaluation'[k] = evaluation[k] \/ evaluation'[k] = EvaluationRun("RUNNING", evaluator'[c].suite)
          BY <1>1 DEF Begins, Shape
        <5>2. QED BY <2>2, <5>1 DEF EvaluationRun
      <4>3. PICK c \in Callers : Completes(c)
        BY <1>1, <1>3, <4>1, <4>2 DEF HarnessMoves, Rests, harness, Denied, Moves, Advances
      <4>4. KeyOf[c] = k
        BY <1>1, <4>1, <4>3 DEF Completes, Shape
      <4>5. evaluator[c].passed
        BY <1>1, <1>3, <4>3, <4>4 DEF Completes, Shape
      <4>6. QED BY <4>3, <4>4, <4>5
    <3>2. /\ evaluator[c].step = "case"
          /\ evaluator[c].case \notin DOMAIN evaluator[c].suite
      BY <3>1 DEF Completes
    <3>3. /\ evaluation[k] = EvaluationRun("RUNNING", evaluator[c].suite)
          /\ evaluator[c].suite \in Suites
          /\ evaluator[c].case >= 1
          /\ evaluator[c].case \in Nat
      BY <1>1, <3>1, <3>2 DEF EvaluatorsApart, Shape, Gone
    <3>4. evaluation'[k].suite = evaluator[c].suite
      <4>1. evaluation[k].status = "RUNNING" /\ evaluation[k].suite = evaluator[c].suite
        BY <3>3 DEF EvaluationRun
      <4>2. QED BY <1>1, <4>1, SuitesStay
    <3>5. PICK n \in Indices : DOMAIN evaluator[c].suite = 1 .. n
      BY <3>3, EvaluationAssumption
    <3>6. n \in Nat /\ i \in 1 .. n
      BY <1>3, <3>4, <3>5, EvaluationAssumption
    <3>7. i < evaluator[c].case
      BY <3>2, <3>3, <3>5, <3>6
    <3>8. QED BY <1>3, <3>1, <3>2, <3>4, <3>7, EarlierStay DEF Gone
  <2>3. QED BY <2>1, <2>2
<1>4. QED BY <1>2, <1>3 DEF PassedIsEarned

LEMMA EarnedInit == Init => EarnedInv
<1> SUFFICES ASSUME Init PROVE EarnedInv
  OBVIOUS
<1>1. FaultIInv
  BY FaultInitIInv DEF Init
<1>2. Shape
  BY DEF Init, Shape, EvaluationRun, EvaluatorFields, WorkflowFields, DbFields, NoRows
<1>3. \A k \in Keys : evaluation[k].status = "none"
  BY DEF Init, EvaluationRun
<1>4. \A c \in Callers : evaluator[c].step = "idle"
  BY DEF Init
<1>5. EvaluatorsApart
  BY <1>3, <1>4 DEF EvaluatorsApart, Gone
<1>6. DecidesOnly /\ SlotsAct
  BY <1>4 DEF Init, DecidesOnly, SlotsAct, NoRows
<1>7. TodoIsOfCase /\ EvidenceHolds
  BY <1>4 DEF TodoIsOfCase, EvidenceHolds
<1>8. LeasesAreHeld
  BY EvaluationAssumption DEF Init, LeasesAreHeld
<1>9. PassedIsEarned
  BY <1>3, <1>4 DEF PassedIsEarned, Gone
<1>10. QED BY <1>1, <1>2, <1>5, <1>6, <1>7, <1>8, <1>9 DEF EarnedInv

LEMMA EarnedNext == EarnedInv /\ [Next]_vars => EarnedInv'
<1> SUFFICES ASSUME EarnedInv, [Next]_vars PROVE EarnedInv'
  OBVIOUS
<1>1. Stepped
  BY NextSteps
<1>2. FaultIInv'
  BY <1>1, FaultMovesIInv DEF EarnedInv, Stepped
<1>3. SlotsAct'
  BY <1>1 DEF Stepped, WorkflowMoves, SlotsAct
<1>4. LeasesAreHeld'
  BY <1>1 DEF Stepped, StartMoves
<1>5. QED
  BY <1>1, <1>2, <1>3, <1>4, ShapeStays, EvaluatorsApartStays, DecidesOnlyStays, TodoIsOfCaseStays,
     EvidenceHoldsStays, PassedIsEarnedStays DEF EarnedInv

LEMMA EarnedInvariance == Spec => []EarnedInv
BY EarnedInit, EarnedNext, PTL DEF Spec

\* What mismatches nothing has the exact fields, and no fewer faults survived.
LEMMA NoMismatches ==
    ASSUME NEW o, NEW e, Mismatches(o, e) = {}, o.retries \in Nat, e.retries \in Nat
    PROVE  /\ e.decisions = o.decisions
           /\ e.listed = o.listed
           /\ e.emails = o.emails
           /\ e.retries >= o.retries
<1>1. \A f \in Exact : e[f] = o[f]
  BY DEF Mismatches
<1>2. e["decisions"] = o["decisions"] /\ e["listed"] = o["listed"] /\ e["emails"] = o["emails"]
  BY <1>1 DEF Exact
<1>3. ~(e["retries"] < o["retries"])
  BY DEF Mismatches
<1>4. e.retries >= o.retries
  BY <1>3
<1>5. QED BY <1>2, <1>4

LEMMA EarnedIsEarned == EarnedInv => SucceededIsEarned
<1> SUFFICES ASSUME EarnedInv, NEW k \in Keys, evaluation[k].status = "SUCCEEDED",
                    NEW i \in DOMAIN evaluation[k].suite
             PROVE  LET w == <<k, i>>
                        expected == evaluation[k].suite[i].outcome
                    IN  /\ result[w].status = "PASSED"
                        /\ Mismatches(expected, result[w].evidence) = {}
                        /\ db[w].decided = expected.decisions
                        /\ db[w].listed = expected.listed
                        /\ db[w].emails = expected.emails
                        /\ SumOf(w) >= expected.retries
  BY DEF SucceededIsEarned
<1> DEFINE w == <<k, i>>
           expected == evaluation[k].suite[i].outcome
           e == result[w].evidence
<1>1. Earned(w)
  BY DEF EarnedInv, PassedIsEarned
<1>2. Contract(w).outcome = expected
  BY DEF Contract
<1>3. /\ result[w].status = "PASSED"
      /\ Mismatches(expected, e) = {}
      /\ Holds(w, e)
  BY <1>1, <1>2 DEF Earned
<1>4. evaluation[k].suite \in Suites
  BY DEF EarnedInv, EvaluatorsApart
<1>5. ValidCase(evaluation[k].suite[i])
  BY <1>4, EvaluationAssumption DEF ValidSuite
<1>6. expected.retries \in Nat
  <2>1. ValidOutcome(expected)
    BY <1>5 DEF ValidCase
  <2> HIDE DEF expected
  <2>2. expected.retries \in 0 .. 20
    BY <2>1 DEF ValidOutcome
  <2>3. QED BY <2>2
<1>7. e.decisions = db[w].decided /\ e.listed = db[w].listed /\ e.emails = db[w].emails
      /\ e.retries \in Nat /\ e.retries <= SumOf(w)
  BY <1>3 DEF Holds
<1>8. SumOf(w) \in Nat
  BY <1>4, WorksOfSuite, SumIsNat DEF EarnedInv
<1>9. /\ e.decisions = expected.decisions
      /\ e.listed = expected.listed
      /\ e.emails = expected.emails
      /\ e.retries >= expected.retries
  <2> HIDE DEF e, expected
  <2>1. QED BY <1>3, <1>6, <1>7, NoMismatches
<1>10. SumOf(w) >= expected.retries
  <2> HIDE DEF e, expected
  <2>1. QED BY <1>6, <1>7, <1>8, <1>9
<1>11. QED BY <1>3, <1>7, <1>9, <1>10

-----------------------------------------------------------------------------
\* A run of the harness that reports success has earned it, whatever was repeated,
\* lost or given up on: every case of its suite passed, and the decision, the listing,
\* the message and the survived faults that it passed for are in the rows to stay.
THEOREM SuccessIsEarned == Spec => []SucceededIsEarned
BY EarnedInvariance, EarnedIsEarned, PTL

\* The evaluators, the workers and an operator between them take no trigger twice.
THEOREM EvaluationSpendsOnce == Spec => []TriggersAreSpentOnce
<1>1. EarnedInv => TriggersAreSpentOnce
  BY DEF EarnedInv, FaultIInv
<1>2. QED BY <1>1, EarnedInvariance, PTL
=============================================================================
