----------------------------- MODULE Evaluation -----------------------------
(***************************************************************************)
(* The evaluation harness: an evaluator (evaluation.py,                    *)
(* run_production_vendor_onboarding) takes the cases of the reviewed suite *)
(* one by one, has the installed workers execute each of them under the    *)
(* faults its contract configures, and scores the rows they leave.         *)
(*                                                                         *)
(* The vendor-onboarding workflow appears here as the evaluator meets it:  *)
(* an activity is the faults before its transaction, the transaction, and  *)
(* the faults after it.  Other approvers leave the evaluator's runs alone. *)
(***************************************************************************)
EXTENDS EvaluationContract, FaultInjection

CONSTANTS
    Callers,        \* processes that request an evaluation
    Keys,           \* idempotency keys of one principal
    KeyOf,          \* the key each caller brings
    Suites,         \* the suites of the releases that may be installed
    Scenarios,      \* the scenario types of each suite
    Catalog,        \* of each suite: the state of its cases' evaluation_cases rows
    Indices,        \* 1 .. the length of the longest suite
    Slots,          \* activity slots of the workers
    Recovery,       \* the recovery command
    OperatorPlans,  \* plans the fault-plan routes are used on
    MaxAttempts,    \* ACTIVITY_RETRY.maximum_attempts
    MaxFaults       \* bound: crashes, time-outs and lost answers

Points == {"lookup", "search", "provider", "waiting", "email", "start"}
Works  == Keys \X Indices

\* What a suite finds of its case in evaluation_cases: the row that its release
\* seeds, only the one of version 1.0.0, or none.
CatalogRows == {"found", "renamed", "missing"}

ASSUME EvaluationAssumption ==
    /\ KeyOf \in [Callers -> Keys]
    /\ \A u \in Suites : ValidSuite(u, Scenarios[u]) /\ Scenarios[u] \subseteq ScenarioTypes
    /\ Indices \subseteq Nat
    /\ \A u \in Suites : \E n \in Indices : DOMAIN u = 1 .. n /\ 1 .. n \subseteq Indices
    /\ \A u \in Suites : \A i \in DOMAIN u : \A f \in u[i].faults : f.point \in Points
    /\ \A u \in Suites : Catalog[u] \in [DOMAIN u -> CatalogRows]
    /\ Plans = Works \X Points
    /\ Sessions = Slots \cup Callers \cup {Recovery}
    /\ None \notin Sessions
    /\ OperatorPlans \subseteq Plans
    /\ MaxAttempts \in Nat \ {0}

VARIABLES
    evaluation, \* evaluation_runs of each key: [status, suite]
    evaluator,  \* [step, suite, case, todo, sent, retried, passed, evidence], where
                \* sent says that an update of its is with Temporal
    result,     \* evaluation_results of each case: [status, evidence]
    start,      \* [status, holder, accepted, attempts] of workflow_start_attempts
    workflow,   \* [phase, chosen, cancelled, tries, slot]
    db,         \* the rows of the case's run
    attempt,    \* the activity attempt in each slot, or None
    faults

harness == <<evaluation, evaluator, result>>
worker  == <<workflow, db, attempt>>
vars    == <<harness, start, worker, faultVars, faults>>

Lost   == "lost"
Ended  == {"SUCCEEDED", "REJECTED", "CANCELLED"}
Gone   == {"idle", "done", "dead", "aborted"}
Acting == {"begin", "assess", "ask", "cancel", "record"}

\* A row of evaluation_runs and one of evaluation_results; "none" stands for no row.
EvaluationRun(status, suite) == [status |-> status, suite |-> suite]
Result(status, evidence)     == [status |-> status, evidence |-> evidence]

NoRows ==
    [run |-> "PENDING", vendor |-> "SUBMITTED", approval |-> "absent", decided |-> 0,
     listed |-> 0, emails |-> 0, model |-> "absent", failure |-> "none",
     rows |-> {}, events |-> {}]

Init ==
    /\ FaultInit
    /\ evaluation = [k \in Keys |-> EvaluationRun("none", None)]
    /\ evaluator = [c \in Callers |->
          [step |-> "idle", suite |-> None, case |-> 0, todo |-> {}, sent |-> FALSE,
           retried |-> FALSE, passed |-> TRUE, evidence |-> None]]
    /\ result = [w \in Works |-> Result("none", None)]
    /\ start = [w \in Works |->
          [status |-> "none", holder |-> None, accepted |-> FALSE, attempts |-> 0]]
    /\ workflow = [w \in Works |->
          [phase |-> "absent", chosen |-> None, cancelled |-> FALSE, tries |-> 0, slot |-> None]]
    /\ db = [w \in Works |-> NoRows]
    /\ attempt = [s \in Slots |-> None]
    /\ faults = 0

Fault == faults < MaxFaults /\ faults' = faults + 1

-----------------------------------------------------------------------------
(***************************************************************************)
(* The evaluation run.                                                     *)
(***************************************************************************)
Work(c) == <<KeyOf[c], evaluator[c].case>>
Case(c) == evaluator[c].suite[evaluator[c].case]

\* The contract that the run of a case is executed under.
Contract(w) == evaluation[w[1]].suite[w[2]]

At(c, step) == evaluator[c].step = step
Go(c, step) == evaluator' = [evaluator EXCEPT ![c].step = step]

\* _create_execution_run: the first request of a key executes; a later one gets
\* the row as it is, or 409.
Request(c, u) ==
    LET k == KeyOf[c]
    IN  /\ evaluator[c].step \in Gone
        /\ \/ /\ evaluation[k].status = "none"
              /\ evaluation' = [evaluation EXCEPT ![k] = EvaluationRun("RUNNING", u)]
              /\ evaluator' = [evaluator EXCEPT ![c].step = "case", ![c].suite = u, ![c].case = 1]
           \/ /\ evaluation[k].status # "none"
              /\ Go(c, "done")
              /\ UNCHANGED evaluation
    /\ UNCHANGED <<result, start, worker, faultVars, faults>>

\* (Last: a variant that keeps the last case's verdict only.)
AdvanceLast(c, passed) ==
    evaluator' = [evaluator EXCEPT
        ![c].step = "case", ![c].case = @ + 1, ![c].passed = passed,
        ![c].retried = FALSE, ![c].evidence = None]

\* On to the next case, with the verdict on this one.
Advance(c, passed) ==
    evaluator' = [evaluator EXCEPT
        ![c].step = "case", ![c].case = @ + 1, ![c].passed = @ /\ passed,
        ![c].retried = FALSE, ![c].evidence = None]

Persisted(c) == Catalog[evaluator[c].suite][evaluator[c].case]

\* _record_invalid_case: the result names the row that the seed would have
\* made, and nothing catches the error if that one is missing.
InvalidCase(c) ==
    /\ At(c, "case")
    /\ evaluator[c].case \in DOMAIN evaluator[c].suite
    /\ \/ /\ Persisted(c) = "renamed"
          /\ result' = [result EXCEPT ![Work(c)] = Result("ERROR", None)]
          /\ Advance(c, FALSE)
       \/ /\ Persisted(c) = "missing"
          /\ Go(c, "aborted")
          /\ UNCHANGED result
    /\ UNCHANGED <<evaluation, start, worker, faultVars, faults>>

\* The faults of a contract, with the one _configure_faults adds.
FaultsOf(case) ==
    case.faults \cup
    {f \in {[point |-> "provider", action |-> "retryable", triggers |-> 1,
             retryable |-> TRUE, retries |-> 0]} : case.failing}

\* _create_isolated_vendor and create_or_get.
CreateIntent(c) ==
    /\ At(c, "case")
    /\ evaluator[c].case \in DOMAIN evaluator[c].suite
    /\ Persisted(c) = "found"
    /\ start' = [start EXCEPT ![Work(c)].status = "pending"]
    /\ evaluator' = [evaluator EXCEPT ![c].step = "configure", ![c].todo = FaultsOf(Case(c))]
    /\ UNCHANGED <<evaluation, result, worker, faultVars, faults>>

\* _configure_faults: ValueError if the plan is active already.
ConfigureFault(c, f) ==
    LET p == <<Work(c), f.point>>
    IN  /\ At(c, "configure")
        /\ f \in evaluator[c].todo
        /\ \/ /\ CreatePlan(p, f.triggers)
              /\ evaluator' = [evaluator EXCEPT ![c].todo = @ \ {f}]
           \/ /\ ~RowLocked(p)
              /\ plan[p].status = "ACTIVE"
              /\ Go(c, "error")
              /\ UNCHANGED faultVars
        /\ UNCHANGED <<evaluation, result, start, worker, faults>>

Configured(c) ==
    /\ At(c, "configure")
    /\ evaluator[c].todo = {}
    /\ Go(c, "start")
    /\ UNCHANGED <<evaluation, result, start, worker, faultVars, faults>>

-----------------------------------------------------------------------------
(***************************************************************************)
(* The start, by the evaluator or by the recovery command.                 *)
(***************************************************************************)
\* What follows a start for its caller: StartUnavailable is tried once again.
Started(h)     == IF h \in Callers THEN Go(h, "drive") ELSE UNCHANGED evaluator
Unavailable(h) ==
    IF h \in Callers
    THEN evaluator' = [evaluator EXCEPT ![h].step = IF evaluator[h].retried THEN "error" ELSE "start",
                                        ![h].retried = TRUE]
    ELSE UNCHANGED evaluator

Starting(h, w) ==
    IF h \in Callers THEN At(h, "start") /\ w = Work(h)
    ELSE start[w].status \in {"pending", "failed"} /\ \A v \in Works : start[v].holder # h

\* _claim_start: a run that is started, or that another process holds, is left.
Claim(h, w) ==
    /\ Starting(h, w)
    /\ start[w].status # "none"
    /\ start[w].holder # h
    /\ IF start[w].status = "started" \/ start[w].holder # None
       THEN h \in Callers /\ Go(h, "drive") /\ UNCHANGED start
       ELSE /\ start' = [start EXCEPT ![w].status = "pending", ![w].holder = h,
                                      ![w].accepted = FALSE, ![w].attempts = @ + 1]
            /\ UNCHANGED evaluator
    /\ UNCHANGED <<evaluation, result, worker, faultVars, faults>>

MarkStarted(h, w) ==
    /\ start' = [start EXCEPT ![w].status = "started", ![w].holder = None]
    /\ Started(h)

\* Temporal knows the workflow's id already, or it starts it.
StartWorkflow(h, w) ==
    /\ start[w].holder = h
    /\ ~start[w].accepted
    /\ \/ /\ workflow[w].phase = "absent"
          /\ workflow' = [workflow EXCEPT ![w].phase = "begin"]
          /\ start' = [start EXCEPT ![w].accepted = TRUE]
          /\ UNCHANGED evaluator
       \/ workflow[w].phase # "absent" /\ MarkStarted(h, w) /\ UNCHANGED workflow
    /\ UNCHANGED <<evaluation, result, db, attempt, faultVars, faults>>

\* The injected fault after Temporal has accepted the start.
FinishStart(h, w) ==
    LET p == <<w, "start">>
    IN  /\ start[w].holder = h
        /\ start[w].accepted
        /\ \/ ~Fires(p) /\ reader[h] = None /\ MarkStarted(h, w) /\ UNCHANGED faultVars
           \/ SelectPlan(h, p) /\ UNCHANGED <<start, evaluator>>
           \/ /\ TakeTrigger(h, p)
              /\ start' = [start EXCEPT ![w].status = "failed", ![w].holder = None]
              /\ Unavailable(h)
        /\ UNCHANGED <<evaluation, result, worker, faults>>

\* The command dies, and its lease expires.
RecoveryDies(w) ==
    /\ start[w].holder = Recovery
    /\ start' = [start EXCEPT ![w].holder = None]
    /\ reader' = [reader EXCEPT ![Recovery] = None]
    /\ Fault
    /\ UNCHANGED <<harness, worker, plan, consumed, granted>>

-----------------------------------------------------------------------------
(***************************************************************************)
(* The drive: _drive_case.                                                 *)
(***************************************************************************)
\* A row of the activity's own call, whose `by` is 0, or of a probe.
Row(by, tool, status, error) == [by |-> by, tool |-> tool, status |-> status, error |-> error]

Driver(c) == Case(c).driver

\* The attempts of _drive_tool_attempts that are made at all, and what the
\* gateway makes of one: None if it executes it.
Probes(c) == {i \in DOMAIN Driver(c).probes : Driver(c).probes[i].timing = "after_run_created"}

Refused(c, i) ==
    LET p == Driver(c).probes[i]
    IN  IF p.actor # "managed_agent" \/ p.tool \in Case(c).omitted
        THEN Row(i, p.tool, "denied", "policy_denied")
        ELSE IF p.malformed THEN Row(i, p.tool, "failed", "invalid_arguments")
        ELSE None

\* A case that is to fail is only waited for.  The others are driven, and first
\* with what comes too early: all such attempts, whoever they are made for.
DriveCase(c) ==
    LET attempts == Driver(c).attempts
    IN  /\ At(c, "drive")
        /\ IF Case(c).outcome.run = "failed" THEN Go(c, "await")
           ELSE evaluator' = [evaluator EXCEPT
                   ![c].step = "early",
                   ![c].todo = {i \in DOMAIN attempts : attempts[i].timing = "before_request"}]
        /\ UNCHANGED <<evaluation, result, start, worker, faultVars, faults>>

\* _drive_tool_attempts: RuntimeError if one is executed; the suite's are all
\* refused, and recorded.
Probe(c) ==
    /\ At(c, "early")
    /\ evaluator[c].todo = {}
    /\ db' = [db EXCEPT ![Work(c)].rows =
                 @ \cup ({Refused(c, i) : i \in Probes(c)} \ {None})]
    /\ Go(c, IF \E i \in Probes(c) : Refused(c, i) = None THEN "error" ELSE "approval")
    /\ UNCHANGED <<evaluation, result, start, workflow, attempt, faultVars, faults>>

\* _wait_for_approval.
SeeApproval(c) ==
    /\ At(c, "approval")
    /\ db[Work(c)].approval # "absent"
    /\ Go(c, "phase")
    /\ UNCHANGED <<evaluation, result, start, worker, faultVars, faults>>

\* _wait_for_approval_phase: the phase is set before request_approval and left
\* by a decision.  A case that cancels signals then; another one sends what is
\* left of its attempts, but for those that are not authorized.
SeePhase(c) ==
    LET w == Work(c)
        attempts == Driver(c).attempts
        cancels == Driver(c).cancels # "none"
    IN  /\ At(c, "phase")
        /\ workflow[w].phase \in {"ask", "wait", "cancel"}
        /\ evaluator' = [evaluator EXCEPT
              ![c].step = IF cancels THEN "await" ELSE "decide",
              ![c].todo = {i \in DOMAIN attempts :
                              attempts[i].timing # "before_request" /\ attempts[i].authorized}]
        /\ workflow' =
              IF ~cancels THEN workflow
              ELSE [workflow EXCEPT ![w].cancelled = TRUE,
                                    ![w].phase = IF @ = "wait" THEN "cancel" ELSE @]
        /\ UNCHANGED <<evaluation, result, start, db, attempt, faultVars, faults>>

\* The attempt that is sent, or to be sent next.
Turn(c) == CHOOSE i \in evaluator[c].todo : \A j \in evaluator[c].todo : i <= j

\* One that must be accepted is sent until it is; another one is sent once,
\* whatever comes of it.
Required(c) == At(c, "decide") /\ Driver(c).attempts[Turn(c)].effect = "accepted"

\* An update is called for and not answered yet.  Nothing limits that call.
Pending(c) == evaluator[c].step \in {"early", "decide"} /\ evaluator[c].sent

Send(c) ==
    /\ evaluator[c].step \in {"early", "decide"}
    /\ evaluator[c].todo # {}
    /\ ~evaluator[c].sent
    /\ evaluator' = [evaluator EXCEPT ![c].sent = TRUE]
    /\ UNCHANGED <<evaluation, result, start, worker, faultVars, faults>>

Returned(c, over) ==
    evaluator' = [evaluator EXCEPT ![c].sent = FALSE,
                                   ![c].todo = IF over THEN @ \ {Turn(c)} ELSE @]

\* validate_decision.  What comes too early names no request of the run.
Acceptable(c) ==
    /\ At(c, "decide")
    /\ workflow[Work(c)].phase = "wait"
    /\ ~Driver(c).attempts[Turn(c)].stale

\* A worker runs the validator and the handler; the answer may be lost.
Accept(c) ==
    /\ Pending(c)
    /\ Acceptable(c)
    /\ workflow' = [workflow EXCEPT ![Work(c)].phase = "record",
                                    ![Work(c)].chosen = Driver(c).attempts[Turn(c)].verdict]
    /\ \/ Returned(c, TRUE) /\ UNCHANGED faults
       \/ Returned(c, ~Required(c)) /\ Fault
    /\ UNCHANGED <<evaluation, result, start, db, attempt, faultVars>>

\* A worker runs the validator and it refuses, or there is no open workflow and
\* Temporal says so.  An update that was accepted before is answered as it was.
Refuse(c) ==
    /\ Pending(c)
    /\ ~Acceptable(c)
    /\ Returned(c, ~Required(c) \/ workflow[Work(c)].chosen # None)
    /\ UNCHANGED <<evaluation, result, start, worker, faultVars, faults>>

\* The call fails before the update is delivered.
CallFails(c) ==
    /\ Pending(c)
    /\ Returned(c, ~Required(c))
    /\ Fault
    /\ UNCHANGED <<evaluation, result, start, worker, faultVars>>

Decided(c) ==
    /\ At(c, "decide")
    /\ evaluator[c].todo = {}
    /\ Go(c, "await")
    /\ UNCHANGED <<evaluation, result, start, worker, faultVars, faults>>

\* The status a case is driven to.
Awaited(case) ==
    IF case.outcome.run = "failed" THEN "FAILED"
    ELSE IF case.driver.cancels # "none" THEN "CANCELLED"
    ELSE IF case.outcome.run = "succeeded" THEN "SUCCEEDED"
    ELSE "REJECTED"

\* _wait_for_status.
SeeStatus(c) ==
    /\ At(c, "await")
    /\ db[Work(c)].run = Awaited(Case(c))
    /\ Go(c, "collect")
    /\ UNCHANGED <<evaluation, result, start, worker, faultVars, faults>>

\* Where a deadline is looked at: while a row or a phase is polled for, and before
\* an update that must be accepted is sent, but not while it is unanswered.
Waiting(c) ==
    \/ evaluator[c].step \in {"approval", "phase", "await"}
    \/ At(c, "decide") /\ evaluator[c].todo # {} /\ ~evaluator[c].sent /\ Required(c)

\* (Never: a variant that waits for ever.)
GiveUpNever(c) == FALSE

\* The deadline is past.
GiveUp(c) ==
    /\ Waiting(c)
    /\ Go(c, "error")
    /\ UNCHANGED <<evaluation, result, start, worker, faultVars, faults>>

-----------------------------------------------------------------------------
(***************************************************************************)
(* The verdict.                                                            *)
(***************************************************************************)
\* The events' types, by their sequence numbers.
InOrder(events) ==
    [i \in 1 .. Cardinality(events) |->
        (CHOOSE e \in events : Cardinality({f \in events : f[1] < e[1]}) = i - 1)[2]]

SumOf(w) == LET n(p) == consumed[<<w, p>>]
            IN n("lookup") + n("search") + n("provider") + n("waiting") + n("email") + n("start")

Status == [PENDING |-> "pending", RUNNING |-> "running", WAITING |-> "waiting",
           SUCCEEDED |-> "succeeded", REJECTED |-> "rejected", CANCELLED |-> "cancelled",
           FAILED |-> "failed"]

\* _collect_actual.  The consumptions are read last, and are all that still
\* grows then.
Evidence(w) ==
    [run |-> Status[db[w].run], vendor |-> db[w].vendor, approval |-> db[w].approval,
     requests |-> IF db[w].approval = "absent" THEN 0 ELSE 1, decisions |-> db[w].decided,
     listed |-> db[w].listed, emails |-> db[w].emails, model |-> db[w].model,
     failure |-> db[w].failure, rows |-> db[w].rows, events |-> InOrder(db[w].events),
     starts |-> start[w].attempts, retries |-> SumOf(w)]

Collect(c) ==
    /\ At(c, "collect")
    /\ evaluator' = [evaluator EXCEPT ![c].step = "persist", ![c].evidence = Evidence(Work(c))]
    /\ UNCHANGED <<evaluation, result, start, worker, faultVars, faults>>

\* _persist_case_result: the commit's answer may be lost.
Persist(c) ==
    LET passes == Mismatches(Case(c).outcome, evaluator[c].evidence) = {}
    IN  /\ At(c, "persist")
        /\ result' = [result EXCEPT ![Work(c)] =
              Result(IF passes THEN "PASSED" ELSE "FAILED", evaluator[c].evidence)]
        /\ \/ Advance(c, passes) /\ UNCHANGED faults
           \/ Go(c, "error") /\ Fault
        /\ UNCHANGED <<evaluation, start, worker, faultVars>>

\* _record_case_error: a second result of the case breaks
\* uq_evaluation_result_case, outside of any handler.
RecordError(c) ==
    /\ At(c, "error")
    /\ \/ /\ result[Work(c)].status = "none"
          /\ result' = [result EXCEPT ![Work(c)] = Result("ERROR", None)]
          /\ Advance(c, FALSE)
       \/ /\ result[Work(c)].status # "none"
          /\ Go(c, "aborted")
          /\ UNCHANGED result
    /\ UNCHANGED <<evaluation, start, worker, faultVars, faults>>

Complete(c) ==
    LET verdict == IF evaluator[c].passed THEN "SUCCEEDED" ELSE "FAILED"
    IN  /\ At(c, "case")
        /\ evaluator[c].case \notin DOMAIN evaluator[c].suite
        /\ evaluation' = [evaluation EXCEPT ![KeyOf[c]].status = verdict]
        /\ Go(c, "done")
        /\ UNCHANGED <<result, start, worker, faultVars, faults>>

\* The evaluator's process dies; a lease that it holds expires.
Die(c) ==
    /\ evaluator[c].step \notin Gone
    /\ Go(c, "dead")
    /\ start' = [w \in Works |-> IF start[w].holder = c THEN [start[w] EXCEPT !.holder = None]
                                 ELSE start[w]]
    /\ reader' = [reader EXCEPT ![c] = None]
    /\ Fault
    /\ UNCHANGED <<evaluation, result, worker, plan, consumed, granted>>

-----------------------------------------------------------------------------
(***************************************************************************)
(* The workflow and its activities.                                        *)
(***************************************************************************)
\* The faults before and after an activity's transaction.  A point stands for all
\* that fire beside it with the same effect: `lookup`, where its action is not
\* permanent, for ACTIVE_ACTIVITY and DATABASE_OPERATION, and `email` for
\* PROJECTION_POST_COMMIT_HANDOFF.
Before == [begin |-> {"lookup"}, assess |-> {"search", "provider"},
           ask |-> {}, cancel |-> {}, record |-> {}]
After  == [begin |-> {}, assess |-> {}, ask |-> {"waiting"}, cancel |-> {}, record |-> {"email"}]

Schedule(w, s) ==
    /\ workflow[w].phase \in Acting
    /\ workflow[w].slot = None
    /\ attempt[s] = None
    /\ workflow' = [workflow EXCEPT ![w].slot = s]
    /\ attempt' = [attempt EXCEPT ![s] =
          [work |-> w, activity |-> workflow[w].phase, step |-> "before",
           todo |-> Before[workflow[w].phase], model |-> "succeeded"]]
    /\ UNCHANGED <<harness, start, db, faultVars, faults>>

NextPhase(w) ==
    CASE workflow[w].phase = "begin"  -> "assess"
      [] workflow[w].phase = "assess" -> "ask"
      [] workflow[w].phase = "ask"    -> IF workflow[w].cancelled THEN "cancel" ELSE "wait"
      [] workflow[w].phase = "cancel" -> "cancelled"
      [] workflow[w].phase = "record" -> "completed"

\* The workflow moves on, tries again or fails.
Turned(w, reply) ==
    LET phase == IF reply = "ok" THEN NextPhase(w)
                 ELSE IF reply = "retry" /\ workflow[w].tries + 1 < MaxAttempts
                 THEN workflow[w].phase
                 ELSE "failed"
    IN  [workflow EXCEPT ![w].phase = phase, ![w].slot = None,
                         ![w].tries = IF phase = workflow[w].phase THEN @ + 1 ELSE 0]

\* The attempt in s ends; Temporal may have given up on it.
Reply(s, reply) ==
    LET w == attempt[s].work
    IN  /\ workflow' = IF workflow[w].slot = s THEN Turned(w, reply) ELSE workflow
        /\ attempt' = [attempt EXCEPT ![s] = None]

\* start_to_close_timeout.
TimeOut(w) ==
    /\ workflow[w].slot # None
    /\ workflow' = Turned(w, "retry")
    /\ IF workflow[w].slot = Lost THEN UNCHANGED faults ELSE Fault
    /\ UNCHANGED <<harness, start, db, attempt, faultVars>>

\* The worker dies.
Drop(s) ==
    /\ attempt[s] # None
    /\ LET w == attempt[s].work
       IN  workflow' = IF workflow[w].slot = s THEN [workflow EXCEPT ![w].slot = Lost] ELSE workflow
    /\ attempt' = [attempt EXCEPT ![s] = None]
    /\ reader' = [reader EXCEPT ![s] = None]
    /\ Fault
    /\ UNCHANGED <<harness, start, db, plan, consumed, granted>>

Doing(s, step) == attempt[s] # None /\ attempt[s].step = step

\* inject: the attempt reaches a fault point.
Reach(s, p) ==
    LET q == <<attempt[s].work, p>>
    IN  /\ attempt[s] # None
        /\ attempt[s].step \in {"before", "after"}
        /\ p \in attempt[s].todo
        /\ p = "provider" => "search" \notin attempt[s].todo
        /\ \/ /\ ~Fires(q)
              /\ reader[s] = None
              /\ attempt' = [attempt EXCEPT ![s].todo = @ \ {p}]
              /\ UNCHANGED faultVars
           \/ SelectPlan(s, q) /\ UNCHANGED attempt
           \/ /\ TakeTrigger(s, q)
              /\ attempt' =
                    IF p = "provider"
                    THEN [attempt EXCEPT ![s].todo = @ \ {p}, ![s].model = "failed"]
                    ELSE [attempt EXCEPT ![s].todo = {p}, ![s].step = "hit"]
        /\ UNCHANGED <<harness, start, workflow, db, faults>>

\* begin_review's own writes.
Begun(rows) ==
    [rows EXCEPT !.run = IF @ = "PENDING" THEN "RUNNING" ELSE @,
                 !.vendor = IF @ = "SUBMITTED" THEN "UNDER_REVIEW" ELSE @]

\* An event, unless its sequence number is taken.
Event(rows, sequence, type) ==
    IF \E e \in rows.events : e[1] = sequence THEN rows
    ELSE [rows EXCEPT !.events = @ \cup {<<sequence, type>>}]

\* The row of the activity's own call, which is made once.
Called(rows, tool, status, error) ==
    IF \E r \in rows.rows : r.tool = tool /\ r.by = 0 THEN rows
    ELSE [rows EXCEPT !.rows = @ \cup {Row(0, tool, status, error)}]

\* _required_tool_failed, for good: what the transaction commits.
Failed(rows, category, sequence) ==
    LET taken == \E e \in rows.events : e[1] = sequence
    IN  [Event(rows, sequence, "review_failed") EXCEPT
            !.run = "FAILED", !.failure = IF taken THEN @ ELSE category]

Permanent(w, p) == \E f \in Contract(w).faults : f.point = p /\ f.action = "permanent"

\* The directive takes effect: an error that Temporal retries, or a required
\* tool's failure.
Hit(s) ==
    LET w == attempt[s].work
        Met(p) == attempt[s].todo = {p}
    IN  /\ Doing(s, "hit")
        /\ \/ /\ Met("lookup")
              /\ ~Permanent(w, "lookup")
              /\ db' = [db EXCEPT ![w] = Begun(@)]
              /\ Reply(s, "retry")
           \/ /\ Met("lookup")
              /\ Permanent(w, "lookup")
              /\ db' = [db EXCEPT ![w] =
                    Failed(Called(Begun(@), "lookup", "failed", "execution_failed"), "invalid_input", 15)]
              /\ Reply(s, "fatal")
           \/ /\ Met("search")
              /\ Permanent(w, "search")
              /\ db' = [db EXCEPT ![w] =
                    Failed(Called(@, "search", "failed", "execution_failed"), "policy_retrieval_failed", 25)]
              /\ Reply(s, "fatal")
           \/ /\ ~Met("lookup")
              /\ ~(Met("search") /\ Permanent(w, "search"))
              /\ Reply(s, "retry")
              /\ UNCHANGED db
        /\ UNCHANGED <<harness, start, faultVars, faults>>

Past(s) == attempt' = [attempt EXCEPT ![s].step = "after", ![s].todo = After[attempt[s].activity]]

Committing(s, activity) ==
    Doing(s, "before") /\ attempt[s].todo = {} /\ attempt[s].activity = activity

CommitBegin(s) ==
    LET w == attempt[s].work
    IN  /\ Committing(s, "begin")
        /\ \/ /\ "lookup" \notin Contract(w).omitted
              /\ db' = [db EXCEPT ![w] =
                    Event(Called(Begun(@), "lookup", "succeeded", "none"), 10, "review_started")]
              /\ Past(s)
              /\ UNCHANGED workflow
           \/ /\ "lookup" \in Contract(w).omitted
              /\ db' = [db EXCEPT ![w] =
                    Failed(Called(Begun(@), "lookup", "denied", "policy_denied"),
                           "tool_permission_denied", 15)]
              /\ Reply(s, "fatal")
        /\ UNCHANGED <<harness, start, faultVars, faults>>

CommitAssess(s) ==
    LET w == attempt[s].work
        assessed(rows) ==
            [Called(rows, "search", "succeeded", "none") EXCEPT
                !.model = IF @ = "failed" THEN @ ELSE attempt[s].model]
    IN  /\ Committing(s, "assess")
        /\ db' = [db EXCEPT ![w] =
              Event(Event(assessed(@), 20, "risk_assessed"), 25, "risk_policy_context")]
        /\ Past(s)
        /\ UNCHANGED <<harness, start, workflow, faultVars, faults>>

\* One request for a run, which waits then.
Asked(rows) ==
    [Event(rows, 30, "approval_requested") EXCEPT
        !.run = "WAITING", !.approval = IF @ = "absent" THEN "PENDING" ELSE @]

CommitAsk(s) ==
    LET w == attempt[s].work
    IN  /\ Committing(s, "ask")
        /\ db' = [db EXCEPT ![w] = Asked(@)]
        /\ Past(s)
        /\ UNCHANGED <<harness, start, workflow, faultVars, faults>>

\* A run that has ended is left alone.
Withdrawn(rows) ==
    IF rows.run \in Ended THEN rows
    ELSE [Event(rows, 50, "review_cancelled") EXCEPT
            !.run = "CANCELLED", !.approval = IF @ = "PENDING" THEN "CANCELLED" ELSE @]

CommitCancel(s) ==
    LET w == attempt[s].work
    IN  /\ Committing(s, "cancel")
        /\ db' = [db EXCEPT ![w] = Withdrawn(@)]
        /\ Past(s)
        /\ UNCHANGED <<harness, start, workflow, faultVars, faults>>

\* What a decision commits: the rows of all its effects.
Effects(rows, verdict) ==
    LET decided == [Event(rows, 40, "approval_decided") EXCEPT
                       !.approval = verdict, !.vendor = verdict, !.decided = 1,
                       !.run = IF verdict = "APPROVED" THEN "SUCCEEDED" ELSE "REJECTED"]
    IN  IF verdict = "REJECTED" THEN decided
        ELSE [Called(decided, "email", "succeeded", "none") EXCEPT !.listed = 1, !.emails = 1]

\* record_decision: a decision that is there is the answer, and its faults are
\* behind it.
CommitRecord(s) ==
    LET w == attempt[s].work
    IN  /\ Committing(s, "record")
        /\ \/ /\ db[w].decided = 0
              /\ db[w].approval = "PENDING"
              /\ db' = [db EXCEPT ![w] = Effects(@, workflow[w].chosen)]
              /\ Past(s)
           \/ /\ db[w].decided = 1
              /\ attempt' = [attempt EXCEPT ![s].step = "after"]
              /\ UNCHANGED db
        /\ UNCHANGED <<harness, start, workflow, faultVars, faults>>

Report(s) ==
    /\ Doing(s, "after")
    /\ attempt[s].todo = {}
    /\ Reply(s, "ok")
    /\ UNCHANGED <<harness, start, db, faultVars, faults>>

-----------------------------------------------------------------------------
Evaluate(c) ==
    \/ InvalidCase(c) \/ CreateIntent(c)
    \/ \E f \in evaluator[c].todo : At(c, "configure") /\ ConfigureFault(c, f)
    \/ Configured(c)
    \/ DriveCase(c) \/ Send(c) \/ Probe(c) \/ SeeApproval(c) \/ SeePhase(c) \/ Decided(c)
    \/ SeeStatus(c)
    \/ Collect(c) \/ Persist(c) \/ RecordError(c) \/ Complete(c)

Answer(c) == Accept(c) \/ Refuse(c)

StartBy(h, w) == Claim(h, w) \/ StartWorkflow(h, w) \/ FinishStart(h, w)

Activity(s) ==
    \/ \E p \in Points : Reach(s, p)
    \/ Hit(s) \/ CommitBegin(s) \/ CommitAssess(s) \/ CommitAsk(s)
    \/ CommitCancel(s) \/ CommitRecord(s) \/ Report(s)

\* The scope of a plan is a run's id.
Operator(p) ==
    /\ start[p[1]].status # "none"
    /\ Configure(p)
    /\ UNCHANGED <<harness, start, worker, faults>>

Next ==
    \/ \E c \in Callers, u \in Suites : Request(c, u)
    \/ \E c \in Callers : Evaluate(c) \/ Answer(c) \/ CallFails(c) \/ GiveUp(c) \/ Die(c)
    \/ \E h \in Callers \cup {Recovery}, w \in Works : StartBy(h, w)
    \/ \E w \in Works : RecoveryDies(w) \/ TimeOut(w)
    \/ \E w \in Works, s \in Slots : Schedule(w, s)
    \/ \E s \in Slots : Activity(s) \/ Drop(s)
    \/ \E p \in OperatorPlans : Operator(p)

\* An update that only a worker can answer, and none has.
Unanswered(c) ==
    Pending(c) /\ workflow[Work(c)].phase \notin {"absent", "cancelled", "completed", "failed"}

\* The evaluator, the activities that a worker has and a command that holds a
\* lease go on, and Temporal answers for a workflow that is not open.  Deadlines
\* pass, though a call keeps one from being looked at.  That a worker takes up an
\* activity or an update is not assumed.
Fairness ==
    /\ \A c \in Callers :
          /\ WF_vars(Evaluate(c))
          /\ WF_vars(Answer(c) /\ ~Unanswered(c))
          /\ SF_vars(GiveUp(c))
          /\ WF_vars(\E w \in Works : StartBy(c, w))
    /\ WF_vars(\E w \in Works : StartWorkflow(Recovery, w) \/ FinishStart(Recovery, w))
    /\ \A s \in Slots : WF_vars(Activity(s))

Spec == Init /\ [][Next]_vars /\ Fairness

-----------------------------------------------------------------------------
\* A run of the harness succeeds only if every case of its suite has a result
\* that passed, whatever was repeated, lost or given up on, and what the case
\* passed for is in its run's rows to stay: the decision, the listing and the
\* message, once each, and the faults that were to be survived
\* (run_production_vendor_onboarding).
SucceededIsEarned ==
    \A k \in Keys : evaluation[k].status = "SUCCEEDED" =>
        \A i \in DOMAIN evaluation[k].suite :
            LET w == <<k, i>>
                expected == evaluation[k].suite[i].outcome
            IN  /\ result[w].status = "PASSED"
                /\ Mismatches(expected, result[w].evidence) = {}
                /\ db[w].decided = expected.decisions
                /\ db[w].listed = expected.listed
                /\ db[w].emails = expected.emails
                /\ SumOf(w) >= expected.retries

\* A request for an evaluation is answered, or its process is gone, whatever
\* became of the case's workflow (the deadlines of _drive_case), unless it hangs
\* in one call: an update that no worker answers, which has no deadline
\* (execute_update).
EvaluationEnds ==
    \A c \in Callers :
        evaluator[c].step # "idle" ~> evaluator[c].step \in Gone \/ []Unanswered(c)
=============================================================================
