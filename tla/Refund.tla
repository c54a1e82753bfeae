------------------------------- MODULE Refund -------------------------------
(***************************************************************************)
(* The refund workflow (workflows/refund), its activities and the decision *)
(* route.  An activity attempt is a transaction in a slot of the worker.   *)
(* Temporal repeats an attempt it has no answer from, and one that it has  *)
(* given up on may still commit.  The statements of a transaction that     *)
(* another one can come between are steps of their own.  The activities    *)
(* that gather evidence touch nothing else reads: they are one step, which *)
(* ends well or with the last attempt of one of them.                      *)
(***************************************************************************)
EXTENDS Naturals, FiniteSets

CONSTANTS
    Runs,        \* workflow runs of the refund agent
    Refunds,     \* refund_id
    RefundOf,    \* the refund each run is for
    Granted,     \* the tools in each run's grant snapshot
    Requests,    \* requests of the decision route that are admitted
    Payloads,    \* what they bring: [run, decision, key, by]
    Slots,       \* activity slots of the worker
    MaxAttempts, \* maximum_attempts of RETRY
    MaxFaults,   \* bound: failures, time-outs and crashes
    None

ASSUME RefundAssumption ==
    /\ RefundOf \in [Runs -> Refunds]
    /\ DOMAIN Granted = Runs
    /\ \A p \in Payloads : p.run \in Runs /\ p.decision \in {"APPROVED", "REJECTED"}
    /\ MaxAttempts \in Nat \ {0}
    /\ MaxFaults \in Nat
    /\ None \notin Payloads /\ None \notin Runs
    /\ None \notin {"PENDING", "APPROVED", "REJECTED"}

VARIABLES
    request,    \* [step, payload, answer] of each request
    workflow,   \* [phase, tries, slot, decision] of each execution
    attempt,    \* the attempt in each slot, or None
    approval,   \* approval_requests.status, or None
    decided,    \* the payload that refund_decisions and approval_decisions
                \* hold, or None
    projection, \* refund_projections: the run that paid the refund, or None
    status,     \* workflow_runs.status
    notice,     \* the notification: "none", "denied" or "sent"
    faults      \* how many faults there have been

vars == <<request, workflow, attempt, approval, decided, projection, status, notice, faults>>

Transactions == {"request", "commit", "notify"}
Phases == {"evidence", "request", "wait", "commit", "notify", "completed", "failed"}
Closed(r) == workflow[r].phase \in {"completed", "failed"}

Lost == "lost"

TypeOK ==
    /\ \A q \in Requests :
          /\ request[q].step \in {"idle", "update", "closed"}
          /\ request[q].payload \in Payloads \cup {None}
          /\ request[q].answer \in {"none", "accepted", "refused"}
    /\ \A r \in Runs :
          /\ workflow[r].phase \in Phases
          /\ workflow[r].tries \in 0 .. MaxAttempts - 1
          /\ workflow[r].slot \in Slots \cup {None, Lost}
          /\ workflow[r].decision \in Payloads \cup {None}
    /\ approval \in [Runs -> {None, "PENDING", "APPROVED", "REJECTED"}]
    /\ decided \in [Runs -> Payloads \cup {None}]
    /\ projection \in [Refunds -> Runs \cup {None}]
    /\ status \in [Runs -> {"PENDING", "WAITING", "SUCCEEDED", "REJECTED"}]
    /\ notice \in [Runs -> {"none", "denied", "sent"}]
    /\ faults \in 0 .. MaxFaults

Init ==
    /\ request = [q \in Requests |-> [step |-> "idle", payload |-> None, answer |-> "none"]]
    /\ workflow = [r \in Runs |->
                     [phase |-> "evidence", tries |-> 0, slot |-> None, decision |-> None]]
    /\ attempt = [s \in Slots |-> None]
    /\ approval = [r \in Runs |-> None]
    /\ decided = [r \in Runs |-> None]
    /\ projection = [f \in Refunds |-> None]
    /\ status = [r \in Runs |-> "PENDING"]
    /\ notice = [r \in Runs |-> "none"]
    /\ faults = 0

-----------------------------------------------------------------------------
(***************************************************************************)
(* The workflow.                                                           *)
(***************************************************************************)
Fault == faults < MaxFaults /\ faults' = faults + 1

\* The activity of this phase has answered.
NextPhase(r) ==
    LET w == workflow[r]
    IN  IF w.phase = "request" THEN "wait"
        ELSE IF w.phase = "commit" /\ w.decision.decision = "APPROVED" THEN "notify"
        ELSE "completed"

Answered(r) ==
    [workflow EXCEPT ![r].phase = NextPhase(r), ![r].tries = 0, ![r].slot = None]

\* RETRY: the last attempt that fails is the workflow's failure.
Retried(r) ==
    IF workflow[r].tries + 1 < MaxAttempts
    THEN [workflow EXCEPT ![r].tries = @ + 1, ![r].slot = None]
    ELSE [workflow EXCEPT ![r].phase = "failed", ![r].tries = 0, ![r].slot = None]

\* retrieve_order_evidence, retrieve_policy_evidence, calculate_refund_risk and
\* explain_refund_risk.
Gather(r) ==
    /\ workflow[r].phase = "evidence"
    /\ \/ /\ {"order_details", "refund_policy"} \subseteq Granted[r]
          /\ workflow' = [workflow EXCEPT ![r].phase = "request"]
          /\ UNCHANGED faults
       \/ workflow' = [workflow EXCEPT ![r].phase = "failed"] /\ Fault
    /\ UNCHANGED <<request, attempt, approval, decided, projection, status, notice>>

Schedule(r, s) ==
    /\ workflow[r].phase \in Transactions
    /\ workflow[r].slot = None
    /\ attempt[s] = None
    /\ workflow' = [workflow EXCEPT ![r].slot = s]
    /\ attempt' = [attempt EXCEPT ![s] =
          [run |-> r, kind |-> workflow[r].phase, step |-> "begin", paid |-> FALSE,
           decision |-> workflow[r].decision]]
    /\ UNCHANGED <<request, approval, decided, projection, status, notice, faults>>

\* (Never: a variant without the time limit.)
TimeOutNever(r) == FALSE

\* start_to_close_timeout: the attempt goes on, if it is not lost.
TimeOut(r) ==
    /\ workflow[r].slot # None
    /\ workflow' = Retried(r)
    /\ IF workflow[r].slot = Lost THEN UNCHANGED faults ELSE Fault
    /\ UNCHANGED <<request, attempt, approval, decided, projection, status, notice>>

-----------------------------------------------------------------------------
(***************************************************************************)
(* The attempts.                                                           *)
(***************************************************************************)
Run(s) == attempt[s].run
At(s, kind, step) ==
    attempt[s] # None /\ attempt[s].kind = kind /\ attempt[s].step = step
To(s, step) == attempt' = [attempt EXCEPT ![s].step = step]
Awaited(s) == workflow[Run(s)].slot = s

\* The transaction is rolled back; Temporal is told, if it still waits.
Fails(s) ==
    /\ workflow' = IF Awaited(s) THEN Retried(Run(s)) ELSE workflow
    /\ attempt' = [attempt EXCEPT ![s] = None]

Fail(s) ==
    /\ attempt[s] # None
    /\ attempt[s].step # "report"
    /\ Fails(s)
    /\ Fault
    /\ UNCHANGED <<request, approval, decided, projection, status, notice>>

Report(s) ==
    /\ attempt[s] # None
    /\ attempt[s].step = "report"
    /\ workflow' = IF Awaited(s) THEN Answered(Run(s)) ELSE workflow
    /\ attempt' = [attempt EXCEPT ![s] = None]
    /\ UNCHANGED <<request, approval, decided, projection, status, notice, faults>>

\* The worker dies, in a transaction or after its commit.
Crash(s) ==
    /\ attempt[s] # None
    /\ workflow' = IF Awaited(s) THEN [workflow EXCEPT ![Run(s)].slot = Lost] ELSE workflow
    /\ attempt' = [attempt EXCEPT ![s] = None]
    /\ Fault
    /\ UNCHANGED <<request, approval, decided, projection, status, notice>>

\* request_approval: a request that is there is kept; the run waits again.
BeginRequest(s) ==
    /\ At(s, "request", "begin")
    /\ \/ approval[Run(s)] = None /\ To(s, "insert") /\ UNCHANGED status
       \/ /\ approval[Run(s)] # None
          /\ To(s, "report")
          /\ status' = [status EXCEPT ![Run(s)] = "WAITING"]
    /\ UNCHANGED <<request, workflow, approval, decided, projection, notice, faults>>

\* uq_approval_request_key.
InsertRequest(s) ==
    /\ At(s, "request", "insert")
    /\ \/ /\ approval[Run(s)] = None
          /\ approval' = [approval EXCEPT ![Run(s)] = "PENDING"]
          /\ status' = [status EXCEPT ![Run(s)] = "WAITING"]
          /\ To(s, "report")
          /\ UNCHANGED workflow
       \/ approval[Run(s)] # None /\ Fails(s) /\ UNCHANGED <<approval, status>>
    /\ UNCHANGED <<request, decided, projection, notice, faults>>

\* commit_refund_decision: a decision that is there is the answer.
BeginCommit(s) ==
    /\ At(s, "commit", "begin")
    /\ To(s, IF decided[Run(s)] # None THEN "report" ELSE "insert")
    /\ UNCHANGED <<request, workflow, approval, decided, projection, status, notice, faults>>

\* Both decision rows are flushed before the projection is looked for.
InsertDecision(s) ==
    /\ At(s, "commit", "insert")
    /\ \A t \in Slots \ {s} : At(t, "commit", "project") => Run(t) # Run(s)
    /\ \/ /\ decided[Run(s)] = None
          /\ attempt' = [attempt EXCEPT ![s].step = "project",
                                        ![s].paid = projection[RefundOf[Run(s)]] # None]
          /\ UNCHANGED workflow
       \/ decided[Run(s)] # None /\ Fails(s)
    /\ UNCHANGED <<request, approval, decided, projection, status, notice, faults>>

\* What the commit writes when its run pays, and when it does not.
Record(s) ==
    LET p == attempt[s].decision
    IN  /\ decided' = [decided EXCEPT ![Run(s)] = p]
        /\ approval' = [approval EXCEPT ![Run(s)] = p.decision]
        /\ status' = [status EXCEPT ![Run(s)] =
                        IF p.decision = "APPROVED" THEN "SUCCEEDED" ELSE "REJECTED"]
        /\ To(s, "report")
        /\ UNCHANGED workflow

Pays(s) == attempt[s].decision.decision = "APPROVED" /\ ~attempt[s].paid

\* (Twice: a variant without the unique key.)
CommitDecisionTwice(s) ==
    /\ At(s, "commit", "project")
    /\ projection' = IF Pays(s) THEN [projection EXCEPT ![RefundOf[Run(s)]] = Run(s)] ELSE projection
    /\ Record(s)
    /\ UNCHANGED <<request, notice, faults>>

\* (Apart: a variant that pays in a transaction after the decision's.)
CommitDecisionApart(s) ==
    /\ At(s, "commit", "project")
    /\ Record(s)
    /\ UNCHANGED <<request, projection, notice, faults>>

\* uq_refund_projection_refund: of two runs that saw none, one pays.
CommitDecision(s) ==
    /\ At(s, "commit", "project")
    /\ \/ ~Pays(s) /\ Record(s) /\ UNCHANGED projection
       \/ /\ Pays(s)
          /\ projection[RefundOf[Run(s)]] = None
          /\ projection' = [projection EXCEPT ![RefundOf[Run(s)]] = Run(s)]
          /\ Record(s)
       \/ /\ Pays(s)
          /\ projection[RefundOf[Run(s)]] # None
          /\ Fails(s)
          /\ UNCHANGED <<approval, decided, projection, status>>
    /\ UNCHANGED <<request, notice, faults>>

\* send_refund_notification: the e-mail row is committed with the tool's row, a
\* denial is recorded apart from it and answers every later attempt.
SendNotice(s) ==
    /\ At(s, "notify", "begin")
    /\ \/ /\ notice[Run(s)] # "denied"
          /\ "synthetic_email_send" \in Granted[Run(s)]
          /\ notice' = [notice EXCEPT ![Run(s)] = "sent"]
          /\ To(s, "report")
          /\ UNCHANGED workflow
       \/ /\ notice[Run(s)] = "denied" \/ "synthetic_email_send" \notin Granted[Run(s)]
          /\ notice' = [notice EXCEPT ![Run(s)] = "denied"]
          /\ Fails(s)
    /\ UNCHANGED <<request, approval, decided, projection, status, faults>>

-----------------------------------------------------------------------------
(***************************************************************************)
(* decide_onboarding: the handler's transaction, then the update.          *)
(***************************************************************************)
Close(q, answer) ==
    request' = [request EXCEPT ![q].step = "closed", ![q].payload = None, ![q].answer = answer]

\* 404 for a request that is not there, 409 for a conflict or one that is not
\* pending.
CheckDecision(q, p) ==
    LET known == decided[p.run]
        replay == known # None /\ known.key = p.key
    IN  /\ request[q].step = "idle"
        /\ \/ replay /\ known = p /\ Close(q, "accepted")
           \/ replay /\ known # p /\ Close(q, "refused")
           \/ ~replay /\ approval[p.run] # "PENDING" /\ Close(q, "refused")
           \/ /\ ~replay
              /\ approval[p.run] = "PENDING"
              /\ request' = [request EXCEPT ![q].step = "update", ![q].payload = p]
        /\ UNCHANGED <<workflow, attempt, approval, decided, projection, status, notice, faults>>

\* validate_decision and decide.  Temporal answers an update it knows by its id,
\* the key; 503 if an answer is lost.
Update(q) ==
    LET p == request[q].payload
        w == workflow[p.run]
        known == w.decision # None /\ w.decision.key = p.key
    IN  /\ request[q].step = "update"
        /\ \/ /\ w.phase = "wait"
              /\ workflow' = [workflow EXCEPT ![p.run].phase = "commit", ![p.run].decision = p]
              /\ Close(q, "accepted") \/ Close(q, "refused")
           \/ known /\ Close(q, "accepted") /\ UNCHANGED workflow
           \/ ~known /\ w.phase # "wait" /\ Close(q, "refused") /\ UNCHANGED workflow
        /\ UNCHANGED <<attempt, approval, decided, projection, status, notice, faults>>

-----------------------------------------------------------------------------
Activity(s) ==
    \/ BeginRequest(s) \/ InsertRequest(s)
    \/ BeginCommit(s) \/ InsertDecision(s) \/ CommitDecision(s)
    \/ SendNotice(s) \/ Report(s)

Next ==
    \/ \E q \in Requests, p \in Payloads : CheckDecision(q, p)
    \/ \E q \in Requests : Update(q)
    \/ \E r \in Runs : Gather(r) \/ TimeOut(r)
    \/ \E r \in Runs, s \in Slots : Schedule(r, s)
    \/ \E s \in Slots : Activity(s) \/ Fail(s) \/ Crash(s)

\* Temporal schedules and times out, and a worker with a database goes on;
\* nobody has to fail, to ask or to decide.
Fairness ==
    /\ \A r \in Runs :
          /\ WF_vars(Gather(r))
          /\ WF_vars(\E s \in Slots : Schedule(r, s))
          /\ WF_vars(workflow[r].slot = Lost /\ TimeOut(r))
    /\ \A s \in Slots : WF_vars(Activity(s))

Spec == Init /\ [][Next]_vars /\ Fairness

-----------------------------------------------------------------------------
\* The rows of a decision agree, whichever attempts overlap and whichever run
\* of the refund pays it: a run is decided exactly when its approval is, an
\* approved refund is paid, only an approved run pays, and what is recorded is
\* what the workflow accepted (commit_refund_decision).
DecisionIsWhole ==
    /\ \A r \in Runs :
          /\ decided[r] = None <=> approval[r] \in {None, "PENDING"}
          /\ decided[r] # None =>
                /\ decided[r] = workflow[r].decision
                /\ approval[r] = decided[r].decision
                /\ approval[r] = "APPROVED" => projection[RefundOf[r]] # None
    /\ \A f \in Refunds : projection[f] # None =>
          /\ RefundOf[projection[f]] = f
          /\ approval[projection[f]] = "APPROVED"

\* The money of a refund moves once, although two runs may be approved for it
\* at a time (uq_refund_projection_refund).
RefundPaidOnce ==
    [][\A f \in Refunds : projection[f] # None => projection'[f] = projection[f]]_vars

\* A decision the workflow has accepted is recorded, or the workflow fails.
DecisionSettles ==
    \A r \in Runs : workflow[r].decision # None ~> decided[r] # None \/ Closed(r)

\* docs/system-overview.md: the workflow "writes an idempotent refund projection
\* and notification".
PaidIsNotified ==
    \A r \in Runs : decided[r] # None /\ approval[r] = "APPROVED" /\ Closed(r)
                    ~> notice[r] = "sent"
=============================================================================
