-------------------------- MODULE VendorOnboarding --------------------------
(***************************************************************************)
(* The vendor-onboarding workflow: a Temporal workflow that runs retried   *)
(* activities against PostgreSQL (workflows/vendor_onboarding.py,          *)
(* workflows/activities.py) and the API that delivers an approver's        *)
(* decision or a cancellation to it (api.py).                              *)
(*                                                                         *)
(* An activity body is one transaction, hence one step: it locks the rows  *)
(* it changes or has its update refused by their version column.  What     *)
(* Temporal sees of it is a reply: "ok", "retry" (an error it retries) or  *)
(* "fatal" (one it does not).  An attempt whose reply does not come in     *)
(* time is retried, while its body may still commit at any later moment.   *)
(*                                                                         *)
(* An approval request's version is 1 exactly while it is PENDING, so      *)
(* comparing expected_version comes down to comparing the status.          *)
(***************************************************************************)
EXTENDS Naturals, FiniteSets

CONSTANTS
    Runs,           \* workflow runs
    Vendors,        \* vendors
    VendorOf,       \* the vendor of each run
    Decisions,      \* what approvers may submit: [verdict, key]
    BrokenTools,    \* tools that may fail for good
    MaxAttempts,    \* ACTIVITY_RETRY.maximum_attempts
    MaxExecutions,  \* bound: executions of each run's workflow id
    MaxFaults,      \* bound: failing calls, aborted transactions, time-outs
    None

Verdicts == {"APPROVED", "REJECTED"}
Tools    == {"lookup", "search", "email"}

ASSUME ConstantsAssumption ==
    /\ VendorOf \in [Runs -> Vendors]
    /\ \A d \in Decisions : d.verdict \in Verdicts
    /\ BrokenTools \subseteq Tools
    /\ MaxAttempts \in Nat \ {0}
    /\ MaxExecutions \in [Runs -> Nat]
    /\ MaxFaults \in Nat
    /\ None \notin Decisions
    /\ None \notin Runs
    /\ None \notin Verdicts \cup {"PENDING", "CANCELLED"}

VARIABLES
    \* PostgreSQL
    run,        \* workflow_runs.status
    vendor,     \* vendors.status
    approval,   \* approval_requests.status of the run's request, or None
    decisions,  \* approval_decisions rows of the run's request
    listed,     \* run of the vendor's approved_vendors row, or None
    invocation, \* tool_invocations row of each call: none, ok or bad
    events,     \* workflow_events of the run, as <<sequence, type>>
    audits,     \* actions of the run's audit_events
    \* the current execution of the run's workflow
    phase,      \* _phase, "absent" before the start, "failed" after a failure
    requested,  \* has request_approval returned its id and version?
    chosen,     \* _decision
    cancelled,  \* _cancelled
    attempt,    \* attempt of the current activity
    \* Temporal and the API
    executions, \* executions started so far
    late,       \* attempts that timed out and may still commit
    inbox,      \* decisions that passed the API's check, on their way
    acked,      \* decisions the API answered with 202
    faults      \* faults so far

dbVars == <<run, vendor, approval, decisions, listed, invocation, events, audits>>
wfVars == <<phase, requested, chosen, cancelled, attempt>>
vars   == <<dbVars, wfVars, executions, late, inbox, acked, faults>>

Replies    == {"ok", "retry", "fatal"}
Ended      == {"SUCCEEDED", "REJECTED", "CANCELLED"}
RunStatus  == {"PENDING", "RUNNING", "WAITING", "FAILED"} \cup Ended
Activities == {"begin_review", "assess_risk", "request_approval",
               "record_decision", "cancel_review"}
Closed     == {"absent", "completed", "cancelled", "failed"}
Phases     == {"created", "assessing_risk", "waiting_for_approval",
               "recording_decision"} \cup Closed

EventTypes == {<<10, "review_started">>, <<15, "review_failed">>,
               <<20, "risk_assessed">>, <<25, "risk_policy_context">>,
               <<25, "review_failed">>, <<30, "approval_requested">>,
               <<40, "approval_decided">>, <<50, "review_cancelled">>}

Actions == {"vendor.review.start", "vendor.risk.assess", "approval.request.create",
            "approval.decision.record", "workflow.cancel",
            "tool.required.retry", "tool.required.failure"}

\* An attempt of an activity that Temporal has given up on.
LateAttempts ==
    [run : Runs, activity : Activities, decision : Decisions \cup {None},
     execution : Nat, attempt : Nat]

TypeOK ==
    /\ run \in [Runs -> RunStatus]
    /\ vendor \in [Vendors -> {"SUBMITTED", "UNDER_REVIEW"} \cup Verdicts]
    /\ approval \in [Runs -> {None, "PENDING", "CANCELLED"} \cup Verdicts]
    /\ decisions \in [Runs -> SUBSET Decisions]
    /\ listed \in [Vendors -> Runs \cup {None}]
    /\ invocation \in [Runs -> [Tools -> {"none", "ok", "bad"}]]
    /\ events \in [Runs -> SUBSET EventTypes]
    /\ audits \in [Runs -> SUBSET Actions]
    /\ phase \in [Runs -> Phases]
    /\ requested \in [Runs -> BOOLEAN]
    /\ chosen \in [Runs -> Decisions \cup {None}]
    /\ cancelled \in [Runs -> BOOLEAN]
    /\ attempt \in [Runs -> Nat]
    /\ executions \in [Runs -> Nat]
    /\ late \subseteq LateAttempts
    /\ inbox \in [Runs -> SUBSET Decisions]
    /\ acked \in [Runs -> SUBSET Decisions]
    /\ faults \in Nat

Init ==
    /\ run = [r \in Runs |-> "PENDING"]
    /\ vendor = [v \in Vendors |-> "SUBMITTED"]
    /\ approval = [r \in Runs |-> None]
    /\ decisions = [r \in Runs |-> {}]
    /\ listed = [v \in Vendors |-> None]
    /\ invocation = [r \in Runs |-> [t \in Tools |-> "none"]]
    /\ events = [r \in Runs |-> {}]
    /\ audits = [r \in Runs |-> {}]
    /\ phase = [r \in Runs |-> "absent"]
    /\ requested = [r \in Runs |-> FALSE]
    /\ chosen = [r \in Runs |-> None]
    /\ cancelled = [r \in Runs |-> FALSE]
    /\ attempt = [r \in Runs |-> 1]
    /\ executions = [r \in Runs |-> 0]
    /\ late = {}
    /\ inbox = [r \in Runs |-> {}]
    /\ acked = [r \in Runs |-> {}]
    /\ faults = 0

-----------------------------------------------------------------------------
(***************************************************************************)
(* What the activity bodies are made of.                                   *)
(***************************************************************************)
\* A fault happens: at most MaxFaults in a behaviour.
Fault ==
    /\ faults < MaxFaults
    /\ faults' = faults + 1

NoFault == UNCHANGED faults

\* An error after the commit: Temporal retries what has been done.
OkOrHandoffFault(reply) ==
    \/ reply = "ok" /\ NoFault
    \/ reply = "retry" /\ Fault

\* _append_event: a sequence number that is taken is left alone.
Appended(S, e) == IF \E x \in S : x[1] = e[1] THEN S ELSE S \cup {e}

\* _audit: the idempotency key is the run and the action.
Audit(r, action) == audits' = [audits EXCEPT ![r] = @ \cup {action}]

Record(r, t, state) == invocation' = [invocation EXCEPT ![r][t] = state]

\* A governed tool call under the run's idempotency key for that tool.  A row
\* that failed or was denied is replayed as a failure for ever; it is written
\* in a transaction of its own.  A transient failure leaves no row.
ToolCall(r, t, reply) ==
    \/ /\ reply = "ok"
       /\ invocation[r][t] # "bad"
       /\ Record(r, t, "ok")
       /\ NoFault
    \/ /\ reply = "fatal"
       /\ invocation[r][t] = "bad"
       /\ UNCHANGED invocation
       /\ NoFault
    \/ /\ reply = "fatal"
       /\ t \in BrokenTools
       /\ invocation[r][t] # "bad"
       /\ IF invocation[r][t] = "none" THEN Record(r, t, "bad") ELSE UNCHANGED invocation
       /\ Fault
    \/ /\ reply = "retry"
       /\ UNCHANGED invocation
       /\ Fault

\* The transaction aborts: the database fails, or another transaction changed a
\* row first.  The row of a tool call that failed stays.
Aborts(r, toolsCalled, reply) ==
    /\ reply = "retry"
    /\ Fault
    /\ \/ UNCHANGED invocation
       \/ \E t \in toolsCalled \cap BrokenTools :
             invocation[r][t] = "none" /\ Record(r, t, "bad")
    /\ UNCHANGED <<run, vendor, approval, decisions, listed, events, audits>>

\* _required_tool_failed, with the status the run has by then.
\* (Silently: a variant that leaves the status.)
RequiredToolFailedSilently(r, reply, status, event) ==
    /\ run' = [run EXCEPT ![r] = status]
    /\ Audit(r, "tool.required.failure")
    /\ events' = [events EXCEPT ![r] = Appended(@, event)]

RequiredToolFailed(r, reply, status, event) ==
    \/ /\ reply = "retry"
       /\ run' = [run EXCEPT ![r] = status]
       /\ Audit(r, "tool.required.retry")
       /\ UNCHANGED events
    \/ /\ reply = "fatal"
       /\ run' = [run EXCEPT ![r] = "FAILED"]
       /\ Audit(r, "tool.required.failure")
       /\ events' = [events EXCEPT ![r] = Appended(@, event)]

(***************************************************************************)
(* The activity bodies.                                                    *)
(***************************************************************************)
\* begin_review: look the vendor up and start the review.
BeginReview(r, reply) ==
    LET v == VendorOf[r]
        status == IF run[r] = "PENDING" THEN "RUNNING" ELSE run[r]
    IN
    /\ ToolCall(r, "lookup", reply)
    /\ vendor' = [vendor EXCEPT ![v] = IF @ = "SUBMITTED" THEN "UNDER_REVIEW" ELSE @]
    /\ \/ /\ reply = "ok"
          /\ run' = [run EXCEPT ![r] = status]
          /\ events' = [events EXCEPT ![r] = Appended(@, <<10, "review_started">>)]
          /\ Audit(r, "vendor.review.start")
       \/ RequiredToolFailed(r, reply, status, <<15, "review_failed">>)
    /\ UNCHANGED <<approval, decisions, listed>>

\* assess_risk: search the policies and score the vendor.  The model's
\* explanation may be missing; it decides nothing.
AssessRisk(r, reply) ==
    /\ ToolCall(r, "search", reply)
    /\ \/ /\ reply = "ok"
          /\ events' = [events EXCEPT ![r] =
                Appended(Appended(@, <<20, "risk_assessed">>), <<25, "risk_policy_context">>)]
          /\ Audit(r, "vendor.risk.assess")
          /\ UNCHANGED run
       \/ RequiredToolFailed(r, reply, run[r], <<25, "review_failed">>)
    /\ UNCHANGED <<vendor, approval, decisions, listed>>

\* request_approval creates the request unless it is there already.
\* (Reset: a variant that opens it again.)
ResetApproval(a) == "PENDING"
RequestedApproval(a) == IF a = None THEN "PENDING" ELSE a

\* request_approval: one request per run; the run waits, whatever it did before.
RequestApproval(r, reply) ==
    /\ OkOrHandoffFault(reply)
    /\ approval' = [approval EXCEPT ![r] = RequestedApproval(@)]
    /\ run' = [run EXCEPT ![r] = "WAITING"]
    /\ events' = [events EXCEPT ![r] = Appended(@, <<30, "approval_requested">>)]
    /\ Audit(r, "approval.request.create")
    /\ UNCHANGED <<vendor, decisions, listed, invocation>>

\* record_decision, when the row of this key is there, when the request is not
\* pending, and when the notification fails: nothing is written.
SameKey(r, d) == {e \in decisions[r] : e.key = d.key}

Replays(r, d, reply) ==
    /\ SameKey(r, d) # {}
    /\ reply = IF d \in SameKey(r, d) THEN "ok" ELSE "retry"
    /\ NoFault
    /\ UNCHANGED dbVars

Refused(r, d, reply) ==
    /\ SameKey(r, d) = {}
    /\ \/ approval[r] # "PENDING"
       \/ d.verdict = "APPROVED" /\ invocation[r]["email"] = "bad"
    /\ reply = "retry"
    /\ NoFault
    /\ UNCHANGED dbVars

\* The status a decision gives to the run.
\* (VerdictStatus: a variant that confuses it with the approval's.)
VerdictStatus(d) == d.verdict
DecidedStatus(d) == IF d.verdict = "APPROVED" THEN "SUCCEEDED" ELSE "REJECTED"

\* The first approval lists the vendor; a row that is there is kept.
\* (ListedAnyway: a variant that lists a rejected vendor too.)
ListedAnyway(r, d) == [listed EXCEPT ![VendorOf[r]] = IF @ = None THEN r ELSE @]
Listing(r, d) ==
    [listed EXCEPT ![VendorOf[r]] = IF d.verdict = "APPROVED" /\ @ = None THEN r ELSE @]

\* What record_decision writes: the decision and all of its effects.
Write(r, d) ==
    /\ decisions' = [decisions EXCEPT ![r] = @ \cup {d}]
    /\ approval' = [approval EXCEPT ![r] = d.verdict]
    /\ vendor' = [vendor EXCEPT ![VendorOf[r]] = d.verdict]
    /\ run' = [run EXCEPT ![r] = DecidedStatus(d)]
    /\ listed' = Listing(r, d)
    /\ IF d.verdict = "APPROVED" /\ invocation[r]["email"] # "bad"
       THEN Record(r, "email", "ok")
       ELSE UNCHANGED invocation
    /\ events' = [events EXCEPT ![r] = Appended(@, <<40, "approval_decided">>)]
    /\ Audit(r, "approval.decision.record")

\* record_decision, when it writes: a request that is still pending, in one
\* transaction.
\* (Unchecked: a variant without the check; Unsent: one that goes on when the
\* notification fails.)
CommitsUnchecked(r, d, reply) ==
    SameKey(r, d) = {} /\ OkOrHandoffFault(reply) /\ Write(r, d)

CommitsUnsent(r, d, reply) ==
    approval[r] = "PENDING" /\ OkOrHandoffFault(reply) /\ Write(r, d)

Commits(r, d, reply) ==
    /\ SameKey(r, d) = {}
    /\ approval[r] = "PENDING"
    /\ d.verdict = "APPROVED" => invocation[r]["email"] # "bad"
    /\ OkOrHandoffFault(reply)
    /\ Write(r, d)

RecordDecision(r, d, reply) ==
    Replays(r, d, reply) \/ Refused(r, d, reply) \/ Commits(r, d, reply)

\* Only a pending request is cancelled.
\* (AnyCancelled: a variant that does not look.)
AnyCancelled(a) == "CANCELLED"
CancelledApproval(a) == IF a = "PENDING" THEN "CANCELLED" ELSE a

\* cancel_review: a run that has ended is left alone.
CancelReview(r, reply) ==
    /\ reply = "ok"
    /\ NoFault
    /\ IF run[r] \in Ended
       THEN UNCHANGED dbVars
       ELSE /\ approval' = [approval EXCEPT ![r] = CancelledApproval(@)]
            /\ run' = [run EXCEPT ![r] = "CANCELLED"]
            /\ events' = [events EXCEPT ![r] = Appended(@, <<50, "review_cancelled">>)]
            /\ Audit(r, "workflow.cancel")
            /\ UNCHANGED <<vendor, decisions, listed, invocation>>

\* The tools an activity calls.
ToolsOf(a, d) ==
    CASE a = "begin_review" -> {"lookup"}
      [] a = "assess_risk" -> {"search"}
      [] a = "record_decision" /\ d.verdict = "APPROVED" -> {"email"}
      [] OTHER -> {}

\* One execution of the body of activity a for run r.
Body(a, r, d, reply) ==
    \/ a = "begin_review" /\ BeginReview(r, reply)
    \/ a = "assess_risk" /\ AssessRisk(r, reply)
    \/ a = "request_approval" /\ RequestApproval(r, reply)
    \/ a = "record_decision" /\ RecordDecision(r, d, reply)
    \/ a = "cancel_review" /\ CancelReview(r, reply)
    \/ Aborts(r, ToolsOf(a, d), reply)

-----------------------------------------------------------------------------
(***************************************************************************)
(* The workflow.                                                           *)
(***************************************************************************)
Open(r) == phase[r] \notin Closed

\* The activity run() is waiting for, None while it waits for a decision.
\* (DecisionOnly: a variant whose wait_condition forgets the cancellation.)
CurrentDecisionOnly(r) ==
    CASE phase[r] = "created" -> "begin_review"
      [] phase[r] = "assessing_risk" -> "assess_risk"
      [] phase[r] = "waiting_for_approval" /\ ~requested[r] -> "request_approval"
      [] phase[r] = "recording_decision" -> "record_decision"
      [] OTHER -> None

Current(r) ==
    CASE phase[r] = "created" -> "begin_review"
      [] phase[r] = "assessing_risk" -> "assess_risk"
      [] phase[r] = "waiting_for_approval" /\ ~requested[r] -> "request_approval"
      [] phase[r] = "waiting_for_approval" /\ requested[r] /\ cancelled[r] -> "cancel_review"
      [] phase[r] = "recording_decision" -> "record_decision"
      [] OTHER -> None

\* The phase after activity a has returned.
NextPhase(a) ==
    CASE a = "begin_review" -> "assessing_risk"
      [] a = "assess_risk" -> "waiting_for_approval"
      [] a = "request_approval" -> "waiting_for_approval"
      [] a = "record_decision" -> "completed"
      [] a = "cancel_review" -> "cancelled"

\* The activity has returned: go on.
Advance(r) ==
    /\ phase' = [phase EXCEPT ![r] = NextPhase(Current(r))]
    /\ requested' = [requested EXCEPT ![r] = @ \/ Current(r) = "request_approval"]
    /\ attempt' = [attempt EXCEPT ![r] = 1]

\* The attempt failed: try again while attempts are left, else the workflow fails.
\* (TooFew: a variant that counts one attempt too many.)
AgainTooFew(r) ==
    /\ IF attempt[r] + 1 < MaxAttempts
       THEN attempt' = [attempt EXCEPT ![r] = @ + 1] /\ UNCHANGED phase
       ELSE phase' = [phase EXCEPT ![r] = "failed"] /\ UNCHANGED attempt
    /\ UNCHANGED requested

Again(r) ==
    /\ IF attempt[r] < MaxAttempts
       THEN attempt' = [attempt EXCEPT ![r] = @ + 1] /\ UNCHANGED phase
       ELSE phase' = [phase EXCEPT ![r] = "failed"] /\ UNCHANGED attempt
    /\ UNCHANGED requested

\* The workflow fails with the activity's non-retryable error.
Fail(r) ==
    /\ phase' = [phase EXCEPT ![r] = "failed"]
    /\ UNCHANGED <<requested, attempt>>

\* Temporal starts an execution of the run's workflow id.  Another one may follow
\* when that has closed (see WorkflowStart).
StartExecution(r) ==
    /\ ~Open(r)
    /\ executions[r] < MaxExecutions[r]
    /\ executions' = [executions EXCEPT ![r] = @ + 1]
    /\ phase' = [phase EXCEPT ![r] = "created"]
    /\ requested' = [requested EXCEPT ![r] = FALSE]
    /\ chosen' = [chosen EXCEPT ![r] = None]
    /\ cancelled' = [cancelled EXCEPT ![r] = FALSE]
    /\ attempt' = [attempt EXCEPT ![r] = 1]
    /\ UNCHANGED <<dbVars, late, inbox, acked, faults>>

\* An attempt of the current activity runs and its reply arrives in time.
Attempt(r) ==
    /\ Current(r) # None
    /\ \E reply \in Replies :
          /\ Body(Current(r), r, chosen[r], reply)
          /\ \/ reply = "ok" /\ Advance(r)
             \/ reply = "retry" /\ Again(r)
             \/ reply = "fatal" /\ Fail(r)
    /\ UNCHANGED <<chosen, cancelled, executions, late, inbox, acked>>

\* start_to_close_timeout: the worker died or is slow, before or after the commit.
TimesOut(r) ==
    /\ Current(r) # None
    /\ Fault
    /\ Again(r)
    /\ late' = late \cup {[run |-> r, activity |-> Current(r), decision |-> chosen[r],
                           execution |-> executions[r], attempt |-> attempt[r]]}
    /\ UNCHANGED <<dbVars, chosen, cancelled, executions, inbox, acked>>

\* An attempt that timed out runs its body after all.
LateCommit(l) ==
    /\ late' = late \ {l}
    /\ \E reply \in Replies : Body(l.activity, l.run, l.decision, reply)
    /\ UNCHANGED <<wfVars, executions, inbox, acked>>

\* wait_condition sees the decision.
Resume(r) ==
    /\ phase[r] = "waiting_for_approval"
    /\ requested[r]
    /\ ~cancelled[r]
    /\ chosen[r] # None
    /\ phase' = [phase EXCEPT ![r] = "recording_decision"]
    /\ attempt' = [attempt EXCEPT ![r] = 1]
    /\ UNCHANGED <<dbVars, requested, chosen, cancelled, executions, late, inbox, acked, faults>>

\* The cancel signal, from POST /onboarding/{id}/cancel.  It comes too late once a
\* decision is accepted.  (Always: a variant that does not look.)
CancelAlways(r) ==
    /\ Open(r)
    /\ cancelled' = [cancelled EXCEPT ![r] = TRUE]
    /\ UNCHANGED <<dbVars, phase, requested, chosen, attempt, executions, late, inbox, acked, faults>>

Cancel(r) ==
    /\ Open(r)
    /\ cancelled' = [cancelled EXCEPT ![r] = @ \/ chosen[r] = None]
    /\ UNCHANGED <<dbVars, phase, requested, chosen, attempt, executions, late, inbox, acked, faults>>

-----------------------------------------------------------------------------
(***************************************************************************)
(* A decision on its way from the approver to the workflow.                *)
(***************************************************************************)
\* decide_onboarding reads the database: a decision that is recorded already is
\* acknowledged, one for a pending request is sent on, any other is refused.
Decide(r, d) ==
    /\ approval[r] # None
    /\ \/ /\ d \in SameKey(r, d)
          /\ acked' = [acked EXCEPT ![r] = @ \cup {d}]
          /\ UNCHANGED inbox
       \/ /\ SameKey(r, d) = {}
          /\ approval[r] = "PENDING"
          /\ inbox' = [inbox EXCEPT ![r] = @ \cup {d}]
          /\ UNCHANGED acked
    /\ UNCHANGED <<dbVars, wfVars, executions, late, faults>>

\* Temporal answers an update whose id (the idempotency key) it has accepted
\* before with that update's outcome, whatever the new payload says.
Duplicate(r, d) == chosen[r] # None /\ chosen[r].key = d.key

\* validate_decision
\* (Overwriting: a variant that lets a later decision replace the first.)
ValidOverwriting(r, d) ==
    phase[r] = "waiting_for_approval" /\ requested[r] /\ ~cancelled[r]

Valid(r, d) ==
    /\ phase[r] = "waiting_for_approval"
    /\ requested[r]
    /\ ~cancelled[r]
    /\ chosen[r] \in {None, d}

\* execute_update("decide", d, id = d.key): duplicate, accepted or rejected.
Update(r, d) ==
    /\ d \in inbox[r]
    /\ inbox' = [inbox EXCEPT ![r] = @ \ {d}]
    /\ acked' = [acked EXCEPT ![r] = IF Duplicate(r, d) \/ Valid(r, d) THEN @ \cup {d} ELSE @]
    /\ chosen' = [chosen EXCEPT ![r] = IF ~Duplicate(r, d) /\ Valid(r, d) THEN d ELSE @]
    /\ UNCHANGED <<dbVars, phase, requested, cancelled, attempt, executions, late, faults>>

-----------------------------------------------------------------------------
Next ==
    \/ \E r \in Runs :
          \/ StartExecution(r) \/ Attempt(r) \/ TimesOut(r) \/ Resume(r) \/ Cancel(r)
          \/ \E d \in Decisions : Decide(r, d) \/ Update(r, d)
    \/ \E l \in late : LateCommit(l)

Spec == Init /\ [][Next]_vars

\* Temporal starts the workflow, schedules attempts and delivers updates; a
\* worker that is up finishes what it starts.  Faults, late commits, approvers
\* and cancellations are not fair.
Fairness ==
    \A r \in Runs :
        /\ WF_vars(StartExecution(r))
        /\ WF_vars(Attempt(r) /\ NoFault)
        /\ WF_vars(Resume(r))
        /\ WF_vars(\E d \in Decisions : Update(r, d))

FairSpec == Spec /\ Fairness

(***************************************************************************)
(* Properties.                                                             *)
(***************************************************************************)
\* A run's approval request gets at most one decision row, whichever keys the
\* approvers use and however often record_decision is delivered (record_decision;
\* the table allows one row per key, so only the PENDING check prevents a second).
OneDecision ==
    \A r \in Runs : \A d, e \in decisions[r] : d = e

\* ADR 0004: "the database stores the decision, event, audit entry, and
\* approved-vendor projection atomically": all of them are there or none is,
\* and they say the same (record_decision).
DecisionIsAtomic ==
    \A r \in Runs :
        LET decided == decisions[r] # {} IN
        /\ decided <=> approval[r] \in Verdicts
        /\ decided <=> <<40, "approval_decided">> \in events[r]
        /\ decided <=> "approval.decision.record" \in audits[r]
        /\ \A d \in decisions[r] : d.verdict = approval[r]
        /\ approval[r] = "APPROVED" <=> invocation[r]["email"] = "ok"
        /\ approval[r] = "APPROVED" => listed[VendorOf[r]] # None

\* A vendor is on the approved list only through a run of its own that an
\* approver approved (record_decision).
ListingIsJustified ==
    \A v \in Vendors :
        listed[v] # None => VendorOf[listed[v]] = v /\ approval[listed[v]] = "APPROVED"

\* A decision that was acknowledged or recorded is never undone by a
\* cancellation, in whatever order signal, update and the attempts of the
\* activities arrive (decide, cancel, cancel_review).
CancelExcludesDecision ==
    \A r \in Runs :
        acked[r] \cup decisions[r] # {} =>
            approval[r] # "CANCELLED" /\ "workflow.cancel" \notin audits[r]

\* A closed approval stays as it was closed, and its vendor stays listed, also
\* when a second execution or a late attempt goes through the activities again.
ClosedApprovalIsFinal ==
    [][/\ \A r \in Runs :
             approval[r] \in Verdicts \cup {"CANCELLED"} =>
                 approval'[r] = approval[r] /\ decisions'[r] = decisions[r]
       /\ \A v \in Vendors : listed[v] # None => listed'[v] = listed[v]]_vars

\* The decision an approver was told is accepted is the one the database holds.
\* ADR 0004: "The Update validator rejects decisions [...] after a conflicting
\* decision" (decide_onboarding, validate_decision).
AckedIsRecorded ==
    \A r \in Runs : \A d \in acked[r], e \in decisions[r] : d = e

\* A workflow that fails leaves a run that says so, as long as no activity runs
\* out of attempts (_required_tool_failed, ACTIVITY_RETRY).
FailureIsRecorded ==
    \A r \in Runs : phase[r] = "failed" => run[r] = "FAILED"

\* The approval interface as ApprovalCase describes it.
Case == INSTANCE ApprovalCase WITH
    Cases <- Runs,
    outcome <- approval,
    recorded <- {r \in Runs : /\ decisions[r] # {}
                              /\ <<40, "approval_decided">> \in events[r]
                              /\ "approval.decision.record" \in audits[r]},
    notified <- {r \in Runs : invocation[r]["email"] = "ok"}

\* The retried activities implement the one-shot approval case.
ImplementsCase == Case!Spec

\* README: "Recovery resumes the work while preserving that decision": a decision
\* that was accepted is recorded (ACTIVITY_RETRY, record_decision).
AckedDecisionIsRecorded ==
    \A r \in Runs, d \in Decisions : d \in acked[r] ~> d \in decisions[r]

\* A review never hangs: unless its workflow has closed and left no request open,
\* it comes to wait for an approver, with a request that can be decided.
ReviewProgresses ==
    \A r \in Runs :
        []<>IF Open(r)
            THEN phase[r] = "waiting_for_approval" /\ approval[r] = "PENDING" /\ ~cancelled[r]
            ELSE phase[r] # "absent" /\ approval[r] # "PENDING"
=============================================================================
