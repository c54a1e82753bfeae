------------------------- MODULE EvaluationContract -------------------------
(***************************************************************************)
(* The contract of an evaluation case (evaluation_scenarios.py): what its  *)
(* validators admit, and how evidence is scored against it                 *)
(* (evaluation.py, _score_case).  Texts, sizes and hashes are left out.    *)
(***************************************************************************)
EXTENDS Naturals, Sequences, FiniteSets

Tools   == {"lookup", "search", "email"}
Verdict == {"APPROVED", "REJECTED"}

ScenarioTypes ==
    {"low_risk_approved", "low_risk_rejected", "high_risk_approved", "high_risk_rejected",
     "cancellation_before_approval", "cancellation_waiting_for_approval",
     "early_approval_rejected", "stale_approval_rejected", "conflicting_approval_rejected",
     "idempotent_decision_replay", "decision_idempotency_conflict", "model_provider_failure",
     "policy_retrieval_failure", "tool_permission_denied", "tool_timeout_retry",
     "worker_restart_active_activity", "worker_restart_waiting_approval",
     "worker_crash_after_effect_commit", "duplicate_projection_prevented",
     "duplicate_email_prevented", "ambiguous_workflow_start_recovery",
     "database_transient_failure", "malformed_tool_input_rejected",
     "unauthorized_sensitive_operation"}

Replays   == {"idempotent", "rejected_idempotency_conflict"}
AfterDecision == Replays \cup {"rejected_conflict"}

\* Approval attempts, as their fields' types admit them.
Attempts ==
    [timing : {"before_request", "waiting", "after_decision"}, verdict : Verdict,
     authorized : BOOLEAN, stale : BOOLEAN, replays : BOOLEAN,
     effect : AfterDecision \cup {"accepted", "rejected_early", "rejected_stale", "forbidden"}]

ValidAttempt(a) ==
    /\ a \in Attempts
    /\ a.effect = "forbidden" <=> ~a.authorized
    /\ a.effect = "forbidden" => ~a.replays
    /\ a.effect = "accepted" => a.timing = "waiting" /\ ~a.stale /\ ~a.replays
    /\ a.effect = "rejected_early" => a.timing = "before_request" /\ ~a.stale /\ ~a.replays
    /\ a.effect = "rejected_stale" => a.timing = "waiting" /\ a.stale /\ ~a.replays
    /\ a.effect \in Replays => a.timing = "after_decision" /\ ~a.stale /\ a.replays
    /\ a.effect = "rejected_conflict" => a.timing = "after_decision" /\ ~a.stale /\ ~a.replays

\* A fault: [point, action, triggers, retryable, retries].
ValidFault(f) ==
    /\ f.triggers \in 1 .. 10
    /\ f.retries \in 0 .. 20
    /\ f.retryable <=> f.action # "permanent"
    /\ f.action = "permanent" => f.retries = 0

\* A tool attempt: [tool, timing, actor, malformed, effect, error], where
\* malformed says that the tool must refuse its arguments.
ValidProbe(p) ==
    /\ p.tool \in Tools
    /\ p.effect \in {"rejected_invalid_input", "rejected_permission"}
    /\ p.effect = "rejected_invalid_input" =>
          p.actor = "managed_agent" /\ p.error = "invalid_arguments"
    /\ p.effect = "rejected_permission" =>
          p.actor = "ungranted_agent" /\ p.error = "policy_denied"

\* Fault points are unique in a case.
ValidFaults(faults) ==
    /\ \A f \in faults : ValidFault(f)
    /\ \A f, g \in faults : f.point = g.point => f = g

Accepted(d) == {i \in DOMAIN d.attempts : d.attempts[i].effect = "accepted"}

\* A driver: [final, cancels, attempts, probes].
ValidDriver(d) ==
    LET effect(i) == d.attempts[i].effect
        verdict(i) == d.attempts[i].verdict
    IN  /\ \A i \in DOMAIN d.attempts : ValidAttempt(d.attempts[i])
        /\ \A i \in DOMAIN d.probes : ValidProbe(d.probes[i])
        /\ d.cancels # "none" => d.final = "none"
        /\ d.final = "none" => Accepted(d) = {}
        /\ d.final # "none" =>
              /\ Cardinality(Accepted(d)) = 1
              /\ \A i \in Accepted(d) : verdict(i) = d.final
        /\ \A i \in DOMAIN d.attempts :
              /\ d.attempts[i].replays => i > 1
              /\ effect(i) \in AfterDecision =>
                    \E a \in Accepted(d) : a < i /\ (verdict(i) = verdict(a) <=> effect(i) = "idempotent")
              /\ \A a \in Accepted(d) : i > a => effect(i) \in AfterDecision
              /\ effect(i) \in Replays => effect(i - 1) = "accepted"

FinalEvent ==
    [succeeded |-> "approval_decided", rejected |-> "approval_decided",
     cancelled |-> "review_cancelled", failed |-> "review_failed",
     waiting |-> "approval_requested"]

\* Expected events, in the order of their sequence numbers, and tools as
\* [min, max, statuses, errors].
ValidTools(tools) ==
    /\ DOMAIN tools = Tools
    /\ \A t \in Tools :
          /\ tools[t].min <= tools[t].max
          /\ IF tools[t].max = 0 THEN tools[t].statuses = {} /\ tools[t].errors = {}
             ELSE tools[t].statuses # {}

\* An expected outcome: [run, vendor, approval, requests, decisions, listed,
\* emails, model, failure, retries, starts, tools, events].
ValidOutcome(o) ==
    /\ ValidTools(o.tools)
    /\ Len(o.events) > 0
    /\ Cardinality({o.events[i] : i \in DOMAIN o.events}) = Len(o.events)
    /\ o.events[Len(o.events)] = FinalEvent[o.run]
    /\ IF o.approval = "absent" THEN o.requests = 0 /\ o.decisions = 0
       ELSE o.requests = 1 /\ o.decisions = (IF o.approval \in Verdict THEN 1 ELSE 0)
    /\ IF o.vendor = "APPROVED"
       THEN o.run = "succeeded" /\ o.approval = "APPROVED" /\ o.listed = 1 /\ o.emails = 1
       ELSE o.listed = 0 /\ o.emails = 0
    /\ o.vendor = "REJECTED" => o.run = "rejected" /\ o.approval = "REJECTED"
    /\ o.run = "succeeded" => o.vendor = "APPROVED"
    /\ o.run = "rejected" => o.vendor = "REJECTED"
    /\ o.run = "waiting" => o.vendor = "UNDER_REVIEW" /\ o.approval = "PENDING"
    /\ o.run = "cancelled" => o.vendor = "UNDER_REVIEW" /\ o.approval = "CANCELLED"
    /\ o.run = "failed" <=> o.failure # "none"
    /\ o.retries \in 0 .. 20
    /\ o.starts >= 1

\* What a scenario type demands of its case.
FaultDriven ==
    {"policy_retrieval_failure", "tool_timeout_retry", "worker_restart_active_activity",
     "worker_restart_waiting_approval", "worker_crash_after_effect_commit",
     "duplicate_projection_prevented", "duplicate_email_prevented",
     "ambiguous_workflow_start_recovery", "database_transient_failure"}

Probing ==
    [early_approval_rejected |-> "rejected_early", stale_approval_rejected |-> "rejected_stale",
     conflicting_approval_rejected |-> "rejected_conflict",
     idempotent_decision_replay |-> "idempotent",
     decision_idempotency_conflict |-> "rejected_idempotency_conflict",
     unauthorized_sensitive_operation |-> "forbidden"]

Cancelling ==
    [cancellation_before_approval |-> "before_approval",
     cancellation_waiting_for_approval |-> "waiting_for_approval"]

ValidScenario(c) ==
    /\ c.scenario = "model_provider_failure" =>
          c.failing /\ c.outcome.model = "failed"
    /\ c.scenario = "tool_permission_denied" => "lookup" \in c.omitted
    /\ c.scenario = "malformed_tool_input_rejected" =>
          \E i \in DOMAIN c.driver.probes : c.driver.probes[i].effect = "rejected_invalid_input"
    /\ c.scenario \in DOMAIN Probing =>
          \E i \in DOMAIN c.driver.attempts :
             c.driver.attempts[i].effect = Probing[c.scenario]
    /\ c.scenario \in DOMAIN Cancelling => c.driver.cancels = Cancelling[c.scenario]
    /\ c.scenario \in FaultDriven => c.faults # {}

\* A case: [scenario, failing, omitted, faults, driver, outcome].
ValidCase(c) ==
    /\ c.scenario \in ScenarioTypes
    /\ ValidFaults(c.faults)
    /\ ValidDriver(c.driver)
    /\ ValidOutcome(c.outcome)
    /\ c.outcome.run = "succeeded" => c.driver.final = "APPROVED"
    /\ c.outcome.run = "rejected" => c.driver.final = "REJECTED"
    /\ c.outcome.run \in {"failed", "waiting", "cancelled"} => c.driver.final = "none"
    /\ c.outcome.run = "cancelled" <=> c.driver.cancels # "none"
    /\ \A f \in c.faults : f.retries <= c.outcome.retries
    /\ ValidScenario(c)

\* One case for each scenario type.
ValidSuite(suite, scenarios) ==
    /\ \A i \in DOMAIN suite : ValidCase(suite[i])
    /\ {suite[i].scenario : i \in DOMAIN suite} = scenarios
    /\ Len(suite) = Cardinality(scenarios)

-----------------------------------------------------------------------------
Exact == {"run", "vendor", "approval", "requests", "decisions", "listed", "emails", "failure"}

\* The tools of an expectation that the evidence does not bear out.
ToolMismatches(expected, rows) ==
    {t \in Tools :
        LET mine == {r \in rows : r.tool = t}
            e    == expected.tools[t]
        IN  ~ /\ Cardinality(mine) \in e.min .. e.max
              /\ e.statuses \subseteq {r.status : r \in mine}
              /\ e.errors \subseteq {r.error : r \in mine}}

\* _score_case.  The events' sequence numbers are unique by uq_workflow_event_sequence.
Mismatches(expected, actual) ==
    {f \in Exact : actual[f] # expected[f]}
    \cup {f \in {"model"} : expected.model # "any" /\ actual.model # expected.model}
    \cup {f \in {"starts", "retries"} : actual[f] < expected[f]}
    \cup {f \in {"events"} : actual.events # expected.events}
    \cup ToolMismatches(expected, actual.rows)
=============================================================================
