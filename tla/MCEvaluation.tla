---------------------------- MODULE MCEvaluation ----------------------------
(***************************************************************************)
(* One key and one caller, whose release installs one of the suites.  The  *)
(* cases are those of evaluation_datasets/vendor_onboarding.v1.json that   *)
(* differ in what the evaluator does, some of them with the probes or the  *)
(* faults of another one.                                                  *)
(***************************************************************************)
EXTENDS Evaluation

CONSTANTS c1, k1, s1, s2, recovery

Sent(verdict, effect, timing, stale, replays) ==
    [timing |-> timing, verdict |-> verdict, authorized |-> effect # "forbidden",
     stale |-> stale, replays |-> replays, effect |-> effect]

Plain(verdict) == Sent(verdict, "accepted", "waiting", FALSE, FALSE)

Drive(final, cancels, attempts, probes) ==
    [final |-> final, cancels |-> cancels, attempts |-> attempts, probes |-> probes]

Malformed(tool) ==
    [tool |-> tool, timing |-> "after_run_created", actor |-> "managed_agent",
     malformed |-> TRUE, effect |-> "rejected_invalid_input", error |-> "invalid_arguments"]

Ungranted(tool) ==
    [tool |-> tool, timing |-> "after_run_created", actor |-> "ungranted_agent",
     malformed |-> FALSE, effect |-> "rejected_permission", error |-> "policy_denied"]

Injected(point, action, retries) ==
    [point |-> point, action |-> action, triggers |-> 1, retryable |-> action # "permanent",
     retries |-> retries]

Tool(min, max, statuses, errors) ==
    [min |-> min, max |-> max, statuses |-> statuses, errors |-> errors]

Works1  == Tool(1, 1, {"succeeded"}, {})
Unused  == Tool(0, 0, {}, {})
Review  == <<"review_started", "risk_assessed", "risk_policy_context", "approval_requested">>

Outcome(run, vendor, approval, n) ==
    [run |-> run, vendor |-> vendor, approval |-> approval, requests |-> 1, decisions |-> n,
     listed |-> IF run = "succeeded" THEN 1 ELSE 0, emails |-> IF run = "succeeded" THEN 1 ELSE 0,
     model |-> "succeeded", failure |-> "none", retries |-> 0, starts |-> 1,
     tools |-> [lookup |-> Works1, search |-> Works1,
                email |-> IF run = "succeeded" THEN Works1 ELSE Unused],
     events |-> Append(Review, FinalEvent[run])]

Breakdown(failure, lookup, search, events) ==
    [Outcome("failed", "UNDER_REVIEW", "absent", 0) EXCEPT
        !.requests = 0, !.model = "absent", !.failure = failure, !.events = events,
        !.tools = [lookup |-> lookup, search |-> search, email |-> Unused]]

Scenario(scenario, failing, omitted, faulty, driver, outcome) ==
    [scenario |-> scenario, failing |-> failing, omitted |-> omitted, faults |-> faulty,
     driver |-> driver, outcome |-> outcome]

DuplicateEmail ==
    Scenario("duplicate_email_prevented", FALSE, {}, {Injected("email", "retryable", 1)},
        Drive("APPROVED", "none",
              <<Sent("APPROVED", "rejected_stale", "waiting", TRUE, FALSE), Plain("APPROVED"),
                Sent("REJECTED", "rejected_idempotency_conflict", "after_decision", FALSE, TRUE)>>,
              <<Malformed("lookup"), Ungranted("search")>>),
        [Outcome("succeeded", "APPROVED", "APPROVED", 1) EXCEPT
            !.retries = 1,
            !.tools.lookup = Tool(2, 2, {"failed", "succeeded"}, {"invalid_arguments"}),
            !.tools.search = Tool(2, 2, {"denied", "succeeded"}, {"policy_denied"})])

AmbiguousStart ==
    Scenario("ambiguous_workflow_start_recovery", TRUE, {}, {Injected("start", "ambiguous", 0)},
        Drive("REJECTED", "none",
              <<Sent("REJECTED", "rejected_early", "before_request", FALSE, FALSE),
                Sent("REJECTED", "forbidden", "waiting", FALSE, FALSE), Plain("REJECTED")>>, <<>>),
        [Outcome("rejected", "REJECTED", "REJECTED", 1) EXCEPT !.starts = 2, !.model = "failed"])

CancelWaiting ==
    Scenario("cancellation_waiting_for_approval", FALSE, {},
        {Injected("waiting", "termination", 1)}, Drive("none", "waiting_for_approval", <<>>, <<>>),
        [Outcome("cancelled", "UNDER_REVIEW", "CANCELLED", 0) EXCEPT !.retries = 1])

PolicyFailure ==
    Scenario("policy_retrieval_failure", FALSE, {}, {Injected("search", "permanent", 0)},
        Drive("none", "none", <<>>, <<>>),
        Breakdown("policy_retrieval_failed", Works1, Tool(1, 1, {"failed"}, {"execution_failed"}),
                  <<"review_started", "review_failed">>))

LookupFailure ==
    Scenario("database_transient_failure", FALSE, {}, {Injected("lookup", "permanent", 0)},
        Drive("none", "none", <<>>, <<>>),
        Breakdown("invalid_input", Tool(1, 1, {"failed"}, {"execution_failed"}), Unused,
                  <<"review_failed">>))

PermissionDenied ==
    Scenario("tool_permission_denied", FALSE, {"lookup"}, {Injected("lookup", "retryable", 1)},
        Drive("none", "none", <<>>, <<>>),
        [Breakdown("tool_permission_denied", Tool(1, 1, {"denied"}, {"policy_denied"}), Unused,
                   <<"review_failed">>) EXCEPT !.retries = 1])

MCSuites ==
    {<<DuplicateEmail>>, <<AmbiguousStart>>, <<CancelWaiting>>, <<LookupFailure>>,
     <<PermissionDenied>>, <<PolicyFailure>>, <<PolicyFailure, PermissionDenied>>}

MCScenarios == [u \in MCSuites |-> {u[i].scenario : i \in DOMAIN u}]

\* Some suites find the catalog changed under them.
MCCatalog ==
    [u \in MCSuites |->
        [i \in DOMAIN u |->
            IF u = <<PermissionDenied>> THEN "missing"
            ELSE IF Len(u) = 2 /\ i = 1 THEN "renamed" ELSE "found"]]

MCPlans         == ({k1} \X {1, 2}) \X Points
MCSessions      == {s1, s2, c1, recovery}
MCKeyOf         == [c \in {c1} |-> k1]
MCOperatorPlans == {<<<<k1, 2>>, "lookup">>}
=============================================================================
