# Verification of agents-should-survive-failure

TLA+ models of the durable run execution in `src/agents_should_survive_failure`,
of the governed tools, registry and access control around it and of the harness
that evaluates it, checked with TLC on small instances, and theorems about them
that TLAPS checks for every value of their constants.

The program runs *agents* and approval reviews as Temporal workflows over a
PostgreSQL database. An HTTP API writes intents and decisions, a worker executes
activities, and an operator repairs what was interrupted. What is hard about it is
never one function: it is that PostgreSQL, Temporal and the callers fail
separately, that everything may be delivered twice or late, and that the evidence
in the database must nevertheless tell one consistent story.

## 1. Inventory

| component | state it keeps | operations | correct when |
|---|---|---|---|
| **Workflow start hand-off** `workflow_starts.py`, `workflow_start_cli.py` | `workflow_runs` (intent, fingerprint), `workflow_start_attempts` (status, lease, token, attempts) | `create_or_get`, `start` (`_claim_start`, call, `_mark_started` / `_mark_failed`), `recover` | an intent is never lost; STARTED only after Temporal accepted; a stale caller changes nothing; recovery settles everything |
| **Vendor onboarding** `workflows/vendor_onboarding.py`, `workflows/activities.py` | `_phase`, `_decision`, `_cancelled` in Temporal; run, vendor, approval, decision, projection, events, audit in PostgreSQL | five activities; `decide` update, `cancel` signal | one decision; decision and evidence appear together; nothing is taken back; what the approver was told is what is recorded |
| **HTTP API** `api.py`, `dependencies.py` | none of its own | start routes, decision, cancellation, status, event stream, fault plans, evidence | checks made in one transaction still hold when the message arrives; streams end only after the last event |
| **Tool gateway** `tool_gateway.py`, `mcp_adapter.py` | `tool_invocations`, `tool_run_bindings`, grants | `invoke`, `_pin_tool_version`, independent recording of failures | a key's record is final; policy before effect; evidence survives a rollback; one version per run; no wait for a connection without end |
| **Managed agents** `runtime_state.py`, `workflows/managed_*.py` | checkpoints, artifacts, budgets, delegations, approvals | `execute`, `call_tool`, `request_approval`, `save_checkpoint`, `delegate`, `call_model` | budgets are never exceeded; a retry resumes and does not repeat; a cancelled run stays cancelled; children end with their parent |
| **Refund** `workflows/refund/*` | refund decision, projection, e-mail, approval | seven activities, `decide` | a decision and its evidence appear together; a refund is paid once; an accepted decision is recorded |
| **Fault injection** `fault_injection.py` | plans and consumptions | `create`, `consume`, `clear`, `inject` | a plan triggers as often as it says, once per key |
| **Authentication, registry** `auth.py`, `auth_cli.py`, `agent_registry.py`, `agent_discovery.py` | principals, keys, agent versions, grants | resolve, rotate, revoke; register | what is registered was brought by a key with the scope; a registered version does not change; an answer of success is true |
| **Evaluation** `evaluation*.py` | evaluation runs, cases, results | configure faults, start, drive and score each case of a suite | a success is earned by every case; a request ends, unless a call to Temporal does not |
| **Persistence** `persistence/*` | the schema above | one transaction per `Database.session()` | uniqueness and version columns stop what the code does not |
| models, policy search, sandbox, console, metrics, worker wiring, seed | none that other components read back | | outside this project (section 8) |

**Interactions.** The API commits an intent, and the hand-off then calls Temporal
outside the transaction. The workflow's activities each open one transaction;
tool calls inside it go through the gateway, which records failures in a second
session so that they outlive the rollback. Decisions travel from the API to the
workflow as updates (onboarding, refund) or through the `approval_requests` table
that the managed agent polls. Cancellation is a status in the database
followed by signals. A registration copies a manifest's tools into grants, a run copies
the grants of its agent into its snapshot, and the gateway reads the snapshot. The
evaluator uses the same hand-off, workers, updates and fault plans as everybody else.

**Hard behaviours.** Crashes between PostgreSQL and Temporal; leases that expire
under a working holder; activity attempts that Temporal gave up on and that
commit later; whole activities delivered again after their commit; updates
deduplicated by id; a workflow id reused after its execution closed; checks and
uses in different transactions; a second connection taken while the first is
held. `PROJECT.json` lists them one by one under `hazards`, with the line where
each bites and the property that would catch it; those without a property have
a note that says why.

## 2. Modules

| module | what it is |
|---|---|
| `WorkflowStart` | the hand-off: API requests, recovery commands, the attempt row, Temporal's side of the call |
| `StartHandoff` | what the hand-off promises: absent, intended, accepted, started |
| `WorkflowStartProofs` | theorems about `WorkflowStart`, and that it implements `StartHandoff` |
| `VendorOnboarding` | the onboarding workflow, its activities, the decision and the cancellation |
| `ApprovalCase` | what an approval promises: asked once, closed once, all evidence in the same step |
| `VendorOnboardingProofs` | theorems about `VendorOnboarding`, and that it implements `ApprovalCase` |
| `MCVendorOnboarding` | the values of its constants for TLC |
| `ManagedAgent` | managed runs: repeated and overlapping attempts of `execute`, budgets, checkpoints, approvals, delegation, cancellation |
| `ManagedAgentProofs` | theorems about `ManagedAgent` |
| `MCManagedAgent` | the values of its constants for TLC |
| `AgentRegistry` | registration of a version or of a discovered batch, statement by statement, tool switches, the seed's grants |
| `AgentRegistryProofs` | theorems about `AgentRegistry` |
| `AccessControl` | keys and principals, the operator's commands, a request's admission |
| `RegistryAccess` | the registration routes: `AgentRegistry` behind `AccessControl` |
| `RegistryAccessProofs` | theorems about `RegistryAccess`, and that it implements `AgentRegistry` |
| `MCRegistryAccess` | the values of its constants for TLC |
| `ToolGateway` | governed tool calls over `AgentRegistry`: policy, version pin, unique key, independent recorder, connection pool |
| `GovernedCall` | what the gateway promises: a call is refused, or attempted with what its run has, once and in one step |
| `ToolGatewayProofs` | theorems about `ToolGateway`, and that it implements `GovernedCall` |
| `MCToolGateway` | the values of its constants for TLC |
| `Refund` | the refund workflow, its transactions, the decision route, the notification |
| `RefundProofs` | theorems about `Refund` |
| `MCRefund` | the values of its constants for TLC |
| `FaultInjection` | persisted fault plans, consumed under the row lock |
| `EvaluationContract` | which cases and suites are valid, and how evidence is scored: operators, no state |
| `Evaluation` | the evaluator, the hand-off, the workflow and `FaultInjection` together |
| `EvaluationProofs` | theorems about `FaultInjection` and `Evaluation` |
| `MCEvaluation` | the suites of the catalog for TLC |

`WorkflowStart` runs in TLC as it is. Each definition's source lines are in
`PROJECT.json` under `map`. A definition named in a comment as "a variant" is a
plausible bug of the definition after it, used to show that the properties
notice it; nothing else refers to it.

### WorkflowStart

One step per transaction, because `_claim_start`, `_mark_started` and
`_mark_failed` lock the attempt row. Between them a process has a `pc`:

| `pc` | in `start()` | action |
|---|---|---|
| `claim` | before `_claim_start` | `Skip` (settled, or leased to another), `Claim` |
| `call` | token in hand | `Call` |
| `calling` | awaiting Temporal | `Serve`, `CallFails` |
| `accepted`, `already`, `error` | answer in hand | `MarkStarted`, `MarkFailed`, `HandoffFault` |

`Request` is `create_or_get` for any of the three workflow types (they differ in
the input only): it inserts run and attempt in one transaction or finds the row of
the same key, and refuses another fingerprint. `Scan` and `Return` are the loop
of `recover`. A token is a fresh uuid in the code and the ordinal of its claim
here, so the row's `attempts` doubles as its token. Time is only the expiry of a
lease, which may hit a process that is still at work. Temporal is external: a
start request is served, lost, or served late, its answer may be lost, and
an id is refused only while an execution with it is open, which is what the SDK's
default id-reuse policy means for the call at `workflow_starts.py:475`.

### VendorOnboarding

An activity body is one step: `with_for_update` and the version column of
`approval_requests` make concurrent bodies serial or abort one of them (`Aborts`).
Its result is the reply Temporal sees: `ok`, `retry` or, for an
`ApplicationError(non_retryable=True)`, `fatal`. `Attempt` is a body whose reply
arrives, `TimesOut` one that Temporal gives up on; that one stays in `late` and
may commit at any later moment, also after the workflow has moved on, ended or
begun again. The injected post-commit faults are the reply `retry` after a
commit. A tool's invocation row is `ok`, `bad` (recorded as failed or denied,
replayed as a failure for ever) or absent. An event's sequence number is taken
once, as in `_append_event`; an audit entry once per run and action.

A decision goes through `Decide` (the check in the API's transaction) and
`Update` (arrival at the workflow, with Temporal's deduplication by id and the
validator). `Cancel` is the signal. `StartExecution` begins an execution, and
may do so again when the last one has closed: that is the second execution that
`WorkflowStart` shows to be possible.

Abstracted: risk scores, rationales, the model's explanation (it decides
nothing), wording, metrics, and approvers' authorisation. The audit entry that the
cancel route itself writes is left out.

### ManagedAgent

An agent is code of somebody else; here it is a *program*, a sequence of platform
calls, drawn anew by each attempt (an agent that finds its checkpoint may do
something else). Every call is as many steps as it has transactions:

| call | steps |
|---|---|
| `execute` | `Begin`, the calls, `Finish` (last transaction), `Complete` (event and reply) |
| `save_checkpoint`, `create_artifact`, `call_tool` | `Save`: the row and its charge |
| `call_model` | `CallModel`: charge, provider, token charge, in one transaction |
| `request_approval` | `RequestApproval`, `Announce`, `Poll` |
| `delegate` | `AdmitChild` (checks), `CreateChild` (rows and charge), `StartChild`, `AwaitChild` |
| `emit_event`, `check_cancelled` | `EmitEvent`, `CheckCancelled` |

`pc[<<r, n>>]` is where the n-th attempt of run r is. `Retried` and `Ends` are the
two ways `temporal_failure` sorts an error; `Refused` is an error that is not
retried and whose transaction leaves nothing. `TimesOut` begins the next attempt
while the old one goes on, so two attempts of a run interleave; `Stops` is the old
one noticing. Status changes lock the run's row or fail on its version column; they are
atomic steps, and the failure is `Fails`. A budget is a number for each resource;
input and output tokens are one resource, checkpoint and artifact bytes another, and
every checkpoint or artifact has one unit of size. A cancellation is the status of a run and
everything it delegated (`Descendants`, the smallest set closed under the
delegation rows), as the route's loop computes it; the signals come after it.

Abstracted: what the manifest settles before a run (capabilities, schemas, depth,
agent cycles, tool grants), read-only calls, sequence numbers of events, and a
repeated checkpoint with other content (an error like any other). A workflow id has
one execution; what a second one does is the subject of the first two models. `Poll`
reads run and approval at once, where the code has two statements of one
session: a cancellation or decision that is committed between them is seen one poll
later here. An agent that catches a refusal of the platform and goes on is not
modelled: a refused call ends the attempt.

### AgentRegistry, AccessControl and RegistryAccess

A registration request is one transaction, and its statements are steps:

| `request[q].step` | in `register_agent` | action |
|---|---|---|
| `idle` | | `Submit` |
| `lookup` | SELECT of the version | `LookupVersion`: go on, the same content again, or a conflict |
| `tools` | the declared tools are enabled | `CheckTools` |
| `insert` | INSERT of the version with its grants, flushed | `InsertAgent` |
| `commit` | the route's commit | `CommitRegistration` |

Every statement reads what is committed by then (READ COMMITTED) and what its own
transaction has `added`. A row that is inserted and not committed holds its unique
key: the next insert of it is not enabled, and is refused once the first is
committed; nothing in the code catches that violation, so the answer is an `error` (HTTP 500)
and not the `conflict` of `LookupVersion`. Discovery is the same transaction with a batch of several registrations.
`SwitchTool` and `SeedGrant` are an operator and a release that is deployed beside it.
A content stands for its digest; parsing manifests and importing entry points yield
the contents and are left out.

`AccessControl` has one step per transaction of `auth_cli.py`, of which two that race on
a row leave one with nothing, and one step per lookup of a request. A request goes on
with what it has read: a key that is revoked after `LookupKey` does not stop it, and
`RegistrationIsAuthorised` therefore speaks of the key's scopes, which never change, and
not of its status: that a withdrawn key stops a request under way is neither
promised nor checked. `RegistryAccess` composes the two by a request's identity: `Handle` is a step of
the registry, by a request that has `entered`. Hashing is left out.

### ToolGateway

It extends `AgentRegistry`, so that the grants a run copies (`CreateRun`) are those
that registrations and seeds leave. A call is a caller's transaction, and its
statements are steps:

| `call[c].step` | in `invoke` | action |
|---|---|---|
| `idle` | no connection | `Begin` takes one |
| `resolve` | the tool's row, once | `Resolve`; `InjectFailure` for the adapter's fault point |
| `lookup` | the key's row | `LookupInvocation`: replay, conflict, or go on |
| `authorise` | agent, snapshot, approval, handler, arguments | `Authorise` |
| `pin` | `_pin_tool_version` | `Pin` |
| `insert` | the row, flushed | `InsertInvocation` |
| `handle` | the handler | `Handle` |
| `record`, `write` | `_record_terminal_attempt` on a second connection | `SelectRecord`, `PoolTimeout`, `WriteRecord` |
| `done` | the caller's transaction is still open | `Commit`, `Rollback` |

`pinned` and `row` are what the caller has inserted and not committed, visible to no one
else and holding their unique keys. `enabled` is what the tool's row said when it was
read. A caller decides for itself whether it commits after a refusal, so `Commit` and
`Rollback` are both enabled, unless a database error has broken its transaction.
`Crash` ends a caller at any step. `InUse` counts connections; `PoolTimeout` is the pool's
time limit. What a handler does to other tables is its success or failure here;
where such tables matter they are in `VendorOnboarding` and `Refund`. `RefusalIsRecorded`
asks for a record under the refused call's key and not for the refusal itself: when another
attempt's row has the key by then, `_add_terminal_attempt` writes nothing.

### Refund

The workflow's phases are those of `RefundWorkflow.run`. The activities that ask for a
decision, commit it and notify are attempts in a slot of the worker, with a step for
each statement that another transaction can come between. The four activities that
gather evidence write nothing that others read and are one step, `Gather`; a lookup that the
gateway refuses for lack of a grant is one of its faults, not a case of its own. Each run has
one execution. `TimeOut`
leaves an attempt behind that may still commit; `Crash` makes its slot `Lost`, and
only the time-out ends that. `CheckDecision` and `Update` are the decision route before
and after its transaction ends. `notice` is the e-mail and the tool's row of its key:
a denial is there to stay, since the gateway records it apart.

### FaultInjection, EvaluationContract and Evaluation

`consume` is two steps, `SelectPlan` and `TakeTrigger`, with the row locked in
between: the second writes back what the first one read. `RollBack` is a process that
dies between them.

`EvaluationContract` has the validators of `evaluation_scenarios.py` as predicates on
records (`ValidCase`, `ValidSuite`) and `_score_case` as the set of fields in which
evidence differs from the expectation (`Mismatches`). TLC evaluates `ValidSuite` on the
suites of the instance as an assumption, so the cases that are executed are ones
the release could have loaded.

`Evaluation` composes four parties: the evaluator (`evaluator[c].step` is its place in
`run_production_vendor_onboarding`), the hand-off of a case's run (`start`, by the
evaluator or the recovery command), the workflow and its activities (`workflow`,
`attempt`, `db`), and the fault plans. An activity is the fault points before its
transaction, the transaction, and the fault points after it; that it is one step is
what `VendorOnboarding` looks into. Six of the fault points are modelled.
`ACTIVE_ACTIVITY` and `DATABASE_OPERATION` (`activities.py:85`, `:88`) fire just before
`lookup` and `PROJECTION_POST_COMMIT_HANDOFF` (`:491`) just before `email`; a trigger of theirs
is a retry like one of those, so they are merged into them, and a case has at most one of each
group. The one difference is that `lookup` fires inside the transaction, and commits that
the review has begun.

A wait of the evaluator for a row or a phase is a step that is enabled when what it
polls for is there, and `GiveUp`, its deadline. (Temporal ends a query that no worker
answers, so that poll has its deadline too.) A decision is a call and its answer: `Send`, and
then `Accept` or `Refuse`, which need a worker while the workflow is open, or `CallFails`.
`execute_update` has no time limit, and `_execute_accepted_update` looks at its deadline
between calls only, so between `Send` and the answer the evaluator cannot give up. The
attempts that come too early are sent the same way, before the tool probes. An update that the
evaluator did not wait for may still reach the workflow; one that is sent again has the
same id, and otherwise the evaluator is dead or has failed the case, so nothing that
is checked depends on it and it is left out. `MCEvaluation`
translates cases of `evaluation_datasets/vendor_onboarding.v1.json`.

## 3. What each run checks

| run | instance | shows |
|---|---|---|
| `workflow_start` | 2 keys, 1 request, 1 recovery command with limit 1, 2 faults, fair | the token fences results; a claim belongs to one process and creates at most one execution; STARTED is final and means accepted; the protocol implements `StartHandoff`; every intent is settled |
| `second_execution` | 1 key | **violated**: "retries cannot create a second Temporal workflow execution" |
| `vendor_onboarding` | 2 runs of one vendor, one executed twice, 2 attempts, 1 fault | one decision per request; decision, event, audit, notification and listing appear together; listings are justified; closed approvals stay closed; `ApprovalCase` is implemented |
| `vendor_onboarding_live` | 1 run, 3 attempts, 2 faults, fair | acknowledged decisions are the recorded ones and do get recorded; no cancellation undoes them; failures leave FAILED; no review hangs |
| `shared_key` | 1 run, 2 decisions under one key | **violated**: a conflicting decision is rejected |
| `managed_agent` | a parent, a child, a child it may not have; 2 attempts, 2 faults, fair | budgets hold and effects are charged under repetition and overlap; delegation attenuates; approvals gate; cancelled runs stay cancelled; workflows close |
| `repeated_execute` | the same, 1 fault | **violated**: a repetition converges "on the result already committed" |
| `registry_access` | 3 requests, of which two contend for one version with different contents and one is a discovery of two; a built-in agent; one principal with two keys | success is answered truly, in a batch as well; a version keeps its content and grants; what is registered was brought with the scope, and denials are in the audit log |
| `tool_gateway` | 2 callers, one of which tries twice, a pool of 2; two versions of one tool, a tool without a handler, one without a definition; fair | effects are authorised and of the version the run is bound to; a call that was told of a refusal has a record under its key; a key's record is final; `GovernedCall` is implemented; every call ends |
| `refund` | 2 runs of one refund, 2 slots, 2 attempts, 2 requests, 3 decisions, 2 faults, fair | rows of a decision agree; the refund is paid once; an accepted decision is recorded or the workflow fails |
| `refund_notification` | 1 run with the grants of the seed, no fault, fair | **violated**: the workflow "writes an idempotent refund projection and notification" |
| `evaluation` | 1 evaluator and its key, 7 suites of 1 or 2 cases, 2 slots, 2 attempts, 1 fault, a recovery command, an operator who configures one plan; fair | triggers are spent once; SUCCEEDED is earned by every case; every request ends, unless it hangs in an update that no worker answers |

### Findings

1. *Second execution* (ADR 0012). Start, answer lost, the execution closes, retry:
   `start_workflow` has no reuse policy, so the id is free and a second execution
   runs over the same run. `OneExecutionPerClaim` is what does hold, and
   `ClosedApprovalIsFinal` shows the onboarding activities survive it.
2. *Shared update id* (ADR 0004). Between acceptance and record, a conflicting
   decision sent with the same idempotency key gets the first one's answer from
   Temporal: 202 for a decision that is not, and will not be, recorded.
3. *Repeated execute* (system overview). `execute` sets RUNNING unless the run was
   cancelled, so an attempt that is repeated after its last transaction (the
   completed event failed, the worker died) takes a SUCCEEDED run back to RUNNING and
   runs the agent again. With the attempts used up, the run stays RUNNING.
4. *Refund notification* (system overview). The seed grants the refund agent its two
   lookups and not the e-mail tool, and a run copies those grants; the notification
   goes through the gateway, which denies it after the refund was paid. The denial
   is recorded under the attempt's key, so no retry changes it, and the workflow fails.

Seen while modelling and not a run (each is among the hazards, with its line):
recovery's exit status counts raised errors only, not runs under somebody else's lease;
a late `request_approval` takes a run that ended back to WAITING; a child
inserted after its parent's cancellation runs on (delegation is called
experimental by `docs/limitations.md`); a managed workflow that fails leaves its run RUNNING; `exhausted_at` is
always rolled back; a repeated delegation counts its own child against the
fan-out; an accepted decision is lost when `record_decision` fails three times
(`AckedDecisionIsRecorded` holds with fewer); `recover` could starve younger runs behind
`limit` older ones that fail for ever, which two faults cannot show; the evaluator waits for
ever in an update that no worker answers: no document promises otherwise, and
`EvaluationEnds` names that case as the only one. Without its last disjunct TLC finds
it: an update is sent while a worker is between two activities, and nobody comes back.

## 4. Bounds

- `MaxFaults` counts crashes, lost messages, overrun leases, failing calls, aborted
  transactions and time-outs together. Two in `workflow_start` allow the longest
  stories of the design: a lease overrun and a late answer, an acceptance lost
  and then a crash. In `vendor_onboarding` one fault per behaviour is combined with
  a second execution and a second run. In `vendor_onboarding_live` two faults with
  three attempts is the largest number for which the promises can hold; its one run is
  executed once and its decisions have keys of their own, so that it has the
  hypotheses of the theorems that have one (section 6): `OneExecution`, `DistinctKeys`
  and `EnoughAttempts`. `vendor_onboarding` does not have the first: one of its
  runs is executed twice.
- `MaxAttempts` is 3 in the code and in the fair runs; 2 in `vendor_onboarding`,
  where only the number of bodies that run matters, and late commits supply more.
- Two keys with a recovery limit of one make recovery choose between runs; a
  request and a recovery command are two processes on the same attempt row,
  which is as many as a claim can have to fence at a time.
- Two runs of one vendor share `vendors` and `approved_vendors`; two decisions, one
  each way, are the conflict an approval can have.
- In `managed_agent` the parent has three programs: save and delegate; report, look for a
  cancellation and ask a model; call a tool and ask for the child that is too greedy. Limits
  are such that a second model call, tool call or child is one too many and a second
  checkpoint is not, so that repetitions run into budgets. Two attempts (3 in
  the code) overlap, and two faults use them up; a third attempt adds no kind of overlap.
- In `registry_access` two requests are enough for a key to be contended; the third
  is there so that the one with a batch of two fails or waits in its middle while
  both of the others are under way. Two keys of one principal, one with the scope and one
  without, are the two ways an admission can end; both may be revoked, expire or lose
  their principal at any step.
- In `tool_gateway` a key and a name are contended by two callers, and a pool of two is
  the smallest in which both hold one connection while each wants another. Two tries
  let a call come back to a key that its earlier attempt has left a record of.
  Calls are drawn from five asks that between them reach every refusal; all of them name an
  agent that exists (`known`), the other kind is denied like one without the grant and is covered by
  the theorems only.
- In `refund` two runs of one refund are the conflict over its projection; two slots let an
  attempt that was given up on commit beside its successor, or both runs commit
  at a time. Two faults use up the
  attempts of one activity, or meet both runs once.
- In `evaluation` the seven suites have every fault point, decisions that are accepted, stale,
  forbidden, too early and in conflict with their key, both kinds of tool probes, a cancellation
  while the approval is pending, and catalog rows that are there, renamed and missing. One fault besides
  the injected ones is a crash, a time-out or a lost answer at any step.
- No symmetry is used, as most runs check temporal properties.
- Deadlock is checked for `WorkflowStart`. In the other configurations it is
  not: when every workflow has closed and every request is answered, or every
  caller has used its tries, the system has really stopped. A wait for ever where it should not is what
  `CallsEnd`, `DecisionSettles` and `EvaluationEnds` are about.

## 5. Fairness

`WorkflowStart`: a process that has not crashed takes its next step (asyncio
schedules it), a call without an answer ends (the client's RPC deadline), a
lease runs out (time passes), Temporal serves requests that reach it, and
the operator keeps running the recovery command (ADR 0012 asks for it). Crashes,
losses and new requests are never fair. The conjunct `faults' = faults` confines
fairness to the time-outs that are not faults.

`VendorOnboarding`: Temporal starts the workflow, schedules attempts and delivers
updates, which is what it is used for; `Attempt` is fair only for attempts
without a fault. Faults, late commits, approvers and cancellations are not fair, so no
liveness property depends on somebody deciding.

`ManagedAgent`: a worker goes on with the attempt it runs, provider and database
answering (steps with a fault are excluded), Temporal runs a workflow that was
started, and the hand-off starts every run that exists, which is `IntentIsSettled` of
`WorkflowStart`. `WorkflowCloses` makes no assumption on approvers: it excuses
workflows only while an approval that can be given is open.

`ToolGateway`: the statements of a call are executed and its caller ends the
transaction, which is what an activity with a database does; `PoolTimeout` is one of its
steps, as SQLAlchemy's `pool_timeout` has a default and `create_resources` sets none. Calls,
crashes, approvals and registrations are not fair.

`Refund`: Temporal schedules attempts and times out those whose worker is gone; a
worker goes on with an attempt; `Gather` ends. Decisions, crashes and failures are not
fair, nor is the time-out of an attempt that is still going on.

`Evaluation`: the evaluator goes on; a command that holds a lease goes on; workers go on with
attempts they have; Temporal answers an update for a workflow that is not open, which needs no
worker. `GiveUp` is strongly fair: its deadline passes once for all, but while an update is
unanswered the evaluator does not look at it. Neither Temporal's scheduling nor a worker's answer
to an update is fair: `EvaluationEnds` holds with workers that never come back, and
says what is left of it then. `RegistryAccess` has no liveness property and no fairness.

## 6. Proofs

The proof modules use only the named assumptions of the modules they are about
(`ConstantsAssumption`, `RegistryAssumption`, `AccessAssumption`, `RouteAssumption`,
`GatewayAssumption`, `RowAssumption`, `RefundAssumption`, `FaultAssumption`,
`EvaluationAssumption`), which TLC evaluates in the
runs. They say what kind of values the constants are, with two exceptions: the row of a
built-in agent has no digest of a manifest, so its content is none that a
request registers (`RegistryAssumption`), and a suite is one that the validators of
`evaluation_scenarios.py` admit (`EvaluationAssumption`). Three theorems about
`VendorOnboarding` have a hypothesis of their own, named below.

`WorkflowStartProofs`. The inductive invariant joins `TypeOK` with the facts
that make tokens work: a process in possession of a token has one that was
drawn (at most `attempts`), two processes never have the same one for the same
run, a released lease has no holder, requests on the wire and executions belong
to distinct earlier claims, and an answer `accepted` or `already` means that an
execution exists. The last is what makes STARTED imply acceptance, and the
distinctness of tokens is what keeps a release by one process from leaving another
holder behind. Theorems: `TypeCorrect`, `StartedIsAccepted`, `TokensFence`,
`ClaimsAreExclusive`, `ExecutionsPerClaim`, `StartedStays`, `HandoffImplemented`.

`VendorOnboardingProofs`. Every activity body is shown to be either *quiet* (it
leaves decisions, listing and a closed approval alone, and writes no decision
evidence) or the commit of a decision on a pending approval. The invariant is
`TypeOK`, `OneDecision`, `DecisionIsAtomic`, `ListingIsJustified` and the fact that
a commit always comes with a decision to commit (an execution in
`recording_decision`, and every late attempt of `record_decision`, carries one).
The refinement of `ApprovalCase` follows: a quiet body is a stutter, `Ask` or
`Cancel`, a commit is `Reject` or `Approve`. Theorems: `TypeCorrect`,
`AtMostOneDecision`, `DecisionsAreAtomic`, `ListingsAreJustified`,
`ClosedApprovalStays`, `CaseImplemented`.

The rest of that module is about runs whose workflow id is executed once
(`OneExecution`), which is what the code counts on and what `WorkflowStart` shows it
cannot have in every case. `OnceInv` says what the one execution is committed to: it has
not begun unless its id is taken; a choice, once made, stands, with the workflow
recording it, completed with it or failed on it; and a late attempt of
`record_decision` or `cancel_review` is one of that execution and that choice. From it:

- `DecisionsAreNotCancelled`: a run is not both decided and cancelled.
- `AcknowledgementsAreTrue`: also needs `DistinctKeys`, that no two approvers bring one
  decision key. `AckedIsChosen` says that whoever was told "accepted" was told of the choice.
- `FailuresAreRecorded`: also needs `EnoughAttempts`, an e-mail tool that works and fewer faults than
  an activity has attempts. `AttemptsLeft` counts the tries of the activity at hand
  against the faults there were, so no activity runs out of attempts with nothing recorded.

Each hypothesis is needed. With a second execution each of the three fails in TLC;
`shared_key` is the counterexample without `DistinctKeys`; with as many
faults as attempts, or an e-mail tool that is broken, a workflow fails after a decision that
never was recorded and leaves its run as it was. The runs `vendor_onboarding` and
`vendor_onboarding_live` say which of them they have (section 4).

`ManagedAgentProofs`. Budgets need the types alone: every step leaves `consumed` or
charges what fits. The rest needs `Control`: an attempt follows a program of its run
from the first call on; a fresh attempt is at its first call (or else a
repetition would start past an approval); attempts later than the current one have
not begun; an attempt that was admitted has found the child's limits within its
parent's and stays at that call, so the check still holds when the child is inserted; a
workflow exists only for a run that does. `RunMoves` says how a status may move: from
it follow `CancelledStays` and that a run appears only through `CreateChild`. Charges are
compared with rows by counting (`FiniteSetTheorems`). Theorems: `TypeCorrect`,
`BudgetsAreRespected`, `EffectsAreAlwaysCharged`, `ChildrenAreAttenuated`,
`ApprovalsGate`, `CancelledStays`.

`AgentRegistryProofs`. What a request has added is, for each version, one content for which
there is no committed row (`AddedIsNew`); no two requests have added the same version
(`AddedApart`), since the second insert waits; and what a request has done is added or
committed (`DoneIsThere`). So a commit only fills versions that were empty, which is
`VersionsAreFinal`, and everything the batch names is there after it, which is
`RegistrationsAreHonest`. Both read what other transactions have committed
in between, which is why the unique key and not the lookup carries the argument.

`RegistryAccessProofs`. Every step of the routes is a step of the registry or leaves it
alone (`RoutesImplementRegistry`), so its theorems carry over
(`RoutesAreHonest`). For `RegistrationsAreAuthorised`: a request that has begun was
admitted with a key that has the scope, its key never changes, and every row
beyond the seeds is in the batch of a request that committed.

`ToolGatewayProofs`. The invariant is a call's own consistency (`CallOK`) and that no two
open calls have inserted one key or one name (`KeysApart`). A row inserted under a key has no committed
row beside it, and one inserted by a call that passed `Authorise` is `Cleared`: the
tool is defined and granted, approved if it has to be, with valid arguments. The grants
of a run, an approval and a binding never go away, so what was read stays true until
the commit. A binding is committed with the row or before it; `OneVersion` follows, as
every success is of the version its name is bound to. `RowsAreFinal`: both the
caller's commit and the recorder's write fill keys that are empty.

`CallsAreGoverned` is the refinement of `GovernedCall`. A call takes place at its commit: the
caller's commit is `Attempt`, whether the handler succeeded or not, the recorder's is
`Refuse`, and everything before is a stutter. It needs one more invariant, `PinsAreUsed`: a
transaction that has inserted a binding without a row is broken and rolls back, so
no commit leaves a binding behind for a call that was not attempted.

`RefundProofs`. An attempt of the commit carries the decision its workflow accepted, which
never changes (`AttemptsAreTrue`), and a refund that the attempt has seen paid stays paid. With
that each of the two ways to end the commit, paying or finding it paid, leaves rows that agree:
`DecisionsAreWhole`; `RefundIsPaidOnce` is the unique key of the projection.

`EvaluationProofs`. The fault plans first, by themselves: a session that has read a plan has
read what the row still holds (`ReadIsFresh`), because the lock leaves a plan at most one reader
(`OneReader`): that makes `TriggersSpentOnce` inductive. Every step of `Evaluation` is one of
those steps, or leaves the plans alone (`FaultStep`), so no trigger is spent twice there
either (`EvaluationSpendsOnce`), and the number of faults a run has survived only grows
(`SumGrows`).

`SuccessIsEarned` needs to know what all of them are doing. `EarnedInv` has these parts:

| part | what it says |
|---|---|
| `Shape` | the fields of the records that actions update one by one |
| `EvaluatorsApart` | an execution has at most one evaluator at work, at a case of its own suite |
| `LeasesAreHeld` | a lease of an evaluator is on the run it is starting, so nobody else moves it on |
| `DecidesOnly` | evaluators, workflows and attempts decide only runs whose contract awaits a decision, and a decided status has its decision row |
| `SlotsAct` | an activity is scheduled in a phase that waits for it |
| `TodoIsOfCase` | what is still to be configured is a fault of the case |
| `EvidenceHolds` | evidence is taken, and kept, of effects that are final |
| `PassedIsEarned` | every case behind an evaluator that has passed so far is earned, and so is every case of a success |

The argument is that evidence is not read too early. An evaluator collects it after it has
seen the status that the case is driven to. If the case awaits a decision, that status is
committed together with the decision row; if it does not, nobody sends one
(`DecidesOnly`). Either way the run is `Final`: no later activity, of a workflow that is
still running, of a worker thought dead or of an attempt that timed out, changes its decision,
listing or message (`DbStep`, `FinalStays`). The survived faults may still grow, which is why
they are compared with "at least". Each step is classified once by what it does to each
group of variables (`HarnessMoves`, `StartMoves`, `DbMoves`, `WorkflowMoves`,
`AttemptMoves`, `FaultMoves`), and the parts are then shown to survive any such step.

Every invariant was checked by TLC before it was proved, those of the last two
paragraphs on the instances of `vendor_onboarding_live` and `evaluation`.

Only model-checked: the liveness properties (`IntentIsSettled`,
`AckedDecisionIsRecorded`, `ReviewProgresses`, `WorkflowCloses`, `CallsEnd`, `DecisionSettles`,
`EvaluationEnds`), as the prover handles neither fairness nor ENABLED. Every invariant and every
action property of a passing run is a theorem.

## 7. Plan

Done, in this order: `WorkflowStart` with `StartHandoff`; `VendorOnboarding` with
`ApprovalCase`; `ManagedAgent`; `AgentRegistry`, `AccessControl` and their composition;
`ToolGateway` with `GovernedCall`; `Refund`; `FaultInjection` and `Evaluation`; a theorem for every safety property
that a passing run checks.

Left, in this order:

1. `EventStream`: writers of events and terminal statuses against a polling connection.
2. `ManagedAgent` composed with `StartHandoff` in place of its one-step start.

## 8. Not modelled

- The event stream: every later connection gets the events an earlier one missed, so its
  property would be about one connection; see the plan.
- Model providers and evidence (answers decide nothing; their calls and budgets are
  in `ManagedAgent`, their failure in `Evaluation`).
- Policy retrieval and JSON schema validation: pure functions of text.
- The sandbox: it builds a container command line.
- Console, metrics, tracing and logging: presentation.
- The older validator that inspects catalog cases without workers, and the rendering of
  evaluation reports.
- Worker wiring but for the connection pool, seed data but for agents, grants and evaluation
  cases, downgrades of the schema, the scripts, the demo production and the SDK's data
  classes.
