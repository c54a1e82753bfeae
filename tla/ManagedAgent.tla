---------------------------- MODULE ManagedAgent ----------------------------
(***************************************************************************)
(* Managed agents (workflows/managed_agent.py, managed_activities.py,      *)
(* runtime_state.py): a workflow whose only activity, `execute', runs an   *)
(* agent package against platform services, each a transaction of its own. *)
(* An attempt of `execute' that fails is repeated from its beginning; one  *)
(* that timed out goes on beside its successor until it notices.  Agents   *)
(* delegate to child runs, wait for approvals by polling the database, and *)
(* are cancelled by a status in the database.                              *)
(*                                                                         *)
(* An agent's code is a program: a sequence of calls, drawn anew by every  *)
(* attempt from the programs the agent may follow.  Static checks of the   *)
(* manifest (capabilities, depth, agent cycles, tool grants, schemas) are  *)
(* taken as passed.  Status changes go through FOR UPDATE or the version   *)
(* column of workflow_runs: they are atomic, or fail the whole attempt.    *)
(***************************************************************************)
EXTENDS Naturals, FiniteSets, Sequences

CONSTANTS
    Runs,         \* managed runs, delegated ones included
    Parent,       \* the run that may delegate to a run, None for a top-level run
    Programs,     \* of each run: the call sequences its agent may make
    Limits,       \* run_budgets.limits of each run
    FanOut,       \* delegation_policy.max_fan_out of each run's agent
    Tokens,       \* token counts a model may use
    MaxAttempts,  \* MANAGED_AGENT_RETRY.maximum_attempts
    MaxFaults,    \* bound: failing calls, worker deaths, time-outs
    None

Resources == {"steps", "tool_calls", "model_calls", "bytes", "tokens", "child_agents"}
Kinds     == {"event", "check", "checkpoint", "artifact", "tool", "model",
              "approval", "delegate"}

\* A call to a platform service; arg is its idempotency key, its name or the child.
Calls == [do : Kinds, arg : STRING \cup Runs]

ASSUME ConstantsAssumption ==
    /\ IsFiniteSet(Runs)
    /\ None \notin Runs \cup {"PENDING", "APPROVED", "REJECTED"}
    /\ Parent \in [Runs -> Runs \cup {None}]
    /\ \A r \in Runs : Programs[r] \subseteq Seq(Calls) /\ Programs[r] # {}
    /\ \A r \in Runs : \A p \in Programs[r] : \A i \in DOMAIN p :
          p[i].do = "delegate" => p[i].arg \in Runs /\ Parent[p[i].arg] = r
    /\ Limits \in [Runs -> [Resources -> Nat]]
    /\ FanOut \in [Runs -> Nat]
    /\ Tokens \subseteq Nat
    /\ MaxAttempts \in Nat \ {0}
    /\ MaxFaults \in Nat

VARIABLES
    \* PostgreSQL
    run,        \* workflow_runs.status, "absent" before the row
    consumed,   \* run_budgets.consumed
    rows,       \* checkpoints, artifacts and invocations of the run, by call
    models,     \* number of its model_calls rows
    approval,   \* status of its approval request, or None
    events,     \* kinds of its workflow events
    \* attempts of `execute'
    pc,         \* where an attempt is
    at,         \* the call it is making
    prog,       \* the program it follows
    \* Temporal
    wf,         \* the run's workflow
    attempt,    \* the attempt Temporal waits for
    signalled,  \* _cancelled
    faults      \* faults so far

dbVars  == <<run, consumed, rows, models, approval, events>>
attVars == <<pc, at, prog>>
wfVars  == <<wf, attempt, signalled>>
vars    == <<dbVars, attVars, wfVars, faults>>

Attempts == Runs \X (1 .. MaxAttempts)
Verdicts == {"APPROVED", "REJECTED"}
Terminal == {"SUCCEEDED", "CANCELLED"}
Closed   == {"completed", "cancelled", "failed"}

Active   == {"begin", "call", "announce", "polling", "admitted", "starting",
             "awaiting", "complete"}

TypeOK ==
    /\ run \in [Runs -> {"absent", "PENDING", "RUNNING", "WAITING"} \cup Terminal]
    /\ consumed \in [Runs -> [Resources -> Nat]]
    /\ rows \in [Runs -> SUBSET Calls]
    /\ models \in [Runs -> Nat]
    /\ approval \in [Runs -> {None, "PENDING"} \cup Verdicts]
    /\ events \in [Runs -> SUBSET {"progress", "approval_requested", "completed"}]
    /\ pc \in [Attempts -> Active \cup {"none", "ended"}]
    /\ at \in [Attempts -> Nat \ {0}]
    /\ prog \in [Attempts -> Seq(Calls)]
    /\ wf \in [Runs -> {"absent", "created", "executing"} \cup Closed]
    /\ attempt \in [Runs -> 1 .. MaxAttempts]
    /\ signalled \in [Runs -> BOOLEAN]
    /\ faults \in Nat

Init ==
    /\ run = [r \in Runs |-> IF Parent[r] = None THEN "PENDING" ELSE "absent"]
    /\ consumed = [r \in Runs |-> [x \in Resources |-> 0]]
    /\ rows = [r \in Runs |-> {}]
    /\ models = [r \in Runs |-> 0]
    /\ approval = [r \in Runs |-> None]
    /\ events = [r \in Runs |-> {}]
    /\ pc = [a \in Attempts |-> "none"]
    /\ at = [a \in Attempts |-> 1]
    /\ prog = [a \in Attempts |-> <<>>]
    /\ wf = [r \in Runs |-> "absent"]
    /\ attempt = [r \in Runs |-> 1]
    /\ signalled = [r \in Runs |-> FALSE]
    /\ faults = 0

-----------------------------------------------------------------------------
(***************************************************************************)
(* Control of an attempt, and Temporal's retries.                          *)
(***************************************************************************)
\* A fault happens: at most MaxFaults in a behaviour.
Fault ==
    /\ faults < MaxFaults
    /\ faults' = faults + 1

\* Temporal still waits for this attempt.
Current(a) == wf[a[1]] = "executing" /\ attempt[a[1]] = a[2]

\* The attempt's program has a call left, and it is of this kind.
Calling(a, kinds) ==
    /\ pc[a] = "call"
    /\ at[a] \in DOMAIN prog[a]
    /\ prog[a][at[a]].do \in kinds

Call(a) == prog[a][at[a]]

Goto(a, where) ==
    /\ pc' = [pc EXCEPT ![a] = where]
    /\ UNCHANGED <<at, prog, wfVars>>

\* The call has returned to the agent.
Onward(a) ==
    /\ pc' = [pc EXCEPT ![a] = "call"]
    /\ at' = [at EXCEPT ![a] = @ + 1]
    /\ UNCHANGED <<prog, wfVars>>

\* The attempt returns or raises an error that is not retried: the workflow closes,
\* unless Temporal no longer waits for this attempt.
Ends(a, outcome) ==
    /\ pc' = [pc EXCEPT ![a] = "ended"]
    /\ wf' = [wf EXCEPT ![a[1]] = IF Current(a) THEN outcome ELSE @]
    /\ UNCHANGED <<at, prog, attempt, signalled>>

\* Temporal gives the current attempt of r up: it schedules another one, or the
\* workflow fails.  The attempts are then where pcs says.
GiveUp(r, pcs) ==
    /\ IF attempt[r] < MaxAttempts
       THEN /\ attempt' = [attempt EXCEPT ![r] = @ + 1]
            /\ pc' = [pcs EXCEPT ![<<r, attempt[r] + 1>>] = "begin"]
            /\ UNCHANGED wf
       ELSE /\ wf' = [wf EXCEPT ![r] = "failed"]
            /\ pc' = pcs
            /\ UNCHANGED attempt
    /\ UNCHANGED <<at, prog, signalled>>

\* The attempt dies or raises an error that is retried.
Retried(a) ==
    IF Current(a)
    THEN GiveUp(a[1], [pc EXCEPT ![a] = "ended"])
    ELSE Goto(a, "ended")

(***************************************************************************)
(* Budgets (consume_budget): the whole amount, or an error that rolls the  *)
(* caller's transaction back, the exhausted_at it has just set included.   *)
(***************************************************************************)
\* What a call of a kind consumes besides a step, and what it costs, apart from a
\* model's tokens.
Metered == [checkpoint |-> "bytes", artifact |-> "bytes", tool |-> "tool_calls",
            model |-> "model_calls", delegate |-> "child_agents"]

Cost(kind) == [x \in Resources |-> IF x \in {"steps", Metered[kind]} THEN 1 ELSE 0]

WithTokens(amount, n) == [amount EXCEPT !["tokens"] = n]

\* (BeforeUse: a variant that looks at the usage before the increment.)
FitsBeforeUse(r, amount) ==
    \A x \in Resources : amount[x] > 0 => consumed[r][x] <= Limits[r][x]

Fits(r, amount) ==
    \A x \in Resources : consumed[r][x] + amount[x] <= Limits[r][x]

Charge(r, amount) ==
    consumed' = [consumed EXCEPT ![r] = [x \in Resources |-> @[x] + amount[x]]]

\* The call raises and its transaction leaves nothing.
Refused(a) ==
    /\ Ends(a, "failed")
    /\ UNCHANGED dbVars

(***************************************************************************)
(* execute(): the beginning, the services and the end.                     *)
(***************************************************************************)
\* The first transaction: RUNNING again, whatever the run was, unless cancelled.
Begin(a) ==
    LET r == a[1] IN
    /\ pc[a] = "begin"
    /\ \/ /\ run[r] = "CANCELLED"
          /\ Ends(a, "cancelled")
          /\ UNCHANGED run
       \/ /\ run[r] # "CANCELLED"
          /\ run' = [run EXCEPT ![r] = "RUNNING"]
          /\ prog' \in {[prog EXCEPT ![a] = p] : p \in Programs[r]}
          /\ pc' = [pc EXCEPT ![a] = "call"]
          /\ UNCHANGED <<at, wfVars>>
    /\ UNCHANGED <<consumed, rows, models, approval, events, faults>>

\* emit_event: one more event, also when the attempt is a repetition.
EmitEvent(a) ==
    /\ Calling(a, {"event"})
    /\ events' = [events EXCEPT ![a[1]] = @ \cup {"progress"}]
    /\ Onward(a)
    /\ UNCHANGED <<run, consumed, rows, models, approval, faults>>

\* check_cancelled
CheckCancelled(a) ==
    /\ Calling(a, {"check"})
    /\ IF run[a[1]] = "CANCELLED" THEN Ends(a, "failed") ELSE Onward(a)
    /\ UNCHANGED <<dbVars, faults>>

\* save_checkpoint, create_artifact, call_tool: one row for each name or key; a
\* repetition finds the row and is charged again.
Save(a) ==
    LET r == a[1] IN
    /\ Calling(a, {"checkpoint", "artifact", "tool"})
    /\ \/ /\ Fits(r, Cost(Call(a).do))
          /\ Charge(r, Cost(Call(a).do))
          /\ rows' = [rows EXCEPT ![r] = @ \cup {Call(a)}]
          /\ Onward(a)
          /\ UNCHANGED <<run, models, approval, events>>
       \/ /\ ~Fits(r, Cost(Call(a).do))
          /\ Refused(a)
    /\ UNCHANGED faults

\* call_model: charged before the provider is asked, and for its tokens after it
\* has answered.  A failing provider leaves its row and its charge.
CallModel(a) ==
    LET r == a[1] IN
    /\ Calling(a, {"model"})
    /\ \/ /\ ~Fits(r, Cost("model"))
          /\ Refused(a)
          /\ UNCHANGED faults
       \/ \E n \in Tokens :
             /\ Fits(r, Cost("model"))
             /\ \/ /\ Fits(r, WithTokens(Cost("model"), n))
                   /\ Charge(r, WithTokens(Cost("model"), n))
                   /\ models' = [models EXCEPT ![r] = @ + 1]
                   /\ Onward(a)
                   /\ UNCHANGED <<run, rows, approval, events>>
                \/ /\ ~Fits(r, WithTokens(Cost("model"), n))
                   /\ Refused(a)
             /\ UNCHANGED faults
       \/ /\ Fits(r, Cost("model"))
          /\ Fault
          /\ Charge(r, Cost("model"))
          /\ models' = [models EXCEPT ![r] = @ + 1]
          /\ Retried(a) \/ Ends(a, "failed")
          /\ UNCHANGED <<run, rows, approval, events>>

\* request_approval, first transaction: one request per run.
\* (AsDecided: a variant that takes a request it finds for a decided one.)
RequestApprovalAsDecided(a) ==
    LET r == a[1] IN
    /\ Calling(a, {"approval"})
    /\ approval' = [approval EXCEPT ![r] = IF @ = None THEN "PENDING" ELSE @]
    /\ IF approval[r] = None THEN Goto(a, "announce") ELSE Onward(a)
    /\ UNCHANGED <<run, consumed, rows, models, events, faults>>

RequestApproval(a) ==
    LET r == a[1] IN
    /\ Calling(a, {"approval"})
    /\ \/ /\ run[r] = "CANCELLED"
          /\ Refused(a)
       \/ /\ run[r] # "CANCELLED"
          /\ approval[r] = None
          /\ approval' = [approval EXCEPT ![r] = "PENDING"]
          /\ run' = [run EXCEPT ![r] = "WAITING"]
          /\ Goto(a, "announce")
          /\ UNCHANGED <<consumed, rows, models, events>>
       \/ /\ run[r] # "CANCELLED"
          /\ approval[r] # None
          /\ Goto(a, "polling")
          /\ UNCHANGED dbVars
    /\ UNCHANGED faults

\* request_approval, the event of a request that is new.
Announce(a) ==
    /\ pc[a] = "announce"
    /\ events' = [events EXCEPT ![a[1]] = @ \cup {"approval_requested"}]
    /\ Goto(a, "polling")
    /\ UNCHANGED <<run, consumed, rows, models, approval, faults>>

\* request_approval, the polling loop.  (Unchecked: a variant that does not look
\* for a cancellation.)
PollUnchecked(a) ==
    /\ pc[a] = "polling"
    /\ approval[a[1]] \in Verdicts
    /\ Onward(a)
    /\ UNCHANGED <<dbVars, faults>>

Poll(a) ==
    /\ pc[a] = "polling"
    /\ \/ run[a[1]] = "CANCELLED" /\ Ends(a, "failed")
       \/ run[a[1]] # "CANCELLED" /\ approval[a[1]] \in Verdicts /\ Onward(a)
    /\ UNCHANGED <<dbVars, faults>>

(***************************************************************************)
(* delegate(): the checks, the child's rows, its start and its result are  *)
(* separate transactions.                                                  *)
(***************************************************************************)
Children(r) == {c \in Runs : Parent[c] = r /\ run[c] # "absent"}

\* What the parent has left covers the child's limits.
\* (AnyLimits: a variant without the check.)
AttenuatedAnyLimits(r, c) == TRUE
Attenuated(r, c) ==
    \A x \in Resources : consumed[r][x] + Limits[c][x] <= Limits[r][x]

\* The checks, made again by a repetition, also when the child is there.
AdmitChild(a) ==
    LET r == a[1] IN
    /\ Calling(a, {"delegate"})
    /\ IF /\ run[r] # "CANCELLED"
          /\ Cardinality(Children(r)) < FanOut[r]
          /\ Attenuated(r, Call(a).arg)
       THEN Goto(a, "admitted")
       ELSE Ends(a, "failed")
    /\ UNCHANGED <<dbVars, faults>>

\* create_or_get_managed_agent: the child with its budget, charged to the parent,
\* or the child that is there.  (Uncharged: a variant that forgets the charge.)
CreateChildUncharged(a) ==
    LET c == Call(a).arg IN
    /\ pc[a] = "admitted"
    /\ run' = [run EXCEPT ![c] = IF @ = "absent" THEN "PENDING" ELSE @]
    /\ Goto(a, "starting")
    /\ UNCHANGED <<consumed, rows, models, approval, events, faults>>

CreateChild(a) ==
    LET r == a[1]
        c == Call(a).arg
    IN
    /\ pc[a] = "admitted"
    /\ \/ /\ run[c] = "absent"
          /\ Fits(r, Cost("delegate"))
          /\ Charge(r, Cost("delegate"))
          /\ run' = [run EXCEPT ![c] = "PENDING"]
          /\ Goto(a, "starting")
          /\ UNCHANGED <<rows, models, approval, events>>
       \/ /\ run[c] = "absent"
          /\ ~Fits(r, Cost("delegate"))
          /\ Refused(a)
       \/ /\ run[c] # "absent"
          /\ Goto(a, "starting")
          /\ UNCHANGED dbVars
    /\ UNCHANGED faults

\* WorkflowStartCoordinator.start, as far as it succeeds (see WorkflowStart).
StartChild(a) ==
    LET c == Call(a).arg IN
    /\ pc[a] = "starting"
    /\ pc' = [pc EXCEPT ![a] = "awaiting"]
    /\ wf' = [wf EXCEPT ![c] = IF @ = "absent" THEN "created" ELSE @]
    /\ UNCHANGED <<dbVars, at, prog, attempt, signalled, faults>>

\* handle.result(): only a child that completed returns something.
AwaitChild(a) ==
    LET c == Call(a).arg IN
    /\ pc[a] = "awaiting"
    /\ \/ wf[c] = "completed" /\ Onward(a)
       \/ wf[c] \in {"cancelled", "failed"} /\ Ends(a, "failed")
    /\ UNCHANGED <<dbVars, faults>>

\* The last transaction.  (Unchecked: a variant that does not look for a
\* cancellation.)
FinishUnchecked(a) ==
    /\ pc[a] = "call"
    /\ at[a] \notin DOMAIN prog[a]
    /\ run' = [run EXCEPT ![a[1]] = "SUCCEEDED"]
    /\ Goto(a, "complete")
    /\ UNCHANGED <<consumed, rows, models, approval, events, faults>>

Finish(a) ==
    LET r == a[1] IN
    /\ pc[a] = "call"
    /\ at[a] \notin DOMAIN prog[a]
    /\ \/ /\ run[r] = "CANCELLED"
          /\ Ends(a, "cancelled")
          /\ UNCHANGED run
       \/ /\ run[r] # "CANCELLED"
          /\ run' = [run EXCEPT ![r] = "SUCCEEDED"]
          /\ Goto(a, "complete")
    /\ UNCHANGED <<consumed, rows, models, approval, events, faults>>

\* The event after the last transaction, and the reply.
Complete(a) ==
    /\ pc[a] = "complete"
    /\ events' = [events EXCEPT ![a[1]] = @ \cup {"completed"}]
    /\ Ends(a, "completed")
    /\ UNCHANGED <<run, consumed, rows, models, approval, faults>>

(***************************************************************************)
(* Failures.                                                               *)
(***************************************************************************)
\* The worker dies, the database fails (both retried), or something unexpected
\* happens: a status changed under the transaction, a child could not be started.
Fails(a) ==
    /\ pc[a] \in Active
    /\ Fault
    /\ Retried(a) \/ Ends(a, "failed")
    /\ UNCHANGED dbVars

\* start_to_close_timeout; the attempt goes on.
TimesOut(r) ==
    /\ wf[r] = "executing"
    /\ Fault
    /\ GiveUp(r, pc)
    /\ UNCHANGED dbVars

\* An attempt that was given up notices and stops.
Stops(a) ==
    /\ pc[a] \in Active
    /\ ~Current(a)
    /\ Goto(a, "ended")
    /\ UNCHANGED <<dbVars, faults>>

(***************************************************************************)
(* The workflow and the API.                                               *)
(***************************************************************************)
\* The start hand-off of a run that exists (see WorkflowStart).
StartWorkflow(r) ==
    /\ run[r] # "absent"
    /\ wf[r] = "absent"
    /\ wf' = [wf EXCEPT ![r] = "created"]
    /\ UNCHANGED <<dbVars, attVars, attempt, signalled, faults>>

\* run(): the first workflow task.
RunWorkflow(r) ==
    /\ wf[r] = "created"
    /\ wf' = [wf EXCEPT ![r] = IF signalled[r] THEN "cancelled" ELSE "executing"]
    /\ pc' = [pc EXCEPT ![<<r, 1>>] = IF signalled[r] THEN @ ELSE "begin"]
    /\ UNCHANGED <<dbVars, at, prog, attempt, signalled, faults>>

\* decide_onboarding for a managed run: the request is decided whatever the run's
\* status, and a waiting run is running again.
\* (AsStatus: a variant that gives the run the status of the decision.)
DecideAsStatus(r, verdict) ==
    /\ approval[r] = "PENDING"
    /\ approval' = [approval EXCEPT ![r] = verdict]
    /\ run' = [run EXCEPT ![r] = IF @ = "WAITING" THEN verdict ELSE @]
    /\ UNCHANGED <<consumed, rows, models, events, attVars, wfVars, faults>>

Decide(r, verdict) ==
    /\ approval[r] = "PENDING"
    /\ approval' = [approval EXCEPT ![r] = verdict]
    /\ run' = [run EXCEPT ![r] = IF @ = "WAITING" THEN "RUNNING" ELSE @]
    /\ UNCHANGED <<consumed, rows, models, events, attVars, wfVars, faults>>

\* The runs delegated by r, by those, and so on: the smallest set that has them.
Descendants(r) ==
    {d \in Runs : \A S \in SUBSET Runs :
        (\A p \in S \cup {r} : Children(p) \subseteq S) => d \in S}

\* cancel_onboarding, its transaction: the run, if it has not ended, and what it
\* delegated.
Cancel(r) ==
    /\ run[r] \notin Terminal \cup {"absent"}
    /\ run' = [s \in Runs |->
                  IF s \in {r} \cup Descendants(r) /\ run[s] \notin Terminal
                  THEN "CANCELLED" ELSE run[s]]
    /\ UNCHANGED <<consumed, rows, models, approval, events, attVars, wfVars, faults>>

\* cancel_onboarding, a signal: only a workflow that has not run yet looks at it.
Signal(r) ==
    /\ run[r] = "CANCELLED"
    /\ wf[r] = "created"
    /\ signalled' = [signalled EXCEPT ![r] = TRUE]
    /\ UNCHANGED <<dbVars, attVars, wf, attempt, faults>>

-----------------------------------------------------------------------------
Step(a) ==
    \/ Begin(a) \/ EmitEvent(a) \/ CheckCancelled(a) \/ Save(a) \/ CallModel(a)
    \/ RequestApproval(a) \/ Announce(a) \/ Poll(a)
    \/ AdmitChild(a) \/ CreateChild(a) \/ StartChild(a) \/ AwaitChild(a)
    \/ Finish(a) \/ Complete(a)

Next ==
    \/ \E a \in Attempts : Step(a) \/ Fails(a) \/ Stops(a)
    \/ \E r \in Runs :
          \/ StartWorkflow(r) \/ RunWorkflow(r) \/ TimesOut(r)
          \/ Cancel(r) \/ Signal(r)
          \/ \E verdict \in Verdicts : Decide(r, verdict)

Spec == Init /\ [][Next]_vars

\* A worker goes on with what it runs, the hand-off starts the workflows (see
\* IntentIsSettled of WorkflowStart) and Temporal runs them.  Faults, approvers and
\* operators are not fair.
Fairness ==
    /\ \A a \in Attempts : WF_vars(Step(a) /\ UNCHANGED faults)
    /\ \A r \in Runs : WF_vars(StartWorkflow(r)) /\ WF_vars(RunWorkflow(r))

FairSpec == Spec /\ Fairness

(***************************************************************************)
(* Properties.                                                             *)
(***************************************************************************)
\* No budget is overdrawn, however attempts are repeated and overlap
\* (consume_budget: "fail before a configured limit is exceeded").
BudgetIsRespected ==
    \A r \in Runs, x \in Resources : consumed[r][x] <= Limits[r][x]

\* What a run has left in the database was paid for, by repetitions more than once;
\* model calls, failed ones included, and children are paid for exactly once each
\* (call_tool, save_checkpoint, create_artifact, call_model, delegate: row and
\* charge are one transaction).
EffectsAreCharged ==
    \A r \in Runs :
        LET Of(kinds) == Cardinality({c \in rows[r] : c.do \in kinds}) IN
        /\ consumed[r]["model_calls"] = models[r]
        /\ consumed[r]["child_agents"] = Cardinality(Children(r))
        /\ consumed[r]["tool_calls"] >= Of({"tool"})
        /\ consumed[r]["bytes"] >= Of({"checkpoint", "artifact"})

\* A child's limits are within its parent's, so authority shrinks along every
\* chain of delegations (delegate, "delegated budget exceeds parent or child
\* authority").
ChildIsAttenuated ==
    \A c \in Runs : \A x \in Resources :
        Parent[c] # None /\ run[c] # "absent" => Limits[c][x] <= Limits[Parent[c]][x]

\* No attempt gets past an approval that has not been decided, whichever attempt
\* asked for it (request_approval).
ApprovalGates ==
    \A a \in Attempts :
        (\E i \in DOMAIN prog[a] : i < at[a] /\ prog[a][i].do = "approval")
            => approval[a[1]] \in Verdicts

\* A cancelled run stays cancelled: no attempt, repetition, late completion or
\* decision brings it back (execute, request_approval, decide_onboarding).
CancelledIsFinal ==
    [][\A r \in Runs : run[r] = "CANCELLED" => run'[r] = "CANCELLED"]_vars

\* Nobody waits for ever: a run's workflow closes unless an approval that can still
\* be given is open, in it or in what it delegated.
WorkflowCloses ==
    \A r \in Runs :
        []<>(\/ run[r] = "absent" \/ wf[r] \in Closed
             \/ \E s \in Runs : approval[s] = "PENDING" /\ run[s] \in {"RUNNING", "WAITING"})

\* system-overview.md: a repeated request converges "on the result already
\* committed": a run that succeeded is not taken back by a repetition of `execute'.
SucceededIsFinal ==
    [][\A r \in Runs : run[r] = "SUCCEEDED" => run'[r] = "SUCCEEDED"]_vars
=============================================================================
