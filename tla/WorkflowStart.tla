---------------------------- MODULE WorkflowStart ---------------------------
(***************************************************************************)
(* The durable hand-off of a run from PostgreSQL to Temporal               *)
(* (workflow_starts.py).  A caller first commits an intent, then claims a  *)
(* lease on its start attempt, calls Temporal outside any transaction and  *)
(* finally records the outcome, which only the holder of the latest token  *)
(* may do.  API requests and the operator's recovery command run this      *)
(* protocol concurrently, may die between any two steps, and may be so     *)
(* slow that their lease expires while their request is still on its way.  *)
(*                                                                         *)
(* Every database transaction is one step: the attempt row is read FOR     *)
(* UPDATE and written in the same transaction.  A token (uuid4) is         *)
(* identified with the ordinal of the claim that drew it, so the attempt   *)
(* row's counter `attempts' is also its current token.  Time appears only  *)
(* as the expiry of a lease.                                               *)
(***************************************************************************)
EXTENDS Naturals, FiniteSets

CONSTANTS
    Keys,          \* (principal, idempotency key) pairs: one run each
    Requests,      \* request fingerprints
    Callers,       \* API requests in progress
    Recoverers,    \* recovery commands in progress
    RecoverLimit,  \* recover(limit=...)
    MaxFaults,     \* bound: crashes, lost messages, faults, overrun leases
    None

ASSUME ConstantsAssumption ==
    /\ Callers \cap Recoverers = {}
    /\ RecoverLimit \in Nat
    /\ MaxFaults \in Nat
    /\ None \notin Requests
    /\ None \notin Keys
    /\ IsFiniteSet(Keys)

VARIABLES
    \* PostgreSQL
    intent,     \* request fingerprint of the key's workflow_runs row, or None
    created,    \* workflow_start_attempts.created_at, 0 before the row exists
    status,     \* workflow_start_attempts.status
    attempts,   \* workflow_start_attempts.attempts, and its attempt_token
    lease,      \* workflow_start_attempts.lease_expires_at against the clock
    \* API requests and recovery commands
    pc,         \* where a process is in start()
    target,     \* the key it is starting
    token,      \* the token of its claim
    todo,       \* recover(): run ids still to be started
    scanned,    \* recover(): run ids the query returned
    unavailable,\* recover(): did some start raise WorkflowStartUnavailable?
    exit,       \* exit status of the last finished recovery command
    \* Temporal
    wire,       \* start requests on their way, as <<key, token>>
    executions, \* tokens whose request created an execution of the workflow id
    open,       \* is an execution of the workflow id running?
    faults      \* faults so far

dbVars       == <<intent, created, status, attempts, lease>>
recoverVars  == <<todo, scanned, unavailable, exit>>
procVars     == <<pc, target, token, recoverVars>>
temporalVars == <<wire, executions, open>>
vars         == <<dbVars, procVars, temporalVars, faults>>

Procs == Callers \cup Recoverers

StartStatus == {"PENDING", "STARTED", "FAILED"}

TypeOK ==
    /\ intent \in [Keys -> Requests \cup {None}]
    /\ created \in [Keys -> Nat]
    /\ status \in [Keys -> StartStatus]
    /\ attempts \in [Keys -> Nat]
    /\ lease \in [Keys -> {"none", "live", "expired"}]
    /\ pc \in [Procs -> {"idle", "claim", "call", "calling",
                         "accepted", "already", "error"}]
    /\ target \in [Procs -> Keys \cup {None}]
    /\ token \in [Procs -> Nat]
    /\ todo \in [Recoverers -> SUBSET Keys]
    /\ scanned \in [Recoverers -> SUBSET Keys]
    /\ unavailable \in [Recoverers -> BOOLEAN]
    /\ exit \in [Recoverers -> {"none", "zero", "nonzero"}]
    /\ wire \subseteq Keys \X Nat
    /\ executions \in [Keys -> SUBSET Nat]
    /\ open \in [Keys -> BOOLEAN]
    /\ faults \in Nat

Init ==
    /\ intent = [k \in Keys |-> None]
    /\ created = [k \in Keys |-> 0]
    /\ status = [k \in Keys |-> "PENDING"]
    /\ attempts = [k \in Keys |-> 0]
    /\ lease = [k \in Keys |-> "none"]
    /\ pc = [p \in Procs |-> "idle"]
    /\ target = [p \in Procs |-> None]
    /\ token = [p \in Procs |-> 0]
    /\ todo = [o \in Recoverers |-> {}]
    /\ scanned = [o \in Recoverers |-> {}]
    /\ unavailable = [o \in Recoverers |-> FALSE]
    /\ exit = [o \in Recoverers |-> "none"]
    /\ wire = {}
    /\ executions = [k \in Keys |-> {}]
    /\ open = [k \in Keys |-> FALSE]
    /\ faults = 0

(***************************************************************************)
(* Control of a process.                                                   *)
(***************************************************************************)
\* A fault happens: at most MaxFaults in a behaviour.
Fault ==
    /\ faults < MaxFaults
    /\ faults' = faults + 1

\* Process p enters start(k).
Enter(p, k) ==
    /\ pc' = [pc EXCEPT ![p] = "claim"]
    /\ target' = [target EXCEPT ![p] = k]
    /\ token' = [token EXCEPT ![p] = 0]

\* Process p leaves start() for good: it answers, exits or dies.
Leave(p) ==
    /\ pc' = [pc EXCEPT ![p] = "idle"]
    /\ target' = [target EXCEPT ![p] = None]
    /\ token' = [token EXCEPT ![p] = 0]

\* The oldest of a set of runs.
Oldest(S) == {k \in S : \A j \in S : created[k] <= created[j]}

\* The loop of recover(): start the oldest run of S next, or exit.
NextOf(o, S) ==
    \/ \E k \in Oldest(S) :
          /\ Enter(o, k)
          /\ todo' = [todo EXCEPT ![o] = S \ {k}]
          /\ exit' = [exit EXCEPT ![o] = "none"]
    \/ /\ S = {}
       /\ Leave(o)
       /\ todo' = [todo EXCEPT ![o] = {}]
       /\ exit' = [exit EXCEPT ![o] = IF unavailable'[o] THEN "nonzero" ELSE "zero"]

\* start() returned (raised = FALSE) or raised WorkflowStartUnavailable: an API
\* request answers, recover() counts the error and goes on.
Return(p, raised) ==
    \/ /\ p \in Callers
       /\ Leave(p)
       /\ UNCHANGED recoverVars
    \/ /\ p \in Recoverers
       /\ unavailable' = [unavailable EXCEPT ![p] = @ \/ raised]
       /\ NextOf(p, todo[p])
       /\ UNCHANGED scanned

(***************************************************************************)
(* Entry points.                                                           *)
(***************************************************************************)
\* The keys that have a run.
Persisted == {k \in Keys : intent[k] # None}

\* create_or_get: insert the run and its start attempt in one transaction, or
\* find the run of the same principal and key.  A different fingerprint under
\* the same key is refused; otherwise the request goes on to start().
Request(c, k, f) ==
    /\ pc[c] = "idle"
    /\ intent[k] \in {None, f}
    /\ intent' = [intent EXCEPT ![k] = f]
    /\ created' = [created EXCEPT ![k] =
                      IF intent[k] = None THEN Cardinality(Persisted) + 1 ELSE @]
    /\ Enter(c, k)
    /\ UNCHANGED <<status, attempts, lease, recoverVars, temporalVars, faults>>

\* The runs that recover() looks for.
\* (FailedOnly: a variant that misses an attempt whose caller died.)
FailedOnly == {k \in Persisted : status[k] = "FAILED"}
Unsettled == {k \in Persisted : status[k] # "STARTED"}

\* The runs recover() selects: unsettled ones, oldest first, up to the limit.
Selected ==
    {k \in Unsettled :
        Cardinality({j \in Unsettled : created[j] < created[k]}) < RecoverLimit}

\* recover(): one query, in a transaction of its own, fixes the work list.
Scan(o) ==
    /\ pc[o] = "idle"
    /\ scanned' = [scanned EXCEPT ![o] = Selected]
    /\ unavailable' = [unavailable EXCEPT ![o] = FALSE]
    /\ NextOf(o, Selected)
    /\ UNCHANGED <<dbVars, temporalVars, faults>>

(***************************************************************************)
(* start(): claim, call, record.                                           *)
(***************************************************************************)
\* _claim_start, when it returns no token: the start is settled, or somebody
\* else's lease is running.
Skip(p) ==
    /\ pc[p] = "claim"
    /\ \/ status[target[p]] = "STARTED"
       \/ lease[target[p]] = "live"
    /\ Return(p, FALSE)
    /\ UNCHANGED <<dbVars, temporalVars, faults>>

\* _claim_start, when it returns a token: a new lease, and PENDING again.
\* (Variants: WithoutLease takes none, SameToken draws no new token, Settled does
\* not look whether the start is done.)
Claimed(p, newLease, newToken) ==
    LET k == target[p] IN
    /\ lease[k] # "live"
    /\ status' = [status EXCEPT ![k] = "PENDING"]
    /\ attempts' = [attempts EXCEPT ![k] = newToken]
    /\ lease' = [lease EXCEPT ![k] = newLease]
    /\ token' = [token EXCEPT ![p] = newToken]
    /\ pc' = [pc EXCEPT ![p] = "call"]
    /\ UNCHANGED <<intent, created, target, recoverVars, temporalVars, faults>>

ClaimWithoutLease(p) ==
    /\ pc[p] = "claim"
    /\ status[target[p]] # "STARTED"
    /\ Claimed(p, "none", attempts[target[p]] + 1)

ClaimSameToken(p) ==
    /\ pc[p] = "claim"
    /\ status[target[p]] # "STARTED"
    /\ Claimed(p, "live", 1)

ClaimSettled(p) ==
    /\ pc[p] = "claim"
    /\ Claimed(p, "live", attempts[target[p]] + 1)

Claim(p) ==
    /\ pc[p] = "claim"
    /\ status[target[p]] # "STARTED"
    /\ Claimed(p, "live", attempts[target[p]] + 1)

\* start() sends start_workflow with the run's fixed workflow id.
\* (CallAgain: a variant that repeats the call under the same claim.)
CallAgain(p) ==
    /\ pc[p] = "call"
    /\ wire' = wire \cup {<<target[p], token[p]>>}
    /\ pc' \in {pc, [pc EXCEPT ![p] = "calling"]}
    /\ UNCHANGED <<dbVars, target, token, recoverVars, executions, open, faults>>

Call(p) ==
    /\ pc[p] = "call"
    /\ wire' = wire \cup {<<target[p], token[p]>>}
    /\ pc' = [pc EXCEPT ![p] = "calling"]
    /\ UNCHANGED <<dbVars, target, token, recoverVars, executions, open, faults>>

\* The injected fault WORKFLOW_START_HANDOFF: Temporal has accepted, but the
\* caller leaves its try block with an error.
HandoffFault(p) ==
    /\ pc[p] = "accepted"
    /\ Fault
    /\ pc' = [pc EXCEPT ![p] = "error"]
    /\ UNCHANGED <<dbVars, target, token, recoverVars, temporalVars>>

\* Only the holder of the current token changes the row; its lease ends.
\* (Unfenced: a variant without the check.)
SettleUnfenced(p, result) ==
    /\ status' = [status EXCEPT ![target[p]] = result]
    /\ lease' = [lease EXCEPT ![target[p]] = "none"]

Settle(p, result) ==
    IF token[p] = attempts[target[p]]
    THEN /\ status' = [status EXCEPT ![target[p]] = result]
         /\ lease' = [lease EXCEPT ![target[p]] = "none"]
    ELSE UNCHANGED <<status, lease>>

\* _mark_started, after an acceptance or WorkflowAlreadyStartedError.
\* (Anyway: a variant that takes any answer for an acceptance.)
MarkStartedAnyway(p) ==
    /\ pc[p] \in {"accepted", "already", "error"}
    /\ Settle(p, "STARTED")
    /\ Return(p, FALSE)
    /\ UNCHANGED <<intent, created, attempts, temporalVars, faults>>

MarkStarted(p) ==
    /\ pc[p] \in {"accepted", "already"}
    /\ Settle(p, "STARTED")
    /\ Return(p, FALSE)
    /\ UNCHANGED <<intent, created, attempts, temporalVars, faults>>

\* _mark_failed, then WorkflowStartUnavailable is raised.
\* (AsCategory: a variant that stores the error category as the status.)
MarkFailedAsCategory(p) ==
    /\ pc[p] = "error"
    /\ Settle(p, "UNAVAILABLE")
    /\ Return(p, TRUE)
    /\ UNCHANGED <<intent, created, attempts, temporalVars, faults>>

MarkFailed(p) ==
    /\ pc[p] = "error"
    /\ Settle(p, "FAILED")
    /\ Return(p, TRUE)
    /\ UNCHANGED <<intent, created, attempts, temporalVars, faults>>

(***************************************************************************)
(* Time and failures.                                                      *)
(***************************************************************************)
\* Some process may still act on its claim of k under the current token.
Held(k) == \E p \in Procs : target[p] = k /\ token[p] # 0 /\ token[p] = attempts[k]

\* START_LEASE passes.  It is a fault when the holder is still at work.
LeaseExpires(k) ==
    /\ lease[k] = "live"
    /\ lease' = [lease EXCEPT ![k] = "expired"]
    /\ IF Held(k) THEN Fault ELSE UNCHANGED faults
    /\ UNCHANGED <<intent, created, status, attempts, procVars, temporalVars>>

\* The process dies, or an unexpected error (a failed transaction of its own
\* included) ends its request or command.
Crash(p) ==
    /\ pc[p] # "idle"
    /\ Fault
    /\ Leave(p)
    /\ IF p \in Recoverers
       THEN /\ todo' = [todo EXCEPT ![p] = {}]
            /\ exit' = [exit EXCEPT ![p] = "nonzero"]
            /\ UNCHANGED <<scanned, unavailable>>
       ELSE UNCHANGED recoverVars
    /\ UNCHANGED <<dbVars, temporalVars>>

(***************************************************************************)
(* Temporal (external).  start_workflow is called with the SDK's default   *)
(* id-reuse policy: a workflow id is refused only while an execution with  *)
(* that id is running.                                                     *)
(***************************************************************************)
\* The caller waiting for the answer to request m.
Waiting(p, m) == pc[p] = "calling" /\ target[p] = m[1] /\ token[p] = m[2]

\* The request m reaches Temporal; its answer reaches the caller if that is
\* still waiting, unless the answer is lost.
Serve(m, lost) ==
    LET answer == IF open[m[1]] THEN "already" ELSE "accepted" IN
    /\ m \in wire
    /\ wire' = wire \ {m}
    /\ open' = [open EXCEPT ![m[1]] = TRUE]
    /\ executions' = [executions EXCEPT ![m[1]] =
                         IF open[m[1]] THEN @ ELSE @ \cup {m[2]}]
    /\ IF lost
       THEN Fault /\ UNCHANGED pc
       ELSE /\ pc' = [p \in Procs |-> IF Waiting(p, m) THEN answer ELSE pc[p]]
            /\ UNCHANGED faults
    /\ UNCHANGED <<dbVars, target, token, recoverVars>>

\* The request m is lost.
Lose(m) ==
    /\ m \in wire
    /\ Fault
    /\ wire' = wire \ {m}
    /\ UNCHANGED <<dbVars, procVars, executions, open>>

\* The call fails in the caller: no answer comes any more, or the request is
\* only slow (a fault) and may still be served later.
CallFails(p) ==
    /\ pc[p] = "calling"
    /\ IF <<target[p], token[p]>> \in wire THEN Fault ELSE UNCHANGED faults
    /\ pc' = [pc EXCEPT ![p] = "error"]
    /\ UNCHANGED <<dbVars, target, token, recoverVars, temporalVars>>

\* The running execution of k's workflow id closes.
Close(k) ==
    /\ open[k]
    /\ open' = [open EXCEPT ![k] = FALSE]
    /\ UNCHANGED <<dbVars, procVars, wire, executions, faults>>

-----------------------------------------------------------------------------
\* The steps start() takes by itself once it is entered.
Step(p) ==
    Skip(p) \/ Claim(p) \/ Call(p) \/ MarkStarted(p) \/ MarkFailed(p)

Next ==
    \/ \E c \in Callers, k \in Keys, f \in Requests : Request(c, k, f)
    \/ \E o \in Recoverers : Scan(o)
    \/ \E p \in Procs : Step(p) \/ HandoffFault(p) \/ CallFails(p) \/ Crash(p)
    \/ \E m \in wire : Lose(m) \/ (\E lost \in BOOLEAN : Serve(m, lost))
    \/ \E k \in Keys : LeaseExpires(k) \/ Close(k)

Spec == Init /\ [][Next]_vars

\* A process that has not crashed goes on, a call without an answer times out,
\* a lease runs out, Temporal serves the requests that reach it, and the
\* operator runs the recovery command again and again.
Fairness ==
    /\ \A p \in Procs :
          /\ WF_vars(Step(p))
          /\ WF_vars(CallFails(p) /\ faults' = faults)
    /\ \A o \in Recoverers : WF_vars(Scan(o))
    /\ \A k \in Keys : WF_vars(LeaseExpires(k) /\ faults' = faults)
    /\ WF_vars(\E m \in wire : Serve(m, FALSE))

FairSpec == Spec /\ Fairness

(***************************************************************************)
(* Properties.                                                             *)
(***************************************************************************)
\* A start is recorded as done only after Temporal accepted an execution for
\* it: neither a stale caller nor a misread answer settles a run that exists
\* in PostgreSQL only (start, _mark_started).
StartedMeansAccepted ==
    \A k \in Keys : status[k] = "STARTED" => executions[k] # {}

\* The token fences results: once the row says STARTED or FAILED, or its lease
\* has been released, no process is left that could still record a different
\* result for the same claim (_mark_started, _mark_failed).
ResultIsFenced ==
    \A k \in Keys : lease[k] = "none" => ~Held(k)

\* Two processes never work under the same claim of a run, however leases
\* expire and are taken over (_claim_start).
ClaimIsExclusive ==
    \A p, q \in Procs :
        p # q /\ target[p] = target[q] /\ token[p] # 0 => token[p] # token[q]

\* Each claim creates at most one execution, and none is created without one:
\* requests on their way and executions belong to distinct claims of the run.
OneExecutionPerClaim ==
    \A k \in Keys :
        /\ executions[k] \subseteq 1 .. attempts[k]
        /\ \A m \in wire : m[1] = k => m[2] \in (1 .. attempts[k]) \ executions[k]

\* A settled start is never reopened, not even by a caller whose lease ran out
\* and who comes back with an error (_claim_start, _mark_failed).
StartedIsFinal ==
    [][\A k \in Keys : status[k] = "STARTED" => status'[k] = "STARTED"]_vars

\* The stage of a key as StartHandoff describes it.
Stage(k) ==
    IF status[k] = "STARTED" THEN "started"
    ELSE IF executions[k] # {} THEN "accepted"
    ELSE IF intent[k] # None THEN "intended"
    ELSE "absent"

Handoff == INSTANCE StartHandoff WITH stage <- [k \in Keys |-> Stage(k)]

\* The lease-and-token protocol implements the three-stage hand-off: no stage
\* is skipped or undone.
ImplementsHandoff == Handoff!Spec

\* Every persisted intent is eventually settled if the operator keeps running
\* the recovery command, whatever (boundedly many) faults happen before.
IntentIsSettled ==
    \A k \in Keys : intent[k] # None ~> status[k] = "STARTED"

\* ADR 0012: "retries cannot create a second Temporal workflow execution because
\* every attempt uses the same workflow ID".
AtMostOneExecution ==
    \A k \in Keys : Cardinality(executions[k]) <= 1
=============================================================================
