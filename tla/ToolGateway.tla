---------------------------- MODULE ToolGateway ----------------------------
(***************************************************************************)
(* Governed tool calls (tool_gateway.py, mcp_adapter.py) by activities     *)
(* that share a connection pool, over the registry their runs' grants come *)
(* from.                                                                   *)
(*                                                                         *)
(* A call runs inside its caller's transaction, which ends with a commit   *)
(* or a rollback after the call has answered.  A refusal is written by an  *)
(* independent recorder: a transaction on a second connection of the same  *)
(* pool, so that it outlives a rollback of the caller's.  The statements   *)
(* of a transaction are steps of their own, and each reads what is         *)
(* committed by then.  A key that is inserted but not committed makes      *)
(* another insert of it wait.                                              *)
(***************************************************************************)
EXTENDS AgentRegistry

CONSTANTS
    Runs,       \* workflow runs
    Keys,       \* idempotency keys
    Names,      \* tool names
    NameOf,     \* the name of each tool
    Handled,    \* the names the gateway has a handler for
    Sensitive,  \* the tools that need an approved decision
    ValidArgs,  \* the arguments the handlers' input models accept
    Calls,      \* callers: the activities a worker runs at a time
    Asks,       \* what they call: [run, key, tool, args, known], where known
                \* says that the agent they name exists
    PoolSize,   \* connections of the worker's pool
    Tries       \* bound: attempts of each caller

ASSUME GatewayAssumption ==
    /\ NameOf \in [Tools -> Names]
    /\ \A a \in Asks :
          /\ a.run \in Runs /\ a.key \in Keys /\ a.tool \in Tools
          /\ a.known \in BOOLEAN
    /\ PoolSize \in Nat \ {0}
    /\ Tries \in [Calls -> Nat]
    /\ None \notin Versions
    /\ None \notin Tools
    /\ None \notin Asks

VARIABLES
    runAgent,   \* workflow_runs.agent_id, None before the run is created
    snapshot,   \* run_tool_grant_snapshots
    approved,   \* has the run an approved decision?
    binding,    \* tool_run_bindings: the tool a run uses for a name, or None
    invocation, \* tool_invocations: the row of each <<run, key>>, or None
    call        \* the callers' transactions

gatewayVars == <<runAgent, snapshot, approved, binding, invocation, call>>
vars == <<registryVars, gatewayVars>>

Statuses == {"SUCCEEDED", "FAILED", "DENIED"}
Categories == {"none", "running", "unregistered_tool", "policy_denied", "approval_required",
               "handler_unavailable", "invalid_arguments", "version_mismatch",
               "execution_failed"}
Rows == [status : Statuses, category : Categories, tool : Tools, args : {a.args : a \in Asks}]

ASSUME RowAssumption == None \notin Rows

Row(c, status, category) ==
    [status |-> status, category |-> category,
     tool |-> call[c].ask.tool, args |-> call[c].ask.args]
Refusal(c, row, answer) == [row |-> row, answer |-> answer]

Answers == {"none", "ok", "denied", "approval_required", "unavailable", "conflict",
            "invalid", "mismatch", "error", "broken"}
CallSteps == {"idle", "resolve", "lookup", "authorise", "pin", "insert", "handle",
              "record", "write", "done"}

\* enabled: what tool_definitions said when it was read.  pinned, row: inserted
\* by the caller's transaction, not committed.  refusal: for the recorder.
NewCall(step, ask, tries) ==
    [step |-> step, ask |-> ask, tries |-> tries, enabled |-> FALSE, pinned |-> FALSE,
     row |-> None, refusal |-> None, answer |-> "none"]

Init ==
    /\ RegistryInit
    /\ runAgent = [r \in Runs |-> None]
    /\ snapshot = [r \in Runs |-> {}]
    /\ approved = [r \in Runs |-> FALSE]
    /\ binding = [r \in Runs |-> [n \in Names |-> None]]
    /\ invocation = [r \in Runs |-> [k \in Keys |-> None]]
    /\ call = [c \in Calls |-> NewCall("idle", None, 0)]

-----------------------------------------------------------------------------
RunOf(c)  == call[c].ask.run
KeyOf(c)  == call[c].ask.key
ToolOf(c) == call[c].ask.tool
Existing(c) == invocation[RunOf(c)][KeyOf(c)]
Bound(c) == binding[RunOf(c)][NameOf[ToolOf(c)]]

Open(c) == call[c].step # "idle"

\* A caller holds one connection, and a second one while its refusal is written.
InUse == Cardinality({c \in Calls : Open(c)})
         + Cardinality({c \in Calls : call[c].step = "write"})
Exhausted == InUse >= PoolSize

SameSlot(c, d) == RunOf(c) = RunOf(d) /\ KeyOf(c) = KeyOf(d)
SameName(c, d) == RunOf(c) = RunOf(d) /\ NameOf[ToolOf(c)] = NameOf[ToolOf(d)]

\* Another transaction has inserted the key and is not over.
SlotIsHeld(c) == \E d \in Calls \ {c} : call[d].row # None /\ SameSlot(c, d)
NameIsHeld(c) == \E d \in Calls \ {c} : call[d].pinned /\ SameName(c, d)

At(c, step) == call[c].step = step
Moves(c, step) == call' = [call EXCEPT ![c].step = step]
Answer(c, answer) == call' = [call EXCEPT ![c].step = "done", ![c].answer = answer]
Record(c, status, category, answer) ==
    call' = [call EXCEPT ![c].step = "record",
                         ![c].refusal = Refusal(c, Row(c, status, category), answer)]
CallOnly == UNCHANGED <<registryVars, runAgent, snapshot, approved, binding, invocation>>

\* create_or_get and its like for refunds and managed agents, for an agent that
\* is registered: the run keeps a copy of the grants its agent has by then.
CreateRun(r, v) ==
    /\ runAgent[r] = None
    /\ agent[v] # None
    /\ runAgent' = [runAgent EXCEPT ![r] = v]
    /\ snapshot' = [snapshot EXCEPT ![r] = grants[v]]
    /\ UNCHANGED <<registryVars, approved, binding, invocation, call>>

\* An approver's decision is committed, by another transaction.
Approve(r) ==
    /\ runAgent[r] # None
    /\ approved' = [approved EXCEPT ![r] = TRUE]
    /\ UNCHANGED <<registryVars, runAgent, snapshot, binding, invocation, call>>

Begin(c, ask) ==
    /\ At(c, "idle")
    /\ call[c].tries < Tries[c]
    /\ runAgent[ask.run] # None
    /\ ~Exhausted
    /\ call' = [call EXCEPT ![c] = NewCall("resolve", ask, @.tries + 1)]
    /\ CallOnly

\* The tool's row is read once: what it says of `enabled` is used later.
Resolve(c) ==
    /\ At(c, "resolve")
    /\ \/ ToolOf(c) \notin Defined
          /\ Record(c, "DENIED", "unregistered_tool", "unavailable")
       \/ ToolOf(c) \in Defined
          /\ call' = [call EXCEPT ![c].step = "lookup",
                                  ![c].enabled = ToolOf(c) \in enabled]
    /\ CallOnly

\* record_injected_failure: the adapter fails before the gateway is called.
InjectFailure(c) ==
    /\ At(c, "resolve")
    /\ ToolOf(c) \in Defined
    /\ \/ Existing(c) # None /\ Answer(c, "unavailable")
       \/ Existing(c) = None /\ Record(c, "FAILED", "execution_failed", "unavailable")
    /\ CallOnly

\* A row that is there decides: nothing is executed under its key again.
LookupInvocation(c) ==
    LET row == Existing(c)
    IN  /\ At(c, "lookup")
        /\ \/ row = None /\ Moves(c, "authorise")
           \/ row # None /\ row.args # call[c].ask.args /\ Answer(c, "conflict")
           \/ /\ row # None
              /\ row.args = call[c].ask.args
              /\ \/ row.status = "SUCCEEDED" /\ Answer(c, "ok")
                 \/ row.status = "DENIED" /\ Answer(c, "denied")
                 \/ row.status = "FAILED" /\ Answer(c, "unavailable")
        /\ CallOnly

Permitted(c) ==
    /\ call[c].ask.known
    /\ call[c].enabled
    /\ ToolOf(c) \in snapshot[RunOf(c)]

\* (Unapproved: a variant that does not ask for the decision.)
AuthorisedUnapproved(c) == Permitted(c)

Authorised(c) ==
    /\ Permitted(c)
    /\ ToolOf(c) \in Sensitive => approved[RunOf(c)]

\* The gateway's registry of handlers, and their input models.
HasHandler(c) == NameOf[ToolOf(c)] \in Handled
Validates(c)  == call[c].ask.args \in ValidArgs

Authorise(c) ==
    /\ At(c, "authorise")
    /\ \/ ~Permitted(c) /\ Record(c, "DENIED", "policy_denied", "denied")
       \/ /\ Permitted(c)
          /\ ~Authorised(c)
          /\ Record(c, "DENIED", "approval_required", "approval_required")
       \/ /\ Authorised(c)
          /\ \/ ~HasHandler(c) /\ Record(c, "FAILED", "handler_unavailable", "unavailable")
             \/ /\ HasHandler(c) /\ ~Validates(c)
                /\ Record(c, "FAILED", "invalid_arguments", "invalid")
             \/ HasHandler(c) /\ Validates(c) /\ Moves(c, "pin")
    /\ CallOnly

\* _pin_tool_version: insert unless the name is bound, then read the binding.
Pin(c) ==
    /\ At(c, "pin")
    /\ ~NameIsHeld(c)
    /\ \/ /\ Bound(c) \in {None, ToolOf(c)}
          /\ call' = [call EXCEPT ![c].step = "insert", ![c].pinned = Bound(c) = None]
       \/ /\ Bound(c) \notin {None, ToolOf(c)}
          /\ Record(c, "FAILED", "version_mismatch", "mismatch")
    /\ CallOnly

\* uq_tool_invocation_key: the row of another transaction that has committed
\* since the lookup breaks this one.  (Over: a variant without the key.)
InsertInvocationOver(c) ==
    /\ At(c, "insert")
    /\ call' = [call EXCEPT ![c].step = "handle", ![c].row = Row(c, "FAILED", "running")]
    /\ CallOnly

InsertInvocation(c) ==
    /\ At(c, "insert")
    /\ ~SlotIsHeld(c)
    /\ \/ /\ Existing(c) = None
          /\ call' = [call EXCEPT ![c].step = "handle",
                                  ![c].row = Row(c, "FAILED", "running")]
       \/ Existing(c) # None /\ Answer(c, "broken")
    /\ CallOnly

\* The handler, in the caller's transaction, under the tool's time limit.
Handle(c) ==
    /\ At(c, "handle")
    /\ \/ call' = [call EXCEPT ![c].step = "done", ![c].answer = "ok",
                               ![c].row = Row(c, "SUCCEEDED", "none")]
       \/ call' = [call EXCEPT ![c].step = "done", ![c].answer = "unavailable",
                               ![c].row = Row(c, "FAILED", "execution_failed")]
    /\ CallOnly

-----------------------------------------------------------------------------
(***************************************************************************)
(* The independent recorder.                                               *)
(***************************************************************************)
\* (InCaller: a variant without a recorder, which writes in the caller's
\* transaction.)
SelectRecordInCaller(c) ==
    /\ At(c, "record")
    /\ call' = [call EXCEPT ![c].step = "done",
                            ![c].answer = call[c].refusal.answer,
                            ![c].row = IF Existing(c) = None THEN call[c].refusal.row ELSE None]
    /\ CallOnly

\* The second connection, and the recorder's own look at the key.
SelectRecord(c) ==
    /\ At(c, "record")
    /\ ~Exhausted
    /\ \/ Existing(c) # None /\ Answer(c, call[c].refusal.answer)
       \/ Existing(c) = None /\ Moves(c, "write")
    /\ CallOnly

\* The pool gives up after its time limit.  (Never: a variant that waits.)
PoolTimeoutNever(c) == FALSE

PoolTimeout(c) ==
    /\ At(c, "record")
    /\ Exhausted
    /\ Answer(c, "error")
    /\ CallOnly

WriteRecord(c) ==
    /\ At(c, "write")
    /\ ~SlotIsHeld(c)
    /\ \/ /\ Existing(c) = None
          /\ invocation' = [invocation EXCEPT ![RunOf(c)][KeyOf(c)] = call[c].refusal.row]
          /\ Answer(c, call[c].refusal.answer)
       \/ /\ Existing(c) # None
          /\ Answer(c, "error")
          /\ UNCHANGED invocation
    /\ UNCHANGED <<registryVars, runAgent, snapshot, approved, binding>>

-----------------------------------------------------------------------------
\* The caller ends its transaction, whatever the call answered; one that an
\* error of the database broke can only roll back.  (Unpinned: a variant whose
\* binding is not part of the transaction and gets lost.)
CommitUnpinned(c) ==
    /\ At(c, "done")
    /\ call[c].answer # "broken"
    /\ invocation' = IF call[c].row # None
                     THEN [invocation EXCEPT ![RunOf(c)][KeyOf(c)] = call[c].row]
                     ELSE invocation
    /\ call' = [call EXCEPT ![c] = NewCall("idle", None, @.tries)]
    /\ UNCHANGED <<registryVars, runAgent, snapshot, approved, binding>>

Commit(c) ==
    /\ At(c, "done")
    /\ call[c].answer # "broken"
    /\ binding' = IF call[c].pinned
                  THEN [binding EXCEPT ![RunOf(c)][NameOf[ToolOf(c)]] = ToolOf(c)]
                  ELSE binding
    /\ invocation' = IF call[c].row # None
                     THEN [invocation EXCEPT ![RunOf(c)][KeyOf(c)] = call[c].row]
                     ELSE invocation
    /\ call' = [call EXCEPT ![c] = NewCall("idle", None, @.tries)]
    /\ UNCHANGED <<registryVars, runAgent, snapshot, approved>>

Rollback(c) ==
    /\ At(c, "done")
    /\ call' = [call EXCEPT ![c] = NewCall("idle", None, @.tries)]
    /\ CallOnly

\* The worker dies at any moment: both transactions are gone.
Crash(c) ==
    /\ Open(c)
    /\ ~At(c, "done")
    /\ call' = [call EXCEPT ![c] = NewCall("idle", None, @.tries)]
    /\ CallOnly

CallStep(c) ==
    \/ Resolve(c) \/ LookupInvocation(c) \/ Authorise(c) \/ Pin(c)
    \/ InsertInvocation(c) \/ Handle(c)
    \/ SelectRecord(c) \/ PoolTimeout(c) \/ WriteRecord(c)
    \/ Commit(c) \/ Rollback(c)

Next ==
    \/ RegistryNext /\ UNCHANGED gatewayVars
    \/ \E r \in Runs, v \in Versions : CreateRun(r, v)
    \/ \E r \in Runs : Approve(r)
    \/ \E c \in Calls : CallStep(c) \/ InjectFailure(c) \/ Crash(c)
    \/ \E c \in Calls, ask \in Asks : Begin(c, ask)

\* Activities and their database make progress; nobody has to call, to fail,
\* to register or to approve.
Spec == Init /\ [][Next]_vars /\ \A c \in Calls : WF_vars(CallStep(c))

-----------------------------------------------------------------------------
Succeeded(r, k) == invocation[r][k] # None /\ invocation[r][k].status = "SUCCEEDED"

\* What has been executed was defined, granted to the run when it was created,
\* approved if it needs approval, valid, and of the version the run is bound to,
\* whichever calls raced for the key, the name or the approval (invoke).
EffectIsAuthorised ==
    \A r \in Runs, k \in Keys : Succeeded(r, k) =>
        LET row == invocation[r][k]
        IN  /\ row.tool \in Defined \cap snapshot[r]
            /\ row.tool \in Sensitive => approved[r]
            /\ row.args \in ValidArgs
            /\ binding[r][NameOf[row.tool]] = row.tool

Refusals == {"denied", "approval_required", "invalid", "mismatch"}

\* A caller that is told of a refusal finds a record under the call's key, before
\* it decides what becomes of its own transaction: the refusal, or what another
\* attempt of the key has left, and then the refusal itself is not written
\* (_record_terminal_attempt).
RefusalIsRecorded ==
    \A c \in Calls : At(c, "done") /\ call[c].answer \in Refusals => Existing(c) # None

\* The record of a key never changes: a success is not executed again, and a
\* refusal stays one, even when what it lacked is granted later (invoke).
RowIsFinal ==
    [][\A r \in Runs, k \in Keys :
          invocation[r][k] # None => invocation'[r][k] = invocation[r][k]]_vars

\* The calls as GovernedCall describes them.
Governed == INSTANCE GovernedCall WITH
    started <- {r \in Runs : runAgent[r] # None}

\* Transactions that read, pin, insert and record in steps of their own, in any
\* order and with crashes, add up to calls that are attempted or refused in one
\* step: none is attempted on what its run had not by then (invoke).
ImplementsCall == Governed!Spec

\* Every call ends, although a refused caller waits for a second connection of
\* the pool that it keeps one of (_record_terminal_attempt, create_resources).
CallsEnd == \A c \in Calls : Open(c) ~> ~Open(c)
=============================================================================
