------------------------- MODULE ManagedAgentProofs -------------------------
(***************************************************************************)
(* Proofs about ManagedAgent, for any tree of delegations, any programs,   *)
(* limits and token counts, and any number of attempts and faults.         *)
(***************************************************************************)
EXTENDS ManagedAgent, FiniteSetTheorems, TLAPS

DbTypeOK ==
    /\ run \in [Runs -> {"absent", "PENDING", "RUNNING", "WAITING"} \cup Terminal]
    /\ consumed \in [Runs -> [Resources -> Nat]]
    /\ rows \in [Runs -> SUBSET Calls]
    /\ models \in [Runs -> Nat]
    /\ approval \in [Runs -> {None, "PENDING"} \cup Verdicts]
    /\ events \in [Runs -> SUBSET {"progress", "approval_requested", "completed"}]

Places == Active \cup {"none", "ended"}

ControlTypeOK ==
    /\ pc \in [Attempts -> Places]
    /\ at \in [Attempts -> Nat \ {0}]
    /\ prog \in [Attempts -> Seq(Calls)]
    /\ wf \in [Runs -> {"absent", "created", "executing"} \cup Closed]
    /\ attempt \in [Runs -> 1 .. MaxAttempts]
    /\ signalled \in [Runs -> BOOLEAN]

LEMMA TypeParts == TypeOK <=> DbTypeOK /\ ControlTypeOK /\ faults \in Nat
BY DEF TypeOK, DbTypeOK, ControlTypeOK, Places

LEMMA TypePartsPrime == TypeOK' <=> DbTypeOK' /\ ControlTypeOK' /\ faults' \in Nat
BY DEF TypeOK, DbTypeOK, ControlTypeOK, Places

-----------------------------------------------------------------------------
(***************************************************************************)
(* The helpers of the handlers.                                            *)
(***************************************************************************)
LEMMA AttemptsOf ==
    ASSUME NEW a \in Attempts
    PROVE  a[1] \in Runs /\ a[2] \in 1 .. MaxAttempts /\ a = <<a[1], a[2]>>
BY DEF Attempts

LEMMA GotoType ==
    ASSUME ControlTypeOK, NEW a \in Attempts, NEW where \in Places, Goto(a, where)
    PROVE  ControlTypeOK'
BY DEF ControlTypeOK, Goto, wfVars

LEMMA OnwardType ==
    ASSUME ControlTypeOK, NEW a \in Attempts, Onward(a)
    PROVE  ControlTypeOK'
BY DEF ControlTypeOK, Onward, wfVars, Places, Active

LEMMA EndsType ==
    ASSUME ControlTypeOK, NEW a \in Attempts, NEW outcome \in Closed, Ends(a, outcome)
    PROVE  ControlTypeOK'
<1>1. a[1] \in Runs
  BY AttemptsOf
<1>2. QED
  BY <1>1 DEF ControlTypeOK, Ends, Places

LEMMA GiveUpType ==
    ASSUME ControlTypeOK, NEW r \in Runs, NEW pcs \in [Attempts -> Places], GiveUp(r, pcs)
    PROVE  ControlTypeOK'
<1>1. attempt[r] \in 1 .. MaxAttempts
  BY DEF ControlTypeOK
<1>2. CASE attempt[r] < MaxAttempts
  <2>1. attempt[r] + 1 \in 1 .. MaxAttempts
    BY <1>1, <1>2, ConstantsAssumption
  <2>2. <<r, attempt[r] + 1>> \in Attempts
    BY <2>1 DEF Attempts
  <2>3. pc' \in [Attempts -> Places]
    BY <1>2, <2>2 DEF GiveUp, Places, Active
  <2>4. attempt' \in [Runs -> 1 .. MaxAttempts]
    BY <1>2, <2>1 DEF GiveUp, ControlTypeOK
  <2>5. QED
    BY <1>2, <2>3, <2>4 DEF GiveUp, ControlTypeOK
<1>3. CASE ~(attempt[r] < MaxAttempts)
  BY <1>3 DEF GiveUp, ControlTypeOK, Closed
<1>4. QED
  BY <1>2, <1>3

LEMMA RetriedType ==
    ASSUME ControlTypeOK, NEW a \in Attempts, Retried(a)
    PROVE  ControlTypeOK'
<1>1. a[1] \in Runs
  BY AttemptsOf
<1>2. [pc EXCEPT ![a] = "ended"] \in [Attempts -> Places]
  BY DEF ControlTypeOK, Places
<1>3. "ended" \in Places
  BY DEF Places
<1>4. CASE Current(a)
  BY <1>1, <1>2, <1>4, GiveUpType DEF Retried
<1>5. CASE ~Current(a)
  BY <1>3, <1>5, GotoType DEF Retried
<1>6. QED
  BY <1>4, <1>5

LEMMA CostType ==
    ASSUME NEW kind
    PROVE  /\ Cost(kind) \in [Resources -> Nat]
           /\ \A n \in Nat : WithTokens(Cost(kind), n) \in [Resources -> Nat]
BY DEF Cost, WithTokens, Resources

\* Charging adds to one run's budget.
LEMMA ChargeType ==
    ASSUME DbTypeOK, NEW r \in Runs, NEW amount \in [Resources -> Nat], Charge(r, amount)
    PROVE  /\ consumed' \in [Runs -> [Resources -> Nat]]
           /\ \A x \in Resources : consumed'[r][x] = consumed[r][x] + amount[x]
           /\ \A s \in Runs \ {r} : consumed'[s] = consumed[s]
BY DEF DbTypeOK, Charge

\* What was found to fit does not overdraw the budget.
LEMMA ChargeRespects ==
    ASSUME DbTypeOK, BudgetIsRespected, NEW r \in Runs,
           NEW amount \in [Resources -> Nat], Fits(r, amount), Charge(r, amount)
    PROVE  BudgetIsRespected'
<1>1. SUFFICES ASSUME NEW s \in Runs, NEW x \in Resources
               PROVE  consumed'[s][x] <= Limits[s][x]
  BY DEF BudgetIsRespected
<1>2. CASE s = r
  BY <1>2, ChargeType DEF Fits
<1>3. CASE s # r
  BY <1>3, ChargeType DEF BudgetIsRespected
<1>4. QED
  BY <1>2, <1>3

\* The call an attempt is making is one of the calls.
LEMMA CallType ==
    ASSUME ControlTypeOK, NEW a \in Attempts, at[a] \in DOMAIN prog[a]
    PROVE  Call(a) \in Calls
BY DEF ControlTypeOK, Call

LEMMA FaultType ==
    ASSUME faults \in Nat, Fault \/ UNCHANGED faults
    PROVE  faults' \in Nat
BY DEF Fault

-----------------------------------------------------------------------------
(***************************************************************************)
(* Every step keeps the types.                                             *)
(***************************************************************************)
LEMMA BeginType ==
    ASSUME TypeOK, NEW a \in Attempts, Begin(a)
    PROVE  TypeOK'
<1>1. DbTypeOK /\ ControlTypeOK /\ a[1] \in Runs
  BY TypeParts, AttemptsOf
<1>2. CASE run[a[1]] = "CANCELLED"
  <2>1. Ends(a, "cancelled") /\ UNCHANGED <<dbVars, faults>>
    BY <1>2 DEF Begin, dbVars
  <2>2. ControlTypeOK'
    BY <1>1, <2>1, EndsType DEF Closed
  <2>3. QED
    BY <1>1, <2>1, <2>2, TypeParts, TypePartsPrime DEF DbTypeOK, dbVars
<1>3. CASE run[a[1]] # "CANCELLED"
  <2>1. DbTypeOK'
    BY <1>1, <1>3 DEF Begin, DbTypeOK
  <2>2. PICK p \in Programs[a[1]] : prog' = [prog EXCEPT ![a] = p]
    BY <1>3 DEF Begin
  <2>3. p \in Seq(Calls)
    BY <1>1, <2>2, ConstantsAssumption
  <2>4. ControlTypeOK'
    BY <1>1, <1>3, <2>2, <2>3 DEF Begin, ControlTypeOK, wfVars, Places, Active
  <2>5. QED
    BY <2>1, <2>4, TypeParts, TypePartsPrime DEF Begin
<1>4. QED
  BY <1>2, <1>3

LEMMA EventTypes ==
    ASSUME TypeOK, NEW a \in Attempts, EmitEvent(a) \/ Announce(a) \/ Complete(a)
    PROVE  TypeOK'
<1>1. DbTypeOK /\ ControlTypeOK /\ a[1] \in Runs
  BY TypeParts, AttemptsOf
<1>2. DbTypeOK'
  BY <1>1 DEF DbTypeOK, EmitEvent, Announce, Complete
<1>3. ControlTypeOK'
  <2>1. CASE EmitEvent(a)
    BY <1>1, <2>1, OnwardType DEF EmitEvent
  <2>2. CASE Announce(a)
    BY <1>1, <2>2, GotoType DEF Announce, Places, Active
  <2>3. CASE Complete(a)
    BY <1>1, <2>3, EndsType DEF Complete, Closed
  <2>4. QED
    BY <2>1, <2>2, <2>3
<1>4. UNCHANGED faults
  BY DEF EmitEvent, Announce, Complete
<1>5. QED
  BY <1>2, <1>3, <1>4, TypeParts, TypePartsPrime

\* The steps that leave the database alone.
LEMMA QuietTypes ==
    ASSUME TypeOK, NEW a \in Attempts,
           \/ CheckCancelled(a) \/ Poll(a) \/ AdmitChild(a) \/ AwaitChild(a) \/ Stops(a)
    PROVE  TypeOK'
<1>1. DbTypeOK /\ ControlTypeOK
  BY TypeParts
<1>2. UNCHANGED <<dbVars, faults>>
  BY DEF CheckCancelled, Poll, AdmitChild, AwaitChild, Stops
<1>3. \/ Onward(a)
      \/ \E where \in {"admitted", "ended"} : Goto(a, where)
      \/ Ends(a, "failed")
  BY DEF CheckCancelled, Poll, AdmitChild, AwaitChild, Stops
<1>4. {"admitted", "ended"} \subseteq Places /\ "failed" \in Closed
  BY DEF Places, Active, Closed
<1>5. ControlTypeOK'
  BY <1>1, <1>3, <1>4, OnwardType, GotoType, EndsType
<1>6. QED
  BY <1>1, <1>2, <1>5, TypeParts, TypePartsPrime DEF DbTypeOK, dbVars

LEMMA SaveType ==
    ASSUME TypeOK, NEW a \in Attempts, Save(a)
    PROVE  TypeOK'
<1>1. DbTypeOK /\ ControlTypeOK /\ a[1] \in Runs /\ UNCHANGED faults
  BY TypeParts, AttemptsOf DEF Save
<1>2. CASE Fits(a[1], Cost(Call(a).do))
  <2>1. /\ Charge(a[1], Cost(Call(a).do))
        /\ rows' = [rows EXCEPT ![a[1]] = @ \cup {Call(a)}]
        /\ Onward(a)
        /\ UNCHANGED <<run, models, approval, events>>
    BY <1>2 DEF Save
  <2>2. Call(a) \in Calls
    BY <1>1, CallType DEF Save, Calling
  <2>3. consumed' \in [Runs -> [Resources -> Nat]]
    BY <1>1, <2>1, CostType, ChargeType
  <2>4. DbTypeOK'
    BY <1>1, <2>1, <2>2, <2>3 DEF DbTypeOK
  <2>5. QED
    BY <1>1, <2>1, <2>4, OnwardType, TypeParts, TypePartsPrime
<1>3. CASE Refused(a)
  BY <1>1, <1>3, EndsType, TypeParts, TypePartsPrime DEF Refused, Closed, DbTypeOK, dbVars
<1>4. QED
  BY <1>2, <1>3 DEF Save

\* A model call is refused, or charged for the call alone when the provider fails, or
\* charged for the call and its tokens.
LEMMA CallModelCases ==
    ASSUME NEW a, CallModel(a)
    PROVE  \/ Refused(a) /\ UNCHANGED faults
           \/ \E amount \in {Cost("model")} \cup {WithTokens(Cost("model"), n) : n \in Tokens} :
                 /\ Fits(a[1], amount)
                 /\ Charge(a[1], amount)
                 /\ models' = [models EXCEPT ![a[1]] = @ + 1]
                 /\ \/ Onward(a) /\ UNCHANGED faults
                    \/ Fault /\ (Retried(a) \/ Ends(a, "failed"))
                 /\ UNCHANGED <<run, rows, approval, events>>
BY DEF CallModel

LEMMA CallModelType ==
    ASSUME TypeOK, NEW a \in Attempts, CallModel(a)
    PROVE  TypeOK'
<1>1. DbTypeOK /\ ControlTypeOK /\ a[1] \in Runs /\ faults \in Nat
  BY TypeParts, AttemptsOf
<1>2. CASE Refused(a) /\ UNCHANGED faults
  BY <1>1, <1>2, EndsType, TypeParts, TypePartsPrime DEF Refused, Closed, DbTypeOK, dbVars
<1>3. ASSUME NEW amount \in {Cost("model")} \cup {WithTokens(Cost("model"), n) : n \in Tokens},
             Charge(a[1], amount),
             models' = [models EXCEPT ![a[1]] = @ + 1],
             \/ Onward(a) /\ UNCHANGED faults
             \/ Fault /\ (Retried(a) \/ Ends(a, "failed")),
             UNCHANGED <<run, rows, approval, events>>
      PROVE  TypeOK'
  <2>1. amount \in [Resources -> Nat]
    BY <1>3, CostType, ConstantsAssumption
  <2>2. DbTypeOK'
    BY <1>1, <1>3, <2>1, ChargeType DEF DbTypeOK
  <2>3. ControlTypeOK'
    BY <1>1, <1>3, OnwardType, RetriedType, EndsType DEF Closed
  <2>4. faults' \in Nat
    BY <1>1, <1>3, FaultType
  <2>5. QED
    BY <2>2, <2>3, <2>4, TypePartsPrime
<1>4. QED
  BY <1>2, <1>3, CallModelCases

LEMMA RequestApprovalType ==
    ASSUME TypeOK, NEW a \in Attempts, RequestApproval(a)
    PROVE  TypeOK'
<1>1. DbTypeOK /\ ControlTypeOK /\ a[1] \in Runs /\ UNCHANGED faults
  BY TypeParts, AttemptsOf DEF RequestApproval
<1>2. DbTypeOK'
  BY <1>1 DEF RequestApproval, Refused, DbTypeOK, dbVars
<1>3. \/ \E where \in {"announce", "polling"} : Goto(a, where)
      \/ Ends(a, "failed")
  BY DEF RequestApproval, Refused
<1>4. ControlTypeOK'
  BY <1>1, <1>3, GotoType, EndsType DEF Places, Active, Closed
<1>5. QED
  BY <1>1, <1>2, <1>4, TypeParts, TypePartsPrime

LEMMA CreateChildType ==
    ASSUME TypeOK, NEW a \in Attempts, CreateChild(a)
    PROVE  TypeOK'
<1>1. DbTypeOK /\ ControlTypeOK /\ a[1] \in Runs /\ UNCHANGED faults
  BY TypeParts, AttemptsOf DEF CreateChild
<1>2. ASSUME Charge(a[1], Cost("delegate")),
             run' = [run EXCEPT ![Call(a).arg] = "PENDING"],
             UNCHANGED <<rows, models, approval, events>>
      PROVE  DbTypeOK'
  <2>1. consumed' \in [Runs -> [Resources -> Nat]]
    BY <1>1, <1>2, CostType, ChargeType
  <2>2. QED
    BY <1>1, <1>2, <2>1 DEF DbTypeOK
<1>3. ASSUME UNCHANGED dbVars
      PROVE  DbTypeOK'
  BY <1>1, <1>3 DEF DbTypeOK, dbVars
<1>4. DbTypeOK'
  BY <1>2, <1>3 DEF CreateChild, Refused
<1>5. Goto(a, "starting") \/ Ends(a, "failed")
  BY DEF CreateChild, Refused
<1>6. ControlTypeOK'
  BY <1>1, <1>5, GotoType, EndsType DEF Places, Active, Closed
<1>7. QED
  BY <1>1, <1>4, <1>6, TypeParts, TypePartsPrime

LEMMA FinishType ==
    ASSUME TypeOK, NEW a \in Attempts, Finish(a)
    PROVE  TypeOK'
<1>1. DbTypeOK /\ ControlTypeOK /\ a[1] \in Runs /\ UNCHANGED faults
  BY TypeParts, AttemptsOf DEF Finish
<1>2. DbTypeOK'
  BY <1>1 DEF Finish, DbTypeOK, Terminal
<1>3. Goto(a, "complete") \/ Ends(a, "cancelled")
  BY DEF Finish
<1>4. ControlTypeOK'
  BY <1>1, <1>3, GotoType, EndsType DEF Places, Active, Closed
<1>5. QED
  BY <1>1, <1>2, <1>4, TypeParts, TypePartsPrime

\* Failures, and what Temporal does.
LEMMA FailsType ==
    ASSUME TypeOK, NEW a \in Attempts, Fails(a)
    PROVE  TypeOK'
<1>1. DbTypeOK /\ ControlTypeOK /\ faults \in Nat
  BY TypeParts
<1>2. UNCHANGED dbVars /\ Fault /\ (Retried(a) \/ Ends(a, "failed"))
  BY DEF Fails
<1>3. ControlTypeOK'
  BY <1>1, <1>2, RetriedType, EndsType DEF Closed
<1>4. QED
  BY <1>1, <1>2, <1>3, FaultType, TypePartsPrime DEF DbTypeOK, dbVars

LEMMA TimesOutType ==
    ASSUME TypeOK, NEW r \in Runs, TimesOut(r)
    PROVE  TypeOK'
<1>1. DbTypeOK /\ ControlTypeOK /\ faults \in Nat
  BY TypeParts
<1>2. UNCHANGED dbVars /\ Fault /\ GiveUp(r, pc)
  BY DEF TimesOut
<1>3. ControlTypeOK'
  BY <1>1, <1>2, GiveUpType DEF ControlTypeOK
<1>4. QED
  BY <1>1, <1>2, <1>3, FaultType, TypePartsPrime DEF DbTypeOK, dbVars

LEMMA WorkflowTypes ==
    ASSUME TypeOK,
           \/ \E a \in Attempts : StartChild(a)
           \/ \E r \in Runs : StartWorkflow(r) \/ RunWorkflow(r) \/ Signal(r)
    PROVE  TypeOK'
<1>1. DbTypeOK /\ ControlTypeOK
  BY TypeParts
<1>2. UNCHANGED <<dbVars, faults>>
  BY DEF StartChild, StartWorkflow, RunWorkflow, Signal
<1>3. ASSUME NEW a \in Attempts, StartChild(a)
      PROVE  ControlTypeOK'
  BY <1>1, <1>3 DEF StartChild, ControlTypeOK, Places, Active
<1>4. ASSUME NEW r \in Runs, StartWorkflow(r) \/ RunWorkflow(r) \/ Signal(r)
      PROVE  ControlTypeOK'
  <2>1. CASE StartWorkflow(r) \/ Signal(r)
    BY <1>1, <2>1 DEF StartWorkflow, Signal, ControlTypeOK, attVars
  <2>2. CASE RunWorkflow(r) /\ signalled[r]
    BY <1>1, <2>2 DEF RunWorkflow, ControlTypeOK, Closed
  <2>3. CASE RunWorkflow(r) /\ ~signalled[r]
    BY <1>1, <2>3 DEF RunWorkflow, ControlTypeOK, Places, Active
  <2>4. QED
    BY <1>4, <2>1, <2>2, <2>3
<1>5. QED
  BY <1>1, <1>2, <1>3, <1>4, TypeParts, TypePartsPrime DEF DbTypeOK, dbVars

LEMMA ApiTypes ==
    ASSUME TypeOK, NEW r \in Runs, Cancel(r) \/ \E verdict \in Verdicts : Decide(r, verdict)
    PROVE  TypeOK'
<1>1. DbTypeOK /\ ControlTypeOK
  BY TypeParts
<1>2. UNCHANGED <<attVars, wfVars, faults>>
  BY DEF Cancel, Decide
<1>3. DbTypeOK'
  <2>1. CASE Cancel(r)
    BY <1>1, <2>1 DEF Cancel, DbTypeOK, Terminal
  <2>2. ASSUME NEW verdict \in Verdicts, Decide(r, verdict)
        PROVE  DbTypeOK'
    BY <1>1, <2>2 DEF Decide, DbTypeOK
  <2>3. QED
    BY <2>1, <2>2
<1>4. ControlTypeOK'
  BY <1>1, <1>2 DEF ControlTypeOK, attVars, wfVars
<1>5. QED
  BY <1>2, <1>3, <1>4, TypeParts, TypePartsPrime

LEMMA InitType == Init => TypeOK
BY ConstantsAssumption DEF Init, TypeOK, Attempts, Resources

LEMMA TypeStep == TypeOK /\ [Next]_vars => TypeOK'
<1>1. SUFFICES ASSUME TypeOK, [Next]_vars
               PROVE  TypeOK'
  OBVIOUS
<1>2. ASSUME NEW a \in Attempts, Step(a)
      PROVE  TypeOK'
  BY <1>1, <1>2, BeginType, EventTypes, QuietTypes, SaveType, CallModelType, RequestApprovalType,
     CreateChildType, WorkflowTypes, FinishType DEF Step
<1>3. ASSUME NEW a \in Attempts, Fails(a) \/ Stops(a)
      PROVE  TypeOK'
  BY <1>1, <1>3, FailsType, QuietTypes
<1>4. ASSUME NEW r \in Runs,
             \/ StartWorkflow(r) \/ RunWorkflow(r) \/ TimesOut(r)
             \/ Cancel(r) \/ Signal(r)
             \/ \E verdict \in Verdicts : Decide(r, verdict)
      PROVE  TypeOK'
  BY <1>1, <1>4, WorkflowTypes, TimesOutType, ApiTypes
<1>5. CASE UNCHANGED vars
  BY <1>1, <1>5 DEF TypeOK, vars, dbVars, attVars, wfVars
<1>6. QED
  BY <1>1, <1>2, <1>3, <1>4, <1>5 DEF Next

\* Every variable of the managed-agent model keeps its type (TypeOK).
THEOREM TypeCorrect == Spec => []TypeOK
BY InitType, TypeStep, PTL DEF Spec

-----------------------------------------------------------------------------
(***************************************************************************)
(* Budgets: whatever consumes them has looked whether it fits.             *)
(***************************************************************************)
\* Every step leaves the budgets alone, or charges one run what fits.
LEMMA BudgetMoves ==
    ASSUME TypeOK, [Next]_vars
    PROVE  \/ UNCHANGED consumed
           \/ \E r \in Runs, amount \in [Resources -> Nat] :
                 Fits(r, amount) /\ Charge(r, amount)
<1>1. ASSUME NEW a \in Attempts, Save(a) \/ CreateChild(a)
      PROVE  UNCHANGED consumed \/ \E kind : Fits(a[1], Cost(kind)) /\ Charge(a[1], Cost(kind))
  BY <1>1 DEF Save, CreateChild, Refused, dbVars
<1>2. ASSUME NEW a \in Attempts, CallModel(a)
      PROVE  \/ UNCHANGED consumed
             \/ \E amount \in {Cost("model")} \cup {WithTokens(Cost("model"), n) : n \in Tokens} :
                   Fits(a[1], amount) /\ Charge(a[1], amount)
  BY <1>2, CallModelCases DEF Refused, dbVars
<1>3. \A n \in Tokens : n \in Nat
  BY ConstantsAssumption
<1>4. ASSUME NEW a \in Attempts, Step(a), ~Save(a), ~CreateChild(a), ~CallModel(a)
      PROVE  UNCHANGED consumed
  BY <1>4 DEF Step, Begin, EmitEvent, CheckCancelled, RequestApproval, Announce, Poll,
     AdmitChild, StartChild, AwaitChild, Finish, Complete, Refused, dbVars
<1>5. ASSUME NEW a \in Attempts, Fails(a) \/ Stops(a)
      PROVE  UNCHANGED consumed
  BY <1>5 DEF Fails, Stops, dbVars
<1>6. ASSUME NEW r \in Runs,
             \/ StartWorkflow(r) \/ RunWorkflow(r) \/ TimesOut(r)
             \/ Cancel(r) \/ Signal(r)
             \/ \E verdict \in Verdicts : Decide(r, verdict)
      PROVE  UNCHANGED consumed
  BY <1>6 DEF StartWorkflow, RunWorkflow, TimesOut, Cancel, Signal, Decide, dbVars
<1>7. CASE UNCHANGED vars
  BY <1>7 DEF vars, dbVars
<1>8. ASSUME NEW a \in Attempts, Step(a)
      PROVE  \/ UNCHANGED consumed
             \/ \E r \in Runs, amount \in [Resources -> Nat] :
                   Fits(r, amount) /\ Charge(r, amount)
  BY <1>1, <1>2, <1>3, <1>4, <1>8, CostType, AttemptsOf
<1>9. QED
  BY <1>5, <1>6, <1>7, <1>8 DEF Next

\* No budget is overdrawn (BudgetIsRespected), however many attempts repeat and overlap.
THEOREM BudgetsAreRespected == Spec => []BudgetIsRespected
<1>1. Init => BudgetIsRespected
  BY ConstantsAssumption DEF Init, BudgetIsRespected
<1>2. TypeOK /\ BudgetIsRespected /\ [Next]_vars => BudgetIsRespected'
  <2>1. SUFFICES ASSUME TypeOK, BudgetIsRespected, [Next]_vars
                 PROVE  BudgetIsRespected'
    OBVIOUS
  <2>2. CASE UNCHANGED consumed
    BY <2>1, <2>2 DEF BudgetIsRespected
  <2>3. ASSUME NEW r \in Runs, NEW amount \in [Resources -> Nat],
               Fits(r, amount), Charge(r, amount)
        PROVE  BudgetIsRespected'
    BY <2>1, <2>3, ChargeRespects, TypeParts
  <2>4. QED
    BY <2>1, <2>2, <2>3, BudgetMoves
<1>3. QED
  BY <1>1, <1>2, TypeCorrect, PTL DEF Spec

-----------------------------------------------------------------------------
(***************************************************************************)
(* Control.                                                                *)
(***************************************************************************)
\* An attempt follows a program of its run from the first call on; it runs only for
\* a run that exists; one that delegates is at that call, has found the child's
\* limits within its own, and from the insertion on the child is there.
AttemptControl(a) ==
    /\ prog[a] = <<>> \/ prog[a] \in Programs[a[1]]
    /\ pc[a] \in {"none", "begin"} => at[a] = 1
    /\ pc[a] \in Active => run[a[1]] # "absent"
    /\ pc[a] \in {"admitted", "starting", "awaiting"} =>
          at[a] \in DOMAIN prog[a] /\ Call(a).do = "delegate"
    /\ pc[a] = "admitted" =>
          \A x \in Resources : Limits[Call(a).arg][x] <= Limits[a[1]][x]
    /\ pc[a] \in {"starting", "awaiting"} => run[Call(a).arg] # "absent"

\* A workflow exists only for a run that does; attempts begin in their order, and
\* after the workflow has run.
WorkflowControl(r) ==
    /\ wf[r] # "absent" => run[r] # "absent"
    /\ \A k \in 1 .. MaxAttempts :
          k > attempt[r] \/ wf[r] \in {"absent", "created"} => pc[<<r, k>>] = "none"

Control ==
    /\ \A a \in Attempts : AttemptControl(a)
    /\ \A r \in Runs : WorkflowControl(r)

IInv == TypeOK /\ Control

\* What a delegation calls is a run that the caller may delegate to.
LEMMA DelegatedTo ==
    ASSUME TypeOK, NEW a \in Attempts, AttemptControl(a),
           at[a] \in DOMAIN prog[a], Call(a).do = "delegate"
    PROVE  Call(a).arg \in Runs /\ Parent[Call(a).arg] = a[1]
<1>1. prog[a] \in Programs[a[1]]
  BY DEF AttemptControl
<1>2. QED
  BY <1>1, AttemptsOf, ConstantsAssumption DEF Call

\* A descendant is a run that exists: the runs that exist are closed under children.
LEMMA DescendantsExist ==
    ASSUME NEW r \in Runs, NEW d \in Descendants(r)
    PROVE  d \in Runs /\ run[d] # "absent"
<1>1. DEFINE S == {c \in Runs : run[c] # "absent"}
<1>2. \A p \in S \cup {r} : Children(p) \subseteq S
  BY DEF Children
<1>3. S \in SUBSET Runs
  OBVIOUS
<1>4. d \in S
  BY <1>2, <1>3 DEF Descendants
<1>5. QED
  BY <1>4

-----------------------------------------------------------------------------
(***************************************************************************)
(* How a run's status moves.                                               *)
(***************************************************************************)
\* A run stays in the database, a cancelled one stays cancelled, and a run appears
\* only as the child of an attempt that was admitted.
RunMoves ==
    \A c \in Runs :
        /\ run[c] # "absent" => run'[c] # "absent"
        /\ run[c] = "CANCELLED" => run'[c] = "CANCELLED"
        /\ run[c] = "absent" /\ run'[c] # "absent" =>
              \E a \in Attempts : CreateChild(a) /\ c = Call(a).arg

LEMMA RunMovesStep ==
    ASSUME IInv, [Next]_vars
    PROVE  RunMoves
<1>. TypeOK /\ Control /\ DbTypeOK
  BY TypeParts DEF IInv
<1>1. ASSUME NEW a \in Attempts, Begin(a) \/ RequestApproval(a) \/ Finish(a)
      PROVE  RunMoves
  <2>1. a[1] \in Runs /\ run[a[1]] # "absent"
    BY <1>1, AttemptsOf DEF Control, AttemptControl, Begin, RequestApproval, Finish,
       Calling, Active
  <2>2. \/ UNCHANGED run
        \/ /\ run[a[1]] # "CANCELLED"
           /\ \E status \in {"RUNNING", "WAITING", "SUCCEEDED"} :
                 run' = [run EXCEPT ![a[1]] = status]
    BY <1>1 DEF Begin, RequestApproval, Finish, Refused, dbVars
  <2>3. QED
    BY <2>1, <2>2 DEF DbTypeOK, RunMoves
<1>2. ASSUME NEW a \in Attempts, CreateChild(a)
      PROVE  RunMoves
  <2>1. \/ UNCHANGED run
        \/ /\ run[Call(a).arg] = "absent"
           /\ run' = [run EXCEPT ![Call(a).arg] = "PENDING"]
    BY <1>2 DEF CreateChild, Refused, dbVars
  <2>2. QED
    BY <1>2, <2>1 DEF DbTypeOK, RunMoves
<1>3. ASSUME NEW r \in Runs, NEW verdict \in Verdicts, Decide(r, verdict)
      PROVE  RunMoves
  BY <1>3 DEF Decide, DbTypeOK, RunMoves
<1>4. ASSUME NEW r \in Runs, Cancel(r)
      PROVE  RunMoves
  BY <1>4, DescendantsExist DEF Cancel, DbTypeOK, RunMoves, Terminal
<1>5. ASSUME UNCHANGED run
      PROVE  RunMoves
  BY <1>5 DEF RunMoves
<1>6. ASSUME NEW a \in Attempts, Step(a), ~Begin(a), ~RequestApproval(a), ~Finish(a),
             ~CreateChild(a)
      PROVE  UNCHANGED run
  BY <1>6 DEF Step, EmitEvent, CheckCancelled, Save, CallModel, Announce, Poll,
     AdmitChild, StartChild, AwaitChild, Complete, Refused, dbVars
<1>7. ASSUME NEW a \in Attempts, Fails(a) \/ Stops(a)
      PROVE  UNCHANGED run
  BY <1>7 DEF Fails, Stops, dbVars
<1>8. ASSUME NEW r \in Runs, StartWorkflow(r) \/ RunWorkflow(r) \/ TimesOut(r) \/ Signal(r)
      PROVE  UNCHANGED run
  BY <1>8 DEF StartWorkflow, RunWorkflow, TimesOut, Signal, dbVars
<1>9. CASE UNCHANGED vars
  BY <1>5, <1>9 DEF vars, dbVars
<1>10. QED
  BY <1>1, <1>2, <1>3, <1>4, <1>5, <1>6, <1>7, <1>8, <1>9 DEF Next

-----------------------------------------------------------------------------
(***************************************************************************)
(* Control is kept.                                                        *)
(***************************************************************************)
\* An attempt that a step does not move.
LEMMA OtherAttempt ==
    ASSUME IInv, RunMoves, NEW b \in Attempts,
           pc'[b] = pc[b], at'[b] = at[b], prog'[b] = prog[b]
    PROVE  AttemptControl(b)'
<1>1. TypeOK /\ AttemptControl(b) /\ b[1] \in Runs
  BY AttemptsOf DEF IInv, Control
<1>2. Call(b)' = Call(b)
  BY DEF Call
<1>3. at[b] \in DOMAIN prog[b] /\ Call(b).do = "delegate" => Call(b).arg \in Runs
  BY <1>1, DelegatedTo
<1>4. QED
  BY <1>1, <1>2, <1>3 DEF AttemptControl, RunMoves

\* An attempt that goes on, to a place that claims nothing.
Plain == {"call", "announce", "polling", "complete", "ended"}

LEMMA MovedAttempt ==
    ASSUME IInv, RunMoves, NEW a \in Attempts, pc[a] \in Active,
           pc'[a] \in Plain, prog'[a] = prog[a]
    PROVE  AttemptControl(a)'
<1>1. AttemptControl(a) /\ a[1] \in Runs
  BY AttemptsOf DEF IInv, Control
<1>2. QED
  BY <1>1 DEF AttemptControl, RunMoves, Plain

\* The workflows, when one attempt moves.
LEMMA WorkflowsKept ==
    ASSUME IInv, RunMoves, NEW a \in Attempts, pc[a] \in Active,
           \A b \in Attempts \ {a} : pc'[b] = pc[b],
           attempt' = attempt,
           \A r \in Runs :
              \/ wf'[r] = wf[r]
              \/ r = a[1] /\ wf'[r] \in Closed
              \/ run[r] # "absent" /\ wf[r] = "absent" /\ wf'[r] = "created"
    PROVE  \A r \in Runs : WorkflowControl(r)'
<1>1. SUFFICES ASSUME NEW r \in Runs
               PROVE  WorkflowControl(r)'
  OBVIOUS
<1>2. WorkflowControl(r) /\ WorkflowControl(a[1]) /\ AttemptControl(a)
  BY AttemptsOf DEF IInv, Control
<1>3. wf'[r] # "absent" => run'[r] # "absent"
  BY <1>2 DEF WorkflowControl, AttemptControl, RunMoves
<1>4. ASSUME NEW k \in 1 .. MaxAttempts,
             k > attempt'[r] \/ wf'[r] \in {"absent", "created"}
      PROVE  pc'[<<r, k>>] = "none"
  <2>1. k > attempt[r] \/ wf[r] \in {"absent", "created"}
    BY <1>4 DEF Closed
  <2>2. pc[<<r, k>>] = "none"
    BY <1>2, <2>1 DEF WorkflowControl
  <2>3. <<r, k>> \in Attempts \ {a}
    BY <2>2 DEF Active, Attempts
  <2>4. QED
    BY <2>2, <2>3
<1>5. QED
  BY <1>3, <1>4 DEF WorkflowControl

\* A step that only moves an attempt, or ends it with its workflow.
LEMMA OneAttempt ==
    ASSUME IInv, RunMoves, NEW a \in Attempts, pc[a] \in Active,
           \/ \E where \in Plain : Goto(a, where)
           \/ Onward(a)
           \/ \E outcome \in Closed : Ends(a, outcome)
    PROVE  Control'
<1>1. pc \in [Attempts -> Places] /\ at \in [Attempts -> Nat \ {0}]
      /\ prog \in [Attempts -> Seq(Calls)] /\ wf \in [Runs -> {"absent", "created", "executing"} \cup Closed]
  BY TypeParts DEF IInv, ControlTypeOK
<1>2. /\ pc'[a] \in Plain
      /\ prog' = prog
      /\ attempt' = attempt
      /\ \A b \in Attempts \ {a} : pc'[b] = pc[b] /\ at'[b] = at[b]
      /\ \A r \in Runs : wf'[r] = wf[r] \/ (r = a[1] /\ wf'[r] \in Closed)
  <2>1. CASE \E where \in Plain : Goto(a, where)
    BY <1>1, <2>1 DEF Goto, wfVars
  <2>2. CASE Onward(a)
    BY <1>1, <2>2 DEF Onward, wfVars, Plain
  <2>3. CASE \E outcome \in Closed : Ends(a, outcome)
    BY <1>1, <2>3, AttemptsOf DEF Ends, Plain
  <2>4. QED
    BY <2>1, <2>2, <2>3
<1>3. \A b \in Attempts : AttemptControl(b)'
  BY <1>2, OtherAttempt, MovedAttempt
<1>4. \A r \in Runs : WorkflowControl(r)'
  BY <1>2, WorkflowsKept
<1>5. QED
  BY <1>3, <1>4 DEF Control

\* Temporal gives an attempt up, which may end with it.
LEMMA GivenUp ==
    ASSUME IInv, RunMoves, NEW r \in Runs, wf[r] = "executing",
           NEW pcs \in [Attempts -> Places],
           \A b \in Attempts : pcs[b] = pc[b] \/ (pc[b] \in Active /\ pcs[b] = "ended"),
           GiveUp(r, pcs)
    PROVE  Control'
<1>1. /\ attempt \in [Runs -> 1 .. MaxAttempts]
      /\ wf \in [Runs -> {"absent", "created", "executing"} \cup Closed]
      /\ at' = at /\ prog' = prog
  BY TypeParts DEF IInv, ControlTypeOK, GiveUp
<1>2. WorkflowControl(r) /\ run[r] # "absent" /\ attempt[r] \in 1 .. MaxAttempts
  BY <1>1 DEF IInv, Control, WorkflowControl
<1>3. CASE attempt[r] < MaxAttempts
  <2>0. attempt[r] + 1 \in 1 .. MaxAttempts
    BY <1>2, <1>3, ConstantsAssumption
  <2>1. PICK n \in Attempts : n = <<r, attempt[r] + 1>> /\ attempt[r] + 1 \in 1 .. MaxAttempts
    BY <2>0 DEF Attempts
  <2>2. pc[n] = "none"
    BY <1>2, <2>1 DEF WorkflowControl
  <2>3. /\ pc'[n] = "begin"
        /\ \A b \in Attempts \ {n} : pc'[b] = pcs[b]
        /\ attempt'[r] = attempt[r] + 1
        /\ \A s \in Runs \ {r} : attempt'[s] = attempt[s]
        /\ wf' = wf
    BY <1>1, <1>3, <2>1 DEF GiveUp
  <2>4. AttemptControl(n)'
    <3>1. AttemptControl(n) /\ n[1] = r
      BY <2>1 DEF IInv, Control
    <3>2. at'[n] = 1 /\ (prog'[n] = <<>> \/ prog'[n] \in Programs[n[1]])
      BY <1>1, <2>2, <3>1 DEF AttemptControl
    <3>3. run'[n[1]] # "absent"
      BY <1>2, <3>1 DEF RunMoves
    <3>4. pc'[n] = "begin"
      BY <2>3
    <3>5. QED
      BY <3>2, <3>3, <3>4 DEF AttemptControl
  <2>5. ASSUME NEW b \in Attempts \ {n}
        PROVE  AttemptControl(b)'
    BY <1>1, <2>3, OtherAttempt, MovedAttempt DEF Plain
  <2>6. ASSUME NEW s \in Runs
        PROVE  WorkflowControl(s)'
    <3>1. WorkflowControl(s)
      BY DEF IInv, Control
    <3>2. ASSUME NEW k \in 1 .. MaxAttempts,
                 k > attempt'[s] \/ wf'[s] \in {"absent", "created"}
          PROVE  pc'[<<s, k>>] = "none"
      <4>1. <<s, k>> \in Attempts \ {n}
        <5>1. CASE s = r
          BY <1>2, <2>1, <2>3, <3>2, <5>1 DEF Attempts
        <5>2. CASE s # r
          BY <2>1, <5>2 DEF Attempts
        <5>3. QED
          BY <5>1, <5>2
      <4>2. k > attempt[s] \/ wf[s] \in {"absent", "created"}
        BY <1>1, <2>3, <3>2
      <4>3. pc[<<s, k>>] = "none"
        BY <3>1, <4>2 DEF WorkflowControl
      <4>4. QED
        BY <2>3, <4>1, <4>3 DEF Active
    <3>3. wf'[s] # "absent" => run'[s] # "absent"
      BY <2>3, <3>1 DEF WorkflowControl, RunMoves
    <3>4. QED
      BY <3>2, <3>3 DEF WorkflowControl
  <2>7. QED
    BY <2>4, <2>5, <2>6 DEF Control
<1>4. CASE ~(attempt[r] < MaxAttempts)
  <2>1. /\ pc' = pcs /\ attempt' = attempt
        /\ wf'[r] = "failed"
        /\ \A s \in Runs \ {r} : wf'[s] = wf[s]
    BY <1>1, <1>4 DEF GiveUp
  <2>2. ASSUME NEW b \in Attempts
        PROVE  AttemptControl(b)'
    BY <1>1, <2>1, OtherAttempt, MovedAttempt DEF Plain
  <2>3. ASSUME NEW s \in Runs
        PROVE  WorkflowControl(s)'
    <3>1. WorkflowControl(s)
      BY DEF IInv, Control
    <3>2. ASSUME NEW k \in 1 .. MaxAttempts,
                 k > attempt'[s] \/ wf'[s] \in {"absent", "created"}
          PROVE  pc'[<<s, k>>] = "none"
      <4>1. k > attempt[s] \/ wf[s] \in {"absent", "created"}
        BY <2>1, <3>2
      <4>2. pc[<<s, k>>] = "none"
        BY <3>1, <4>1 DEF WorkflowControl
      <4>3. <<s, k>> \in Attempts
        BY DEF Attempts
      <4>4. QED
        BY <2>1, <4>2, <4>3 DEF Active
    <3>3. QED
      BY <1>2, <2>1, <3>1, <3>2 DEF WorkflowControl, RunMoves
  <2>4. QED
    BY <2>2, <2>3 DEF Control
<1>5. QED
  BY <1>3, <1>4

LEMMA RetriedControl ==
    ASSUME IInv, RunMoves, NEW a \in Attempts, pc[a] \in Active, Retried(a)
    PROVE  Control'
<1>1. CASE Current(a)
  <2>. DEFINE pcs == [pc EXCEPT ![a] = "ended"]
  <2>1. pc \in [Attempts -> Places]
    BY TypeParts DEF IInv, ControlTypeOK
  <2>2. pcs \in [Attempts -> Places]
    BY <2>1 DEF Places
  <2>3. \A b \in Attempts : pcs[b] = pc[b] \/ (pc[b] \in Active /\ pcs[b] = "ended")
    BY <2>1
  <2>4. wf[a[1]] = "executing" /\ GiveUp(a[1], pcs) /\ a[1] \in Runs
    BY <1>1, AttemptsOf DEF Retried, Current
  <2>5. QED
    BY <2>2, <2>3, <2>4, GivenUp
<1>2. CASE ~Current(a)
  BY <1>2, OneAttempt DEF Retried, Plain
<1>3. QED
  BY <1>1, <1>2

LEMMA PlainSteps ==
    ASSUME IInv, RunMoves, NEW a \in Attempts,
           \/ EmitEvent(a) \/ CheckCancelled(a) \/ Save(a) \/ CallModel(a)
           \/ RequestApproval(a) \/ Announce(a) \/ Poll(a) \/ AwaitChild(a)
           \/ Finish(a) \/ Complete(a) \/ Fails(a) \/ Stops(a)
    PROVE  Control'
<1>1. pc[a] \in Active
  BY DEF EmitEvent, CheckCancelled, Save, CallModel, RequestApproval, Announce, Poll,
     AwaitChild, Finish, Complete, Fails, Stops, Calling, Active
<1>2. \/ \E where \in Plain : Goto(a, where)
      \/ Onward(a)
      \/ \E outcome \in Closed : Ends(a, outcome)
      \/ Retried(a)
  <2>1. CASE CallModel(a)
    BY <2>1, CallModelCases DEF Refused, Closed
  <2>2. CASE EmitEvent(a) \/ CheckCancelled(a) \/ Save(a) \/ Announce(a) \/ Poll(a) \/ AwaitChild(a)
    BY <2>2 DEF EmitEvent, CheckCancelled, Save, Announce, Poll, AwaitChild, Refused,
       Plain, Closed
  <2>3. CASE RequestApproval(a) \/ Finish(a) \/ Complete(a) \/ Fails(a) \/ Stops(a)
    BY <2>3 DEF RequestApproval, Finish, Complete, Fails, Stops, Refused, Plain, Closed
  <2>4. QED
    BY <2>1, <2>2, <2>3
<1>3. QED
  BY <1>1, <1>2, OneAttempt, RetriedControl

LEMMA BeginControl ==
    ASSUME IInv, RunMoves, NEW a \in Attempts, Begin(a)
    PROVE  Control'
<1>1. pc[a] = "begin" /\ pc[a] \in Active /\ ControlTypeOK
  BY TypeParts DEF Begin, Active, IInv
<1>2. CASE Ends(a, "cancelled")
  BY <1>1, <1>2, OneAttempt DEF Closed
<1>3. CASE ~Ends(a, "cancelled")
  <2>1. PICK p \in Programs[a[1]] : prog' = [prog EXCEPT ![a] = p]
    BY <1>3 DEF Begin
  <2>2. /\ prog'[a] = p /\ pc'[a] = "call" /\ attempt' = attempt /\ wf' = wf
        /\ \A b \in Attempts \ {a} :
              pc'[b] = pc[b] /\ at'[b] = at[b] /\ prog'[b] = prog[b]
    BY <1>1, <1>3, <2>1 DEF Begin, ControlTypeOK, wfVars
  <2>3. run[a[1]] # "absent" /\ a[1] \in Runs
    BY <1>1, AttemptsOf DEF IInv, Control, AttemptControl
  <2>4. AttemptControl(a)'
    BY <2>1, <2>2, <2>3 DEF AttemptControl, RunMoves
  <2>5. \A b \in Attempts \ {a} : AttemptControl(b)'
    BY <2>2, OtherAttempt
  <2>6. \A r \in Runs : WorkflowControl(r)'
    BY <1>1, <2>2, WorkflowsKept
  <2>7. QED
    BY <2>4, <2>5, <2>6 DEF Control
<1>4. QED
  BY <1>2, <1>3

LEMMA DelegationControl ==
    ASSUME IInv, RunMoves, NEW a \in Attempts,
           AdmitChild(a) \/ CreateChild(a) \/ StartChild(a)
    PROVE  Control'
<1>. DEFINE c == Call(a).arg
<1>1. /\ pc[a] \in Active /\ ControlTypeOK /\ DbTypeOK /\ AttemptControl(a)
      /\ at[a] \in DOMAIN prog[a] /\ Call(a).do = "delegate"
  BY TypeParts DEF AdmitChild, CreateChild, StartChild, Calling, Call, Active, IInv, Control,
     AttemptControl
<1>2. c \in Runs
  BY <1>1, DelegatedTo DEF IInv
<1>3. CASE Ends(a, "failed")
  BY <1>1, <1>3, OneAttempt DEF Closed
<1>4. CASE ~Ends(a, "failed")
  <2>1. /\ pc'[a] \in {"admitted", "starting", "awaiting"}
        /\ at' = at /\ prog' = prog /\ attempt' = attempt
        /\ \A b \in Attempts \ {a} : pc'[b] = pc[b]
        /\ \A r \in Runs :
              wf'[r] = wf[r] \/ (StartChild(a) /\ r = c /\ wf[r] = "absent" /\ wf'[r] = "created")
    BY <1>1, <1>4 DEF AdmitChild, CreateChild, StartChild, Refused, Goto, ControlTypeOK, wfVars
  <2>2. Call(a)' = Call(a)
    BY <2>1 DEF Call
  <2>3. pc'[a] = "admitted" => AdmitChild(a) /\ Attenuated(a[1], c)
    BY <1>1, <1>4 DEF AdmitChild, CreateChild, StartChild, Refused, Goto, ControlTypeOK
  <2>4. \A x \in Resources : consumed[a[1]][x] \in Nat /\ Limits[a[1]][x] \in Nat /\ Limits[c][x] \in Nat
    BY <1>1, <1>2, AttemptsOf, ConstantsAssumption DEF DbTypeOK
  <2>5. pc'[a] = "admitted" => \A x \in Resources : Limits[c][x] <= Limits[a[1]][x]
    BY <2>3, <2>4 DEF Attenuated
  <2>6. StartChild(a) => run[c] # "absent"
    BY <1>1 DEF StartChild, AttemptControl
  <2>7. pc'[a] # "admitted" => run'[c] # "absent"
    <3>1. CASE AdmitChild(a)
      BY <1>1, <1>4, <3>1 DEF AdmitChild, Goto, ControlTypeOK
    <3>2. CASE CreateChild(a)
      BY <1>1, <1>2, <1>4, <3>2 DEF CreateChild, Refused, DbTypeOK, dbVars
    <3>3. CASE StartChild(a)
      BY <1>2, <2>6, <3>3 DEF RunMoves
    <3>4. QED
      BY <3>1, <3>2, <3>3
  <2>8. run'[a[1]] # "absent"
    BY <1>1, AttemptsOf DEF AttemptControl, RunMoves
  <2>9. AttemptControl(a)'
    BY <1>1, <2>1, <2>2, <2>5, <2>7, <2>8 DEF AttemptControl
  <2>10. \A b \in Attempts \ {a} : AttemptControl(b)'
    BY <2>1, OtherAttempt
  <2>11. \A r \in Runs : WorkflowControl(r)'
    BY <1>1, <2>1, <2>6, WorkflowsKept
  <2>12. QED
    BY <2>9, <2>10, <2>11 DEF Control
<1>5. QED
  BY <1>3, <1>4

\* A workflow that is started, or that begins its first attempt.
LEMMA StartControl ==
    ASSUME IInv, RunMoves, NEW r \in Runs, StartWorkflow(r) \/ RunWorkflow(r)
    PROVE  Control'
<1>1. ControlTypeOK /\ WorkflowControl(r) /\ <<r, 1>> \in Attempts /\ 1 \in 1 .. MaxAttempts
      /\ AttemptControl(<<r, 1>>) /\ UNCHANGED <<at, prog, attempt>>
  <2>1. 1 \in 1 .. MaxAttempts
    BY ConstantsAssumption
  <2>2. <<r, 1>> \in Attempts
    BY <2>1 DEF Attempts
  <2>3. UNCHANGED <<at, prog, attempt>>
    BY DEF StartWorkflow, RunWorkflow, attVars
  <2>4. QED
    BY <2>1, <2>2, <2>3, TypeParts DEF IInv, Control
<1>2. /\ run[r] # "absent" /\ wf[r] \in {"absent", "created"}
      /\ \A s \in Runs \ {r} : wf'[s] = wf[s]
      /\ \A b \in Attempts \ {<<r, 1>>} : pc'[b] = pc[b]
      /\ pc'[<<r, 1>>] = pc[<<r, 1>>] \/ (pc'[<<r, 1>>] = "begin" /\ wf'[r] = "executing")
  BY <1>1 DEF StartWorkflow, RunWorkflow, ControlTypeOK, WorkflowControl, attVars
<1>3. pc[<<r, 1>>] = "none" /\ at[<<r, 1>>] = 1
  BY <1>1, <1>2 DEF WorkflowControl, AttemptControl
<1>4. run'[r] # "absent"
  BY <1>2 DEF RunMoves
<1>5. AttemptControl(<<r, 1>>)'
  <2>1. CASE pc'[<<r, 1>>] = pc[<<r, 1>>]
    BY <1>1, <2>1, OtherAttempt
  <2>2. CASE pc'[<<r, 1>>] = "begin"
    BY <1>1, <1>3, <1>4, <2>2 DEF AttemptControl
  <2>3. QED
    BY <1>2, <2>1, <2>2
<1>6. \A b \in Attempts \ {<<r, 1>>} : AttemptControl(b)'
  BY <1>1, <1>2, OtherAttempt
<1>7. ASSUME NEW s \in Runs
      PROVE  WorkflowControl(s)'
  <2>1. WorkflowControl(s)
    BY DEF IInv, Control
  <2>2. ASSUME NEW k \in 1 .. MaxAttempts,
               k > attempt'[s] \/ wf'[s] \in {"absent", "created"}
        PROVE  pc'[<<s, k>>] = "none"
    <3>1. pc[<<s, k>>] = "none" /\ <<s, k>> \in Attempts
      BY <1>1, <1>2, <2>1, <2>2 DEF WorkflowControl, Attempts
    <3>2. CASE <<s, k>> # <<r, 1>>
      BY <1>2, <3>1, <3>2
    <3>3. CASE <<s, k>> = <<r, 1>>
      <4>1. s = r /\ k = 1 /\ attempt'[r] \in 1 .. MaxAttempts
        BY <1>1, <3>3 DEF ControlTypeOK
      <4>2. ~(k > attempt'[r])
        BY <4>1, ConstantsAssumption
      <4>3. QED
        BY <1>2, <1>3, <2>2, <3>3, <4>1, <4>2
    <3>4. QED
      BY <3>2, <3>3
  <2>3. wf'[s] # "absent" => run'[s] # "absent"
    BY <1>2, <1>4, <2>1 DEF WorkflowControl, RunMoves
  <2>4. QED
    BY <2>2, <2>3 DEF WorkflowControl
<1>8. QED
  BY <1>5, <1>6, <1>7 DEF Control

\* The steps that leave attempts and workflows alone.
LEMMA IdleControl ==
    ASSUME IInv, RunMoves, UNCHANGED <<attVars, wf, attempt>>
    PROVE  Control'
<1>1. \A b \in Attempts : AttemptControl(b)'
  BY OtherAttempt DEF attVars
<1>2. \A r \in Runs : WorkflowControl(r)'
  BY DEF IInv, Control, WorkflowControl, RunMoves, attVars
<1>3. QED
  BY <1>1, <1>2 DEF Control

LEMMA InitControl == Init => Control
BY ConstantsAssumption DEF Init, Control, AttemptControl, WorkflowControl, Attempts, Active

LEMMA ControlStep == IInv /\ [Next]_vars => IInv'
<1>1. SUFFICES ASSUME IInv, [Next]_vars
               PROVE  Control'
  BY TypeStep DEF IInv
<1>2. RunMoves
  BY <1>1, RunMovesStep
<1>3. ASSUME NEW a \in Attempts, Step(a) \/ Fails(a) \/ Stops(a)
      PROVE  Control'
  BY <1>1, <1>2, <1>3, PlainSteps, BeginControl, DelegationControl DEF Step
<1>4. ASSUME NEW r \in Runs, StartWorkflow(r) \/ RunWorkflow(r)
      PROVE  Control'
  BY <1>1, <1>2, <1>4, StartControl
<1>5. ASSUME NEW r \in Runs, TimesOut(r)
      PROVE  Control'
  <2>1. pc \in [Attempts -> Places] /\ wf[r] = "executing" /\ GiveUp(r, pc)
    BY <1>1, <1>5, TypeParts DEF IInv, ControlTypeOK, TimesOut
  <2>2. QED
    BY <1>1, <1>2, <2>1, GivenUp
<1>6. ASSUME NEW r \in Runs,
             Cancel(r) \/ Signal(r) \/ \E verdict \in Verdicts : Decide(r, verdict)
      PROVE  Control'
  <2>1. UNCHANGED <<attVars, wf, attempt>>
    BY <1>6 DEF Cancel, Signal, Decide, wfVars
  <2>2. QED
    BY <1>1, <1>2, <2>1, IdleControl
<1>7. CASE UNCHANGED vars
  BY <1>1, <1>2, <1>7, IdleControl DEF vars, wfVars
<1>8. QED
  BY <1>1, <1>3, <1>4, <1>5, <1>6, <1>7 DEF Next

LEMMA ControlInvariant == Spec => []IInv
<1>1. Init => IInv
  BY InitType, InitControl DEF IInv
<1>2. QED
  BY <1>1, ControlStep, PTL DEF Spec

-----------------------------------------------------------------------------
(***************************************************************************)
(* Cancellation and delegation.                                            *)
(***************************************************************************)
\* A cancelled run stays cancelled (CancelledIsFinal), whatever its attempts, its
\* approvers and its children still do.
THEOREM CancelledStays == Spec => CancelledIsFinal
<1>. DEFINE Kept == \A r \in Runs : run[r] = "CANCELLED" => run'[r] = "CANCELLED"
<1>1. IInv /\ [Next]_vars => Kept
  BY RunMovesStep DEF RunMoves
<1>2. IInv /\ [Next]_vars => [Kept]_vars
  BY <1>1
<1>. HIDE DEF Kept
<1>3. Spec => [][Kept]_vars
  BY <1>2, ControlInvariant, PTL DEF Spec
<1>4. QED
  BY <1>3 DEF Kept, CancelledIsFinal

\* A child never has more than its parent (ChildIsAttenuated), although the check and
\* the insertion are two transactions and are repeated.
THEOREM ChildrenAreAttenuated == Spec => []ChildIsAttenuated
<1>1. Init => ChildIsAttenuated
  BY DEF Init, ChildIsAttenuated
<1>2. IInv /\ ChildIsAttenuated /\ [Next]_vars => ChildIsAttenuated'
  <2>1. SUFFICES ASSUME IInv, ChildIsAttenuated, [Next]_vars,
                        NEW c \in Runs, NEW x \in Resources,
                        Parent[c] # None, run'[c] # "absent"
                 PROVE  Limits[c][x] <= Limits[Parent[c]][x]
    BY DEF ChildIsAttenuated
  <2>2. CASE run[c] # "absent"
    BY <2>1, <2>2 DEF ChildIsAttenuated
  <2>3. CASE run[c] = "absent"
    <3>1. PICK a \in Attempts : CreateChild(a) /\ c = Call(a).arg
      BY <2>1, <2>3, RunMovesStep DEF RunMoves
    <3>2. AttemptControl(a) /\ pc[a] = "admitted"
      BY <2>1, <3>1 DEF IInv, Control, CreateChild
    <3>3. Parent[c] = a[1] /\ Limits[c][x] <= Limits[a[1]][x]
      BY <2>1, <3>1, <3>2, DelegatedTo DEF IInv, AttemptControl
    <3>4. QED
      BY <3>3
  <2>4. QED
    BY <2>2, <2>3
<1>3. QED
  BY <1>1, <1>2, ControlInvariant, PTL DEF Spec

-----------------------------------------------------------------------------
(***************************************************************************)
(* Approvals.                                                              *)
(***************************************************************************)
\* A verdict is not taken back.
LEMMA VerdictsStay ==
    ASSUME TypeOK, [Next]_vars, NEW r \in Runs, approval[r] \in Verdicts
    PROVE  approval'[r] \in Verdicts
<1>0. approval \in [Runs -> {None, "PENDING"} \cup Verdicts] /\ approval[r] # "PENDING"
  BY DEF TypeOK, Verdicts
<1>1. ASSUME NEW a \in Attempts, RequestApproval(a), approval' # approval
      PROVE  approval'[r] \in Verdicts
  <2>1. approval[a[1]] = None /\ approval' = [approval EXCEPT ![a[1]] = "PENDING"]
    BY <1>1 DEF RequestApproval, Refused, dbVars
  <2>2. None \notin Verdicts
    BY ConstantsAssumption DEF Verdicts
  <2>3. QED
    BY <1>0, <2>1, <2>2
<1>2. ASSUME NEW s \in Runs, NEW verdict \in Verdicts, Decide(s, verdict)
      PROVE  approval'[r] \in Verdicts
  BY <1>0, <1>2 DEF Decide
<1>3. ASSUME NEW a \in Attempts, Step(a), ~RequestApproval(a)
      PROVE  UNCHANGED approval
  <2>1. CASE CallModel(a)
    BY <2>1, CallModelCases DEF Refused, dbVars
  <2>2. CASE ~CallModel(a)
    BY <1>3, <2>2 DEF Step, Begin, EmitEvent, CheckCancelled, Save, Announce, Poll, AdmitChild,
       CreateChild, StartChild, AwaitChild, Finish, Complete, Refused, dbVars
  <2>3. QED
    BY <2>1, <2>2
<1>4. ASSUME NEW a \in Attempts, Fails(a) \/ Stops(a)
      PROVE  UNCHANGED approval
  BY <1>4 DEF Fails, Stops, dbVars
<1>5. ASSUME NEW s \in Runs,
             StartWorkflow(s) \/ RunWorkflow(s) \/ TimesOut(s) \/ Cancel(s) \/ Signal(s)
      PROVE  UNCHANGED approval
  BY <1>5 DEF StartWorkflow, RunWorkflow, TimesOut, Cancel, Signal, dbVars
<1>6. CASE UNCHANGED vars
  BY <1>6 DEF vars, dbVars
<1>7. QED
  BY <1>1, <1>2, <1>3, <1>4, <1>5, <1>6 DEF Next

\* How an attempt goes on: it stays at its call, passes one that is no approval or a
\* decided one, or begins a program.
LEMMA AttemptMoves ==
    ASSUME IInv, [Next]_vars, NEW b \in Attempts
    PROVE  \/ at'[b] = at[b] /\ prog'[b] = prog[b]
           \/ /\ at'[b] = at[b] + 1 /\ prog'[b] = prog[b]
              /\ Call(b).do = "approval" => approval[b[1]] \in Verdicts
           \/ at'[b] = 1
<1>. DEFINE Moves == \/ at'[b] = at[b] /\ prog'[b] = prog[b]
                     \/ /\ at'[b] = at[b] + 1 /\ prog'[b] = prog[b]
                        /\ Call(b).do = "approval" => approval[b[1]] \in Verdicts
                     \/ at'[b] = 1
<1>1. ControlTypeOK
  BY TypeParts DEF IInv
<1>2. ASSUME at' = at, prog' = prog
      PROVE  Moves
  BY <1>2
<1>3. ASSUME NEW a \in Attempts, Onward(a), Call(a).do = "approval" => approval[a[1]] \in Verdicts
      PROVE  Moves
  BY <1>1, <1>3 DEF Onward, ControlTypeOK
<1>4. ASSUME NEW a \in Attempts,
             \/ EmitEvent(a) \/ CheckCancelled(a) \/ Save(a) \/ CallModel(a) \/ Poll(a) \/ AwaitChild(a)
      PROVE  Moves
  <2>1. (Onward(a) /\ (Call(a).do = "approval" => approval[a[1]] \in Verdicts)) \/ (at' = at /\ prog' = prog)
    <3>1. CASE EmitEvent(a) \/ CheckCancelled(a) \/ Save(a)
      BY <3>1 DEF EmitEvent, CheckCancelled, Save, Calling, Call, Refused, Ends
    <3>2. CASE CallModel(a)
      <4>1. Call(a).do = "model"
        BY <3>2 DEF CallModel, Calling, Call
      <4>2. Onward(a) \/ Ends(a, "failed") \/ Retried(a)
        BY <3>2, CallModelCases DEF Refused
      <4>3. QED
        BY <4>1, <4>2 DEF Ends, Retried, Goto, GiveUp
    <3>3. CASE Poll(a)
      BY <3>3 DEF Poll, Ends
    <3>4. CASE AwaitChild(a)
      <4>1. Call(a).do = "delegate"
        BY <3>4 DEF AwaitChild, IInv, Control, AttemptControl
      <4>2. QED
        BY <3>4, <4>1 DEF AwaitChild, Ends
    <3>5. QED
      BY <1>4, <3>1, <3>2, <3>3, <3>4
  <2>2. QED
    BY <1>2, <1>3, <2>1
<1>5. ASSUME NEW a \in Attempts, Begin(a)
      PROVE  Moves
  <2>1. at' = at /\ (prog' = prog \/ (at[a] = 1 /\ \A c \in Attempts \ {a} : prog'[c] = prog[c]))
    BY <1>1, <1>5 DEF Begin, Ends, IInv, Control, AttemptControl, ControlTypeOK
  <2>2. QED
    BY <2>1
<1>6. ASSUME NEW a \in Attempts,
             \/ RequestApproval(a) \/ Announce(a) \/ AdmitChild(a) \/ CreateChild(a)
             \/ StartChild(a) \/ Finish(a) \/ Complete(a) \/ Fails(a) \/ Stops(a)
      PROVE  at' = at /\ prog' = prog
  BY <1>6 DEF RequestApproval, Announce, AdmitChild, CreateChild, StartChild, Finish, Complete,
     Fails, Stops, Refused, Goto, Ends, Retried, GiveUp
<1>7. ASSUME NEW r \in Runs,
             \/ StartWorkflow(r) \/ RunWorkflow(r) \/ TimesOut(r) \/ Cancel(r) \/ Signal(r)
             \/ \E verdict \in Verdicts : Decide(r, verdict)
      PROVE  at' = at /\ prog' = prog
  BY <1>7 DEF StartWorkflow, RunWorkflow, TimesOut, Cancel, Signal, Decide, GiveUp, attVars
<1>8. CASE UNCHANGED vars
  BY <1>8 DEF vars, attVars
<1>9. QED
  BY <1>2, <1>4, <1>5, <1>6, <1>7, <1>8 DEF Next, Step

\* No attempt gets past an undecided approval (ApprovalGates).
THEOREM ApprovalsGate == Spec => []ApprovalGates
<1>1. Init => ApprovalGates
  BY DEF Init, ApprovalGates
<1>2. IInv /\ ApprovalGates /\ [Next]_vars => ApprovalGates'
  <2>1. SUFFICES ASSUME IInv, ApprovalGates, [Next]_vars, NEW b \in Attempts,
                        NEW i \in DOMAIN prog'[b], i < at'[b], prog'[b][i].do = "approval"
                 PROVE  approval'[b[1]] \in Verdicts
    BY DEF ApprovalGates
  <2>2. b[1] \in Runs /\ at[b] \in Nat \ {0}
    BY <2>1, AttemptsOf, TypeParts DEF IInv, ControlTypeOK
  <2>3. i \in Nat \ {0}
    BY <2>1, TypeStep, TypePartsPrime DEF IInv, ControlTypeOK
  <2>4. CASE at'[b] = 1
    BY <2>1, <2>3, <2>4
  <2>5. ASSUME prog'[b] = prog[b], i < at[b]
        PROVE  approval[b[1]] \in Verdicts
    BY <2>1, <2>5 DEF ApprovalGates
  <2>6. ASSUME prog'[b] = prog[b], at'[b] = at[b] + 1, ~(i < at[b]),
               Call(b).do = "approval" => approval[b[1]] \in Verdicts
        PROVE  approval[b[1]] \in Verdicts
    <3>1. i = at[b]
      BY <2>1, <2>2, <2>3, <2>6
    <3>2. QED
      BY <2>1, <2>6, <3>1 DEF Call
  <2>7. CASE approval[b[1]] \in Verdicts
    BY <2>1, <2>2, <2>7, VerdictsStay DEF IInv
  <2>8. QED
    BY <2>1, <2>4, <2>5, <2>6, <2>7, AttemptMoves
<1>3. QED
  BY <1>1, <1>2, ControlInvariant, PTL DEF Spec

-----------------------------------------------------------------------------
(***************************************************************************)
(* What the database holds is paid for.                                    *)
(***************************************************************************)
\* The price of each kind of call, in what EffectsAreCharged counts.
LEMMA Prices ==
    /\ Cost("model")["model_calls"] = 1 /\ Cost("model")["child_agents"] = 0
    /\ Cost("model")["tool_calls"] = 0 /\ Cost("model")["bytes"] = 0
    /\ Cost("delegate")["child_agents"] = 1 /\ Cost("delegate")["model_calls"] = 0
    /\ Cost("delegate")["tool_calls"] = 0 /\ Cost("delegate")["bytes"] = 0
    /\ \A kind \in {"checkpoint", "artifact", "tool"} :
          /\ Cost(kind)["model_calls"] = 0 /\ Cost(kind)["child_agents"] = 0
          /\ Cost(kind)["tool_calls"] = IF kind = "tool" THEN 1 ELSE 0
          /\ Cost(kind)["bytes"] = IF kind = "tool" THEN 0 ELSE 1
BY DEF Cost, Metered, Resources

LEMMA PricesWithTokens ==
    \A n : \A x \in {"model_calls", "child_agents", "tool_calls", "bytes"} :
        WithTokens(Cost("model"), n)[x] = Cost("model")[x]
BY DEF WithTokens, Cost, Resources

SameRuns == \A c \in Runs : run'[c] = "absent" <=> run[c] = "absent"

\* A step leaves effects and charges alone, or it saves, asks a model, or inserts a
\* child, and charges for that.
Saves(a) ==
    /\ Call(a) \in Calls
    /\ Call(a).do \in {"checkpoint", "artifact", "tool"}
    /\ Charge(a[1], Cost(Call(a).do))
    /\ rows' = [rows EXCEPT ![a[1]] = @ \cup {Call(a)}]
    /\ UNCHANGED models /\ SameRuns

Asks(a) ==
    /\ \E amount \in {Cost("model")} \cup {WithTokens(Cost("model"), n) : n \in Tokens} :
          Charge(a[1], amount)
    /\ models' = [models EXCEPT ![a[1]] = @ + 1]
    /\ UNCHANGED rows /\ SameRuns

Inserts(a, c) ==
    /\ Parent[c] = a[1]
    /\ run[c] = "absent"
    /\ run' = [run EXCEPT ![c] = "PENDING"]
    /\ Charge(a[1], Cost("delegate"))
    /\ UNCHANGED <<rows, models>>

LEMMA EffectMoves ==
    ASSUME IInv, [Next]_vars
    PROVE  \/ UNCHANGED <<consumed, rows, models>> /\ SameRuns
           \/ \E a \in Attempts : Saves(a) \/ Asks(a)
           \/ \E a \in Attempts, c \in Runs : Inserts(a, c)
<1>. DEFINE Moves == \/ UNCHANGED <<consumed, rows, models>> /\ SameRuns
                     \/ \E a \in Attempts : Saves(a) \/ Asks(a)
                     \/ \E a \in Attempts, c \in Runs : Inserts(a, c)
<1>1. RunMoves /\ ControlTypeOK /\ DbTypeOK
  BY RunMovesStep, TypeParts DEF IInv
<1>2. (\A a \in Attempts : ~CreateChild(a)) => SameRuns
  BY <1>1 DEF RunMoves, SameRuns
<1>3. UNCHANGED run => SameRuns
  BY DEF SameRuns
<1>4. ASSUME NEW a \in Attempts, Save(a)
      PROVE  Moves
  <2>1. CASE Refused(a)
    BY <1>3, <2>1 DEF Refused, dbVars
  <2>2. CASE ~Refused(a)
    <3>1. Call(a) \in Calls
      BY <1>1, <1>4, CallType DEF Save, Calling
    <3>2. Saves(a)
      BY <1>3, <1>4, <2>2, <3>1 DEF Save, Saves, Calling, Call
    <3>3. QED
      BY <3>2
  <2>3. QED
    BY <2>1, <2>2
<1>5. ASSUME NEW a \in Attempts, CallModel(a)
      PROVE  Moves
  BY <1>3, <1>5, CallModelCases DEF Refused, Asks, dbVars
<1>6. ASSUME NEW a \in Attempts, CreateChild(a)
      PROVE  Moves
  <2>1. CASE UNCHANGED dbVars
    BY <1>3, <2>1 DEF dbVars
  <2>2. CASE ~UNCHANGED dbVars
    <3>1. AttemptControl(a) /\ pc[a] = "admitted"
      BY <1>6 DEF IInv, Control, CreateChild
    <3>2. Call(a).arg \in Runs /\ Parent[Call(a).arg] = a[1]
      BY <3>1, DelegatedTo DEF IInv, AttemptControl
    <3>3. Inserts(a, Call(a).arg)
      BY <1>6, <2>2, <3>2 DEF CreateChild, Inserts, Refused
    <3>4. QED
      BY <3>2, <3>3
  <2>3. QED
    BY <2>1, <2>2
<1>7. ASSUME NEW a \in Attempts, Begin(a) \/ RequestApproval(a) \/ Finish(a)
      PROVE  Moves
  <2>1. UNCHANGED <<consumed, rows, models>>
    BY <1>7 DEF Begin, RequestApproval, Finish, Refused, dbVars
  <2>2. a[1] \in Runs /\ run[a[1]] # "absent"
    BY <1>7, AttemptsOf DEF IInv, Control, AttemptControl, Begin, RequestApproval, Finish,
       Calling, Active
  <2>3. UNCHANGED run \/ \E status \in {"RUNNING", "WAITING", "SUCCEEDED"} : run' = [run EXCEPT ![a[1]] = status]
    BY <1>7 DEF Begin, RequestApproval, Finish, Refused, dbVars
  <2>4. SameRuns
    BY <1>1, <2>2, <2>3 DEF SameRuns, DbTypeOK
  <2>5. QED
    BY <2>1, <2>4
<1>8. ASSUME NEW a \in Attempts,
             \/ EmitEvent(a) \/ CheckCancelled(a) \/ Announce(a) \/ Poll(a) \/ AdmitChild(a)
             \/ StartChild(a) \/ AwaitChild(a) \/ Complete(a) \/ Fails(a) \/ Stops(a)
      PROVE  Moves
  BY <1>3, <1>8 DEF EmitEvent, CheckCancelled, Announce, Poll, AdmitChild, StartChild,
     AwaitChild, Complete, Fails, Stops, dbVars
<1>9. ASSUME NEW r \in Runs,
             StartWorkflow(r) \/ RunWorkflow(r) \/ TimesOut(r) \/ Signal(r)
      PROVE  Moves
  BY <1>3, <1>9 DEF StartWorkflow, RunWorkflow, TimesOut, Signal, dbVars
<1>10. ASSUME NEW r \in Runs, NEW verdict \in Verdicts, Decide(r, verdict)
      PROVE  Moves
  BY <1>1, <1>10 DEF Decide, SameRuns, DbTypeOK, Verdicts
<1>11. ASSUME NEW r \in Runs, Cancel(r)
      PROVE  Moves
  BY <1>1, <1>11, DescendantsExist DEF Cancel, SameRuns, DbTypeOK, Terminal
<1>12. CASE UNCHANGED vars
  BY <1>3, <1>12 DEF vars, dbVars
<1>13. QED
  BY <1>4, <1>5, <1>6, <1>7, <1>8, <1>9, <1>10, <1>11, <1>12 DEF Next, Step

Of(r, kinds) == {c \in rows[r] : c.do \in kinds}

FiniteRows == \A r \in Runs : IsFiniteSet(rows[r])

\* EffectsAreCharged, run by run.
RunIsCharged(r) ==
    /\ consumed[r]["model_calls"] = models[r]
    /\ consumed[r]["child_agents"] = Cardinality(Children(r))
    /\ consumed[r]["tool_calls"] >= Cardinality(Of(r, {"tool"}))
    /\ consumed[r]["bytes"] >= Cardinality(Of(r, {"checkpoint", "artifact"}))

LEMMA ChargedRuns == EffectsAreCharged <=> \A r \in Runs : RunIsCharged(r)
BY DEF EffectsAreCharged, RunIsCharged, Of

LEMMA ChargedRunsPrime == EffectsAreCharged' <=> \A r \in Runs : RunIsCharged(r)'
BY DEF EffectsAreCharged, RunIsCharged, Of

LEMMA ChildrenKept ==
    ASSUME SameRuns, NEW r
    PROVE  Children(r)' = Children(r)
BY DEF SameRuns, Children

\* A row more is one more of its kind at most.
LEMMA OneMoreRow ==
    ASSUME NEW S, IsFiniteSet(S), NEW call, NEW kinds,
           NEW Before, \A c : c \in Before <=> c \in S /\ c.do \in kinds,
           NEW After, \A c : c \in After <=> (c \in S \/ c = call) /\ c.do \in kinds
    PROVE  /\ Cardinality(Before) \in Nat /\ Cardinality(After) \in Nat
           /\ Cardinality(After) <= Cardinality(Before) + (IF call.do \in kinds THEN 1 ELSE 0)
<1>1. IsFiniteSet(Before)
  <2>1. Before \in SUBSET S
    OBVIOUS
  <2>2. QED
    BY <2>1, FS_Subset
<1>2. Cardinality(Before) \in Nat
  BY <1>1, FS_CardinalityType
<1>3. CASE call.do \in kinds
  <2>1. After = Before \cup {call}
    BY <1>3
  <2>2. Cardinality(After) = IF call \in Before THEN Cardinality(Before) ELSE Cardinality(Before) + 1
    BY <1>1, <2>1, FS_AddElement
  <2>3. QED
    BY <1>2, <1>3, <2>2
<1>4. CASE call.do \notin kinds
  <2>1. After = Before
    BY <1>4
  <2>2. Cardinality(After) = Cardinality(Before)
    BY <2>1
  <2>3. Cardinality(After) <= Cardinality(Before) + 0
    BY <1>2, <2>2
  <2>4. QED
    BY <1>2, <1>4, <2>2, <2>3
<1>5. QED
  BY <1>3, <1>4

LEMMA SavesCharged ==
    ASSUME IInv, FiniteRows, EffectsAreCharged, NEW a \in Attempts, Saves(a)
    PROVE  FiniteRows' /\ EffectsAreCharged'
<1>. DEFINE u == a[1]
<1>1. DbTypeOK /\ u \in Runs
  BY TypeParts, AttemptsOf DEF IInv
<1>2. /\ rows'[u] = rows[u] \cup {Call(a)}
      /\ \A s \in Runs \ {u} : rows'[s] = rows[s]
      /\ models' = models
  BY <1>1 DEF Saves, DbTypeOK
<1>3. FiniteRows'
  <2>1. IsFiniteSet(rows'[u])
    BY <1>1, <1>2, FS_AddElement DEF FiniteRows
  <2>2. QED
    BY <1>2, <2>1 DEF FiniteRows
<1>4. Cost(Call(a).do) \in [Resources -> Nat]
  BY CostType
<1>5. /\ \A x \in Resources : consumed'[u][x] = consumed[u][x] + Cost(Call(a).do)[x]
      /\ \A s \in Runs \ {u} : consumed'[s] = consumed[s]
  BY <1>1, <1>4, ChargeType DEF Saves
<1>6. \A x \in Resources : consumed[u][x] \in Nat
  BY <1>1 DEF DbTypeOK
<1>7. RunIsCharged(u)
  BY <1>1, ChargedRuns
<1>8. SameRuns
  BY DEF Saves
<1>9. PICK kind \in {"checkpoint", "artifact", "tool"} : kind = Call(a).do
  BY DEF Saves
<1>10. consumed'[u]["model_calls"] = models'[u] /\ consumed'[u]["child_agents"] = Cardinality(Children(u)')
  BY <1>2, <1>5, <1>6, <1>7, <1>8, <1>9, ChildrenKept, Prices DEF RunIsCharged, Resources
<1>11. ASSUME NEW kinds
       PROVE  /\ Cardinality(Of(u, kinds)) \in Nat /\ Cardinality(Of(u, kinds)') \in Nat
              /\ Cardinality(Of(u, kinds)') <= Cardinality(Of(u, kinds)) + (IF kind \in kinds THEN 1 ELSE 0)
  <2>1. IsFiniteSet(rows[u])
    BY <1>1 DEF FiniteRows
  <2>2. /\ \A c : c \in Of(u, kinds) <=> c \in rows[u] /\ c.do \in kinds
        /\ \A c : c \in Of(u, kinds)' <=> (c \in rows[u] \/ c = Call(a)) /\ c.do \in kinds
    BY <1>2 DEF Of
  <2>3. /\ Cardinality(Of(u, kinds)) \in Nat /\ Cardinality(Of(u, kinds)') \in Nat
        /\ Cardinality(Of(u, kinds)')
              <= Cardinality(Of(u, kinds)) + (IF Call(a).do \in kinds THEN 1 ELSE 0)
    BY <2>1, <2>2, OneMoreRow
  <2>4. QED
    BY <1>9, <2>3
<1>12. consumed'[u]["tool_calls"] >= Cardinality(Of(u, {"tool"})')
  <2>1. consumed'[u]["tool_calls"] = consumed[u]["tool_calls"] + (IF kind = "tool" THEN 1 ELSE 0)
    BY <1>5, <1>9, Prices DEF Resources
  <2>2. consumed[u]["tool_calls"] \in Nat /\ consumed[u]["tool_calls"] >= Cardinality(Of(u, {"tool"}))
    BY <1>6, <1>7 DEF RunIsCharged, Resources
  <2>3. QED
    BY <1>11, <2>1, <2>2
<1>13. consumed'[u]["bytes"] >= Cardinality(Of(u, {"checkpoint", "artifact"})')
  <2>1. consumed'[u]["bytes"] = consumed[u]["bytes"] + (IF kind = "tool" THEN 0 ELSE 1)
    BY <1>5, <1>9, Prices DEF Resources
  <2>2. consumed[u]["bytes"] \in Nat /\ consumed[u]["bytes"] >= Cardinality(Of(u, {"checkpoint", "artifact"}))
    BY <1>6, <1>7 DEF RunIsCharged, Resources
  <2>3. QED
    BY <1>9, <1>11, <2>1, <2>2
<1>14. RunIsCharged(u)'
  BY <1>10, <1>12, <1>13 DEF RunIsCharged
<1>15. ASSUME NEW s \in Runs, s # u
       PROVE  RunIsCharged(s)'
  <2>1. RunIsCharged(s) /\ Children(s)' = Children(s)
    BY <1>8, ChargedRuns, ChildrenKept
  <2>2. \A kinds : Of(s, kinds)' = Of(s, kinds)
    BY <1>2, <1>15 DEF Of
  <2>3. QED
    BY <1>2, <1>5, <1>15, <2>1, <2>2 DEF RunIsCharged
<1>16. QED
  BY <1>3, <1>14, <1>15, ChargedRunsPrime

LEMMA AsksCharged ==
    ASSUME IInv, FiniteRows, EffectsAreCharged, NEW a \in Attempts, Asks(a)
    PROVE  FiniteRows' /\ EffectsAreCharged'
<1>. DEFINE u == a[1]
<1>1. DbTypeOK /\ u \in Runs /\ SameRuns /\ rows' = rows
  BY TypeParts, AttemptsOf DEF IInv, Asks
<1>2. PICK amount \in {Cost("model")} \cup {WithTokens(Cost("model"), n) : n \in Tokens} :
         Charge(u, amount)
  BY DEF Asks
<1>3. amount \in [Resources -> Nat]
  BY <1>2, CostType, ConstantsAssumption
<1>4. /\ amount["model_calls"] = 1 /\ amount["child_agents"] = 0
      /\ amount["tool_calls"] = 0 /\ amount["bytes"] = 0
  BY <1>2, Prices, PricesWithTokens
<1>5. /\ \A x \in Resources : consumed'[u][x] = consumed[u][x] + amount[x]
      /\ \A s \in Runs \ {u} : consumed'[s] = consumed[s]
  BY <1>1, <1>2, <1>3, ChargeType
<1>6. /\ consumed[u]["model_calls"] \in Nat /\ consumed[u]["child_agents"] \in Nat
      /\ consumed[u]["tool_calls"] \in Nat /\ consumed[u]["bytes"] \in Nat
  BY <1>1 DEF DbTypeOK, Resources
<1>7. models'[u] = models[u] + 1 /\ \A s \in Runs \ {u} : models'[s] = models[s]
  BY <1>1 DEF Asks, DbTypeOK
<1>8. ASSUME NEW s \in Runs
      PROVE  RunIsCharged(s)'
  <2>1. RunIsCharged(s) /\ Children(s)' = Children(s) /\ \A kinds : Of(s, kinds)' = Of(s, kinds)
    BY <1>1, ChargedRuns, ChildrenKept DEF Of
  <2>2. CASE s = u
    <3>1. /\ consumed'[u]["model_calls"] = consumed[u]["model_calls"] + 1
          /\ consumed'[u]["child_agents"] = consumed[u]["child_agents"]
          /\ consumed'[u]["tool_calls"] = consumed[u]["tool_calls"]
          /\ consumed'[u]["bytes"] = consumed[u]["bytes"]
      BY <1>4, <1>5, <1>6 DEF Resources
    <3>2. QED
      BY <1>7, <2>1, <2>2, <3>1 DEF RunIsCharged
  <2>3. CASE s # u
    BY <1>5, <1>7, <2>1, <2>3 DEF RunIsCharged
  <2>4. QED
    BY <2>2, <2>3
<1>9. QED
  BY <1>1, <1>8, ChargedRunsPrime DEF FiniteRows

LEMMA InsertsCharged ==
    ASSUME IInv, FiniteRows, EffectsAreCharged, NEW a \in Attempts, NEW c \in Runs, Inserts(a, c)
    PROVE  FiniteRows' /\ EffectsAreCharged'
<1>. DEFINE u == a[1]
<1>1. DbTypeOK /\ u \in Runs /\ rows' = rows /\ models' = models
  BY TypeParts, AttemptsOf DEF IInv, Inserts
<1>2. Cost("delegate") \in [Resources -> Nat] /\ Charge(u, Cost("delegate"))
  BY CostType DEF Inserts
<1>3. /\ \A x \in Resources : consumed'[u][x] = consumed[u][x] + Cost("delegate")[x]
      /\ \A s \in Runs \ {u} : consumed'[s] = consumed[s]
  BY <1>1, <1>2, ChargeType
<1>4. /\ consumed[u]["model_calls"] \in Nat /\ consumed[u]["child_agents"] \in Nat
      /\ consumed[u]["tool_calls"] \in Nat /\ consumed[u]["bytes"] \in Nat
  BY <1>1 DEF DbTypeOK, Resources
<1>5. /\ consumed'[u]["model_calls"] = consumed[u]["model_calls"]
      /\ consumed'[u]["child_agents"] = consumed[u]["child_agents"] + 1
      /\ consumed'[u]["tool_calls"] = consumed[u]["tool_calls"]
      /\ consumed'[u]["bytes"] = consumed[u]["bytes"]
  BY <1>3, <1>4, Prices DEF Resources
<1>6. Children(u)' = Children(u) \cup {c}
  BY <1>1 DEF Inserts, Children, DbTypeOK
<1>7. IsFiniteSet(Children(u)) /\ c \notin Children(u)
  BY ConstantsAssumption, FS_Subset DEF Inserts, Children
<1>8. Cardinality(Children(u)') = Cardinality(Children(u)) + 1
  BY <1>6, <1>7, FS_AddElement
<1>9. ASSUME NEW s \in Runs
      PROVE  RunIsCharged(s)'
  <2>1. RunIsCharged(s) /\ \A kinds : Of(s, kinds)' = Of(s, kinds)
    BY <1>1, ChargedRuns DEF Of
  <2>2. CASE s = u
    BY <1>1, <1>5, <1>8, <2>1, <2>2 DEF RunIsCharged
  <2>3. CASE s # u
    <3>1. Children(s)' = Children(s)
      BY <1>1, <2>3 DEF Inserts, Children, DbTypeOK
    <3>2. QED
      BY <1>1, <1>3, <2>1, <2>3, <3>1 DEF RunIsCharged
  <2>4. QED
    BY <2>2, <2>3
<1>10. QED
  BY <1>1, <1>9, ChargedRunsPrime DEF FiniteRows

\* What a run has left in the database was paid for (EffectsAreCharged): its model
\* calls and children once each, its other rows at least once.
THEOREM EffectsAreAlwaysCharged == Spec => []EffectsAreCharged
<1>1. Init => FiniteRows /\ EffectsAreCharged
  <2>1. SUFFICES ASSUME Init
                 PROVE  FiniteRows /\ EffectsAreCharged
    OBVIOUS
  <2>2. FiniteRows
    BY <2>1, FS_EmptySet DEF Init, FiniteRows
  <2>3. ASSUME NEW r \in Runs
        PROVE  RunIsCharged(r)
    <3>1. Children(r) = {}
      BY <2>1, <2>3, ConstantsAssumption DEF Init, Children
    <3>2. \A kinds : Of(r, kinds) = {}
      BY <2>1, <2>3 DEF Init, Of
    <3>3. models[r] = 0 /\ \A x \in Resources : consumed[r][x] = 0
      BY <2>1, <2>3 DEF Init
    <3>4. QED
      BY <3>1, <3>2, <3>3, FS_EmptySet DEF RunIsCharged, Resources
  <2>4. QED
    BY <2>2, <2>3, ChargedRuns
<1>2. IInv /\ FiniteRows /\ EffectsAreCharged /\ [Next]_vars => FiniteRows' /\ EffectsAreCharged'
  <2>1. SUFFICES ASSUME IInv, FiniteRows, EffectsAreCharged, [Next]_vars
                 PROVE  FiniteRows' /\ EffectsAreCharged'
    OBVIOUS
  <2>2. CASE UNCHANGED <<consumed, rows, models>> /\ SameRuns
    <3>1. ASSUME NEW s \in Runs
          PROVE  RunIsCharged(s)'
      BY <2>1, <2>2, ChargedRuns, ChildrenKept DEF RunIsCharged, Of
    <3>2. QED
      BY <2>1, <2>2, <3>1, ChargedRunsPrime DEF FiniteRows
  <2>3. QED
    BY <2>1, <2>2, EffectMoves, SavesCharged, AsksCharged, InsertsCharged
<1>3. QED
  BY <1>1, <1>2, ControlInvariant, PTL DEF Spec
=============================================================================
