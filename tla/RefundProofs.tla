---------------------------- MODULE RefundProofs ----------------------------
(***************************************************************************)
(* Proofs about the refund workflow, for any number of runs, refunds,      *)
(* requests, slots, retries and faults.  The properties are about rows     *)
(* that overlapping attempts of several transactions write.  They hold     *)
(* because an attempt of the commit carries the decision that its workflow *)
(* accepted, which never changes again, and because a refund that an       *)
(* attempt has seen paid stays paid.                                       *)
(***************************************************************************)
EXTENDS Refund, TLAPS

Steps == {"begin", "insert", "project", "report"}

Accepted == Payloads \cup {None}
RequestSteps == {"idle", "update", "closed"}
RequestAnswers == {"none", "accepted", "refused"}

RequestOK ==
    /\ request \in [Requests -> [step : RequestSteps, payload : Accepted,
                                 answer : RequestAnswers]]
    /\ \A q \in Requests : request[q].step = "update" => request[q].payload \in Payloads

Tries == 0 .. MaxAttempts - 1
Places == Slots \cup {None, Lost}

WorkflowRecord ==
    [phase : Phases, tries : Tries, slot : Places, decision : Accepted]

\* A workflow has a decision once it has left the wait, and not before.
WorkflowOK ==
    /\ workflow \in [Runs -> WorkflowRecord]
    /\ \A r \in Runs :
          /\ workflow[r].phase \in {"evidence", "request", "wait"} => workflow[r].decision = None
          /\ workflow[r].phase \in {"commit", "notify"} => workflow[r].decision \in Payloads

AttemptTypeOK ==
    attempt \in [Slots -> [run : Runs, kind : Transactions, step : Steps, paid : BOOLEAN,
                           decision : Payloads \cup {None}] \cup {None}]

\* What an attempt of the commit knows is so: also one that is given up on.
AttemptsAreTrue ==
    \A s \in Slots : attempt[s] # None =>
        /\ attempt[s].kind = "commit" =>
              /\ attempt[s].decision \in Payloads
              /\ attempt[s].decision = workflow[attempt[s].run].decision
        /\ attempt[s].paid => projection[RefundOf[attempt[s].run]] # None

RowsOK ==
    /\ approval \in [Runs -> {None, "PENDING", "APPROVED", "REJECTED"}]
    /\ decided \in [Runs -> Payloads \cup {None}]
    /\ projection \in [Refunds -> Runs \cup {None}]
    /\ status \in [Runs -> {"PENDING", "WAITING", "SUCCEEDED", "REJECTED"}]
    /\ notice \in [Runs -> {"none", "denied", "sent"}]
    /\ faults \in 0 .. MaxFaults

IInv ==
    /\ RequestOK /\ WorkflowOK /\ AttemptTypeOK /\ RowsOK
    /\ AttemptsAreTrue
    /\ DecisionIsWhole

LEMMA IInvTypeOK == IInv => TypeOK
BY DEF IInv, TypeOK, RequestOK, RequestSteps, RequestAnswers, WorkflowOK, WorkflowRecord, Tries,
       Places, Accepted, RowsOK

-----------------------------------------------------------------------------
(***************************************************************************)
(* What most steps leave alone.                                            *)
(***************************************************************************)
\* No workflow accepts a decision.
SameDecisions == \A r \in Runs : workflow'[r].decision = workflow[r].decision

\* An attempt ends, or only its step changes.
SameAttempts ==
    \A s \in Slots : attempt'[s] # None =>
        /\ attempt[s] # None
        /\ attempt'[s].run = attempt[s].run
        /\ attempt'[s].kind = attempt[s].kind
        /\ attempt'[s].decision = attempt[s].decision
        /\ attempt'[s].paid = attempt[s].paid

SameRows == UNCHANGED <<approval, decided, projection>>

LEMMA SameKeepsAttempts ==
    ASSUME IInv, SameDecisions, SameAttempts, AttemptTypeOK', projection' = projection
    PROVE  AttemptsAreTrue'
<1>1. ASSUME NEW s \in Slots, attempt'[s] # None
      PROVE  attempt'[s].run \in Runs
  BY <1>1 DEF AttemptTypeOK
<1>. QED  BY <1>1 DEF IInv, AttemptsAreTrue, SameDecisions, SameAttempts

LEMMA SameKeepsWhole ==
    ASSUME IInv, SameDecisions, SameRows
    PROVE  DecisionIsWhole'
BY DEF IInv, DecisionIsWhole, SameDecisions, SameRows

LEMMA FaultOK ==
    ASSUME IInv, Fault \/ UNCHANGED faults
    PROVE  faults' \in 0 .. MaxFaults
BY RefundAssumption DEF IInv, RowsOK, Fault

\* The phase, the tries and the slot of one workflow change, its decision does
\* not.
LEMMA MovedOK ==
    ASSUME IInv, NEW r \in Runs,
           workflow' \in [Runs -> WorkflowRecord],
           \A x \in Runs \ {r} : workflow'[x] = workflow[x],
           workflow'[r].decision = workflow[r].decision,
           workflow'[r].phase \in {"evidence", "request", "wait"} => workflow[r].decision = None,
           workflow'[r].phase \in {"commit", "notify"} => workflow[r].decision \in Payloads
    PROVE  WorkflowOK' /\ SameDecisions
BY DEF IInv, WorkflowOK, SameDecisions

LEMMA RetriedOK ==
    ASSUME IInv, NEW r \in Runs, workflow' = Retried(r)
    PROVE  WorkflowOK' /\ SameDecisions
<1> DEFINE w == workflow[r]
<1>1. /\ workflow \in [Runs -> WorkflowRecord]
      /\ w.phase \in {"evidence", "request", "wait"} => w.decision = None
      /\ w.phase \in {"commit", "notify"} => w.decision \in Payloads
  BY DEF IInv, WorkflowOK
<1>2. CASE w.tries + 1 < MaxAttempts
  <2>1. w.tries + 1 \in Tries
    BY <1>1, <1>2, RefundAssumption DEF WorkflowRecord, Tries
  <2>2. workflow' = [workflow EXCEPT ![r].tries = w.tries + 1, ![r].slot = None]
    BY <1>1, <1>2 DEF Retried
  <2>3. workflow' \in [Runs -> WorkflowRecord]
    <3>1. None \in Places
      BY DEF Places
    <3> HIDE DEF w
    <3>. QED  BY <1>1, <2>1, <2>2, <3>1 DEF WorkflowRecord
  <2>4. /\ \A x \in Runs \ {r} : workflow'[x] = workflow[x]
        /\ workflow'[r].decision = w.decision
        /\ workflow'[r].phase = w.phase
    BY <1>1, <2>2 DEF WorkflowRecord
  <2>. QED  BY <1>1, <2>3, <2>4, MovedOK
<1>3. CASE ~(w.tries + 1 < MaxAttempts)
  <2>1. PICK phase \in Phases, tries \in Tries, slot \in Places :
           phase = "failed" /\ tries = 0 /\ slot = None
    BY RefundAssumption DEF Phases, Tries, Places
  <2>2. workflow' = [workflow EXCEPT ![r].phase = phase, ![r].tries = tries, ![r].slot = slot]
    BY <1>3, <2>1 DEF Retried
  <2>3. workflow' \in [Runs -> WorkflowRecord]
    BY <1>1, <2>2 DEF WorkflowRecord
  <2>4. /\ \A x \in Runs \ {r} : workflow'[x] = workflow[x]
        /\ workflow'[r].decision = w.decision
        /\ workflow'[r].phase = "failed"
    BY <1>1, <2>1, <2>2 DEF WorkflowRecord
  <2>. QED  BY <2>3, <2>4, MovedOK
<1>. QED  BY <1>2, <1>3

LEMMA AnsweredOK ==
    ASSUME IInv, NEW r \in Runs, workflow' = Answered(r)
    PROVE  WorkflowOK' /\ SameDecisions
<1>1. workflow \in [Runs -> WorkflowRecord]
  BY DEF IInv, WorkflowOK
<1>2. /\ NextPhase(r) \in {"wait", "notify", "completed"}
      /\ NextPhase(r) = "wait" => workflow[r].decision = None
      /\ NextPhase(r) = "notify" => workflow[r].decision \in Payloads
  BY DEF IInv, NextPhase, WorkflowOK
<1>3. NextPhase(r) \in Phases
  BY <1>2 DEF Phases
<1>4. PICK phase \in Phases, tries \in Tries, slot \in Places :
         phase = NextPhase(r) /\ tries = 0 /\ slot = None
  BY <1>3, RefundAssumption DEF Tries, Places
<1>5. workflow' = [workflow EXCEPT ![r].phase = phase, ![r].tries = tries, ![r].slot = slot]
  BY <1>4 DEF Answered
<1>6. workflow' \in [Runs -> WorkflowRecord]
  BY <1>1, <1>5 DEF WorkflowRecord
<1>7. /\ \A x \in Runs \ {r} : workflow'[x] = workflow[x]
      /\ workflow'[r].decision = workflow[r].decision
      /\ workflow'[r].phase = phase
  BY <1>1, <1>5 DEF WorkflowRecord
<1>. QED  BY <1>2, <1>4, <1>6, <1>7, MovedOK

LEMMA UnchangedWorkflowOK ==
    ASSUME IInv, UNCHANGED workflow
    PROVE  WorkflowOK' /\ SameDecisions
BY DEF IInv, WorkflowOK, SameDecisions

LEMMA UnchangedAttemptOK ==
    ASSUME IInv, UNCHANGED attempt
    PROVE  AttemptTypeOK' /\ SameAttempts
BY DEF IInv, AttemptTypeOK, SameAttempts

\* The attempt in a slot ends.
LEMMA EndedAttemptOK ==
    ASSUME IInv, NEW s \in Slots, attempt' = [attempt EXCEPT ![s] = None]
    PROVE  AttemptTypeOK' /\ SameAttempts
BY DEF IInv, AttemptTypeOK, SameAttempts

\* The attempt in a slot goes on to another step.
LEMMA SteppedAttemptOK ==
    ASSUME IInv, NEW s \in Slots, attempt[s] # None, NEW step \in Steps, To(s, step)
    PROVE  AttemptTypeOK' /\ SameAttempts
BY DEF IInv, AttemptTypeOK, SameAttempts, To

\* A transaction that is rolled back.
LEMMA FailsOK ==
    ASSUME IInv, NEW s \in Slots, attempt[s] # None, Fails(s)
    PROVE  WorkflowOK' /\ SameDecisions /\ AttemptTypeOK' /\ SameAttempts
<1>1. Run(s) \in Runs
  BY DEF IInv, AttemptTypeOK, Run
<1>. QED  BY <1>1, RetriedOK, UnchangedWorkflowOK, EndedAttemptOK DEF Fails

\* A step that changes no row of a decision and no request.
LEMMA QuietIInv ==
    ASSUME IInv, UNCHANGED request, WorkflowOK', SameDecisions, AttemptTypeOK', SameAttempts,
           SameRows, RowsOK'
    PROVE  IInv'
<1>1. RequestOK'
  BY DEF IInv, RequestOK
<1>2. AttemptsAreTrue'
  BY SameKeepsAttempts DEF SameRows
<1>. QED  BY <1>1, <1>2, SameKeepsWhole DEF IInv

-----------------------------------------------------------------------------
(***************************************************************************)
(* The steps of the workflow and of Temporal.                              *)
(***************************************************************************)
LEMMA InitIInv == Init => IInv
<1> SUFFICES ASSUME Init PROVE IInv
  OBVIOUS
<1>1. RequestOK /\ AttemptTypeOK /\ AttemptsAreTrue
  BY DEF Init, RequestOK, RequestSteps, RequestAnswers, Accepted, AttemptTypeOK, AttemptsAreTrue
<1>2. WorkflowOK
  <2>1. "evidence" \in Phases /\ 0 \in Tries /\ None \in Places /\ None \in Accepted
    BY RefundAssumption DEF Phases, Tries, Places, Accepted
  <2>2. workflow \in [Runs -> WorkflowRecord]
    BY <2>1 DEF Init, WorkflowRecord
  <2>. QED  BY <2>2 DEF Init, WorkflowOK
<1>3. RowsOK
  BY RefundAssumption DEF Init, RowsOK
<1>4. DecisionIsWhole
  BY DEF Init, DecisionIsWhole
<1>. QED  BY <1>1, <1>2, <1>3, <1>4 DEF IInv

LEMMA GatherIInv ==
    ASSUME IInv, NEW r \in Runs, Gather(r)
    PROVE  IInv'
<1>1. workflow \in [Runs -> WorkflowRecord] /\ workflow[r].decision = None
  BY DEF IInv, WorkflowOK, Gather
<1>2. PICK phase \in Phases :
         /\ phase \in {"request", "failed"}
         /\ workflow' = [workflow EXCEPT ![r].phase = phase]
  BY DEF Gather, Phases
<1>3. workflow' \in [Runs -> WorkflowRecord]
  BY <1>1, <1>2 DEF WorkflowRecord
<1>4. /\ \A x \in Runs \ {r} : workflow'[x] = workflow[x]
      /\ workflow'[r].decision = workflow[r].decision
      /\ workflow'[r].phase = phase
  BY <1>1, <1>2 DEF WorkflowRecord
<1>5. WorkflowOK' /\ SameDecisions
  BY <1>1, <1>2, <1>3, <1>4, MovedOK
<1>6. AttemptTypeOK' /\ SameAttempts
  BY UnchangedAttemptOK DEF Gather
<1>7. SameRows /\ RowsOK' /\ UNCHANGED request
  BY FaultOK DEF Gather, SameRows, IInv, RowsOK
<1>. QED  BY <1>5, <1>6, <1>7, QuietIInv

\* A new attempt of the commit takes its decision from the workflow.
LEMMA ScheduleIInv ==
    ASSUME IInv, NEW r \in Runs, NEW s \in Slots, Schedule(r, s)
    PROVE  IInv'
<1>1. workflow \in [Runs -> WorkflowRecord]
  BY DEF IInv, WorkflowOK
<1>2. PICK new : new = [run |-> r, kind |-> workflow[r].phase, step |-> "begin", paid |-> FALSE,
                        decision |-> workflow[r].decision]
  OBVIOUS
<1>3. PICK place \in Places : place = s
  BY DEF Places
<1>4. workflow' = [workflow EXCEPT ![r].slot = place] /\ attempt' = [attempt EXCEPT ![s] = new]
  BY <1>2, <1>3 DEF Schedule
<1>5. workflow' \in [Runs -> WorkflowRecord]
  BY <1>1, <1>4 DEF WorkflowRecord
<1>6. /\ \A x \in Runs \ {r} : workflow'[x] = workflow[x]
      /\ workflow'[r].decision = workflow[r].decision
      /\ workflow'[r].phase = workflow[r].phase
  BY <1>1, <1>4 DEF WorkflowRecord
<1>7. WorkflowOK' /\ SameDecisions
  BY <1>5, <1>6, MovedOK DEF IInv, WorkflowOK
<1>8. AttemptTypeOK'
  <2>1. workflow[r].decision \in Payloads \cup {None} /\ workflow[r].phase \in Transactions
    BY <1>1 DEF WorkflowRecord, Accepted, Schedule
  <2>2. new \in [run : Runs, kind : Transactions, step : Steps, paid : BOOLEAN,
                  decision : Payloads \cup {None}]
    BY <1>2, <2>1 DEF Steps
  <2>. QED  BY <1>4, <2>2 DEF IInv, AttemptTypeOK
<1>9. AttemptsAreTrue'
  <2> SUFFICES ASSUME NEW t \in Slots, attempt'[t] # None
               PROVE  /\ attempt'[t].kind = "commit" =>
                            /\ attempt'[t].decision \in Payloads
                            /\ attempt'[t].decision = workflow'[attempt'[t].run].decision
                      /\ attempt'[t].paid => projection'[RefundOf[attempt'[t].run]] # None
    BY DEF AttemptsAreTrue
  <2>1. CASE t = s
    <3>1. attempt'[t] = new
      BY <1>4, <2>1 DEF IInv, AttemptTypeOK
    <3>2. new.kind = "commit" => workflow[r].decision \in Payloads
      BY <1>2 DEF IInv, WorkflowOK
    <3>. QED  BY <1>2, <1>6, <3>1, <3>2
  <2>2. CASE t # s
    <3>1. attempt'[t] = attempt[t] /\ projection' = projection
      BY <1>4, <2>2 DEF IInv, AttemptTypeOK, Schedule
    <3>2. attempt[t].run \in Runs
      BY <3>1 DEF IInv, AttemptTypeOK
    <3>. QED  BY <1>7, <3>1, <3>2 DEF IInv, AttemptsAreTrue, SameDecisions
  <2>. QED  BY <2>1, <2>2
<1>10. SameRows /\ RowsOK' /\ RequestOK'
  BY DEF Schedule, SameRows, IInv, RowsOK, RequestOK
<1>. QED  BY <1>7, <1>8, <1>9, <1>10, SameKeepsWhole DEF IInv

LEMMA TimeOutIInv ==
    ASSUME IInv, NEW r \in Runs, TimeOut(r)
    PROVE  IInv'
<1>1. WorkflowOK' /\ SameDecisions
  BY RetriedOK DEF TimeOut
<1>2. AttemptTypeOK' /\ SameAttempts
  BY UnchangedAttemptOK DEF TimeOut
<1>3. SameRows /\ RowsOK' /\ UNCHANGED request
  BY FaultOK DEF TimeOut, SameRows, IInv, RowsOK
<1>. QED  BY <1>1, <1>2, <1>3, QuietIInv

-----------------------------------------------------------------------------
(***************************************************************************)
(* The steps of the attempts.                                              *)
(***************************************************************************)
LEMMA RunType ==
    ASSUME IInv, NEW s \in Slots, attempt[s] # None
    PROVE  Run(s) \in Runs /\ RefundOf[Run(s)] \in Refunds
BY RefundAssumption DEF IInv, AttemptTypeOK, Run

LEMMA FailIInv ==
    ASSUME IInv, NEW s \in Slots, Fail(s)
    PROVE  IInv'
<1>1. SameRows /\ RowsOK' /\ UNCHANGED request
  BY FaultOK DEF Fail, SameRows, IInv, RowsOK
<1>. QED  BY <1>1, FailsOK, QuietIInv DEF Fail

LEMMA ReportIInv ==
    ASSUME IInv, NEW s \in Slots, Report(s)
    PROVE  IInv'
<1>1. WorkflowOK' /\ SameDecisions
  BY RunType, AnsweredOK, UnchangedWorkflowOK DEF Report
<1>2. AttemptTypeOK' /\ SameAttempts
  BY EndedAttemptOK DEF Report
<1>3. SameRows /\ RowsOK' /\ UNCHANGED request
  BY DEF Report, SameRows, IInv, RowsOK
<1>. QED  BY <1>1, <1>2, <1>3, QuietIInv

LEMMA CrashIInv ==
    ASSUME IInv, NEW s \in Slots, Crash(s)
    PROVE  IInv'
<1>1. workflow \in [Runs -> WorkflowRecord] /\ Run(s) \in Runs
  BY RunType DEF IInv, WorkflowOK, Crash
<1>2. WorkflowOK' /\ SameDecisions
  <2>1. CASE Awaited(s)
    <3>1. PICK place \in Places : place = Lost
      BY DEF Places
    <3>2. workflow' = [workflow EXCEPT ![Run(s)].slot = place]
      BY <2>1, <3>1 DEF Crash
    <3>3. workflow' \in [Runs -> WorkflowRecord]
      BY <1>1, <3>2 DEF WorkflowRecord
    <3>4. /\ \A x \in Runs \ {Run(s)} : workflow'[x] = workflow[x]
          /\ workflow'[Run(s)].decision = workflow[Run(s)].decision
          /\ workflow'[Run(s)].phase = workflow[Run(s)].phase
      BY <1>1, <3>2 DEF WorkflowRecord
    <3>. QED  BY <1>1, <3>3, <3>4, MovedOK DEF IInv, WorkflowOK
  <2>. QED  BY <2>1, UnchangedWorkflowOK DEF Crash
<1>3. AttemptTypeOK' /\ SameAttempts
  BY EndedAttemptOK DEF Crash
<1>4. SameRows /\ RowsOK' /\ UNCHANGED request
  BY FaultOK DEF Crash, SameRows, IInv, RowsOK
<1>. QED  BY <1>2, <1>3, <1>4, QuietIInv

LEMMA BeginRequestIInv ==
    ASSUME IInv, NEW s \in Slots, BeginRequest(s)
    PROVE  IInv'
<1>1. attempt[s] # None /\ \E step \in Steps : To(s, step)
  BY DEF BeginRequest, At, Steps
<1>2. AttemptTypeOK' /\ SameAttempts
  BY <1>1, SteppedAttemptOK
<1>3. WorkflowOK' /\ SameDecisions
  BY UnchangedWorkflowOK DEF BeginRequest
<1>4. SameRows /\ RowsOK' /\ UNCHANGED request
  BY DEF BeginRequest, SameRows, IInv, RowsOK
<1>. QED  BY <1>2, <1>3, <1>4, QuietIInv

\* A request that is inserted belongs to a run that is not decided.
LEMMA InsertRequestIInv ==
    ASSUME IInv, NEW s \in Slots, InsertRequest(s)
    PROVE  IInv'
<1>1. attempt[s] # None /\ Run(s) \in Runs
  BY RunType DEF InsertRequest, At
<1>2. CASE approval[Run(s)] # None
  <2>1. Fails(s) /\ SameRows /\ RowsOK' /\ UNCHANGED request
    BY <1>2 DEF InsertRequest, SameRows, IInv, RowsOK
  <2>. QED  BY <1>1, <2>1, FailsOK, QuietIInv
<1>3. CASE approval[Run(s)] = None
  <2>1. /\ approval' = [approval EXCEPT ![Run(s)] = "PENDING"]
        /\ status' = [status EXCEPT ![Run(s)] = "WAITING"]
        /\ To(s, "report")
        /\ UNCHANGED <<workflow, request, decided, projection, notice, faults>>
    BY <1>3 DEF InsertRequest
  <2>2. AttemptTypeOK' /\ SameAttempts /\ WorkflowOK' /\ SameDecisions
    BY <1>1, <2>1, SteppedAttemptOK, UnchangedWorkflowOK DEF Steps
  <2>3. AttemptsAreTrue'
    BY <2>1, <2>2, SameKeepsAttempts
  <2>4. RowsOK' /\ RequestOK'
    BY <2>1 DEF IInv, RowsOK, RequestOK
  <2>5. DecisionIsWhole'
    <3>1. decided[Run(s)] = None
      BY <1>1, <1>3 DEF IInv, DecisionIsWhole
    <3>2. \A x \in Runs : approval'[x] = IF x = Run(s) THEN "PENDING" ELSE approval[x]
      BY <2>1 DEF IInv, RowsOK
    <3>3. \A f \in Refunds : projection[f] # None => projection[f] # Run(s)
      BY <1>3, RefundAssumption DEF IInv, DecisionIsWhole
    <3>4. \A f \in Refunds : projection[f] # None => projection[f] \in Runs
      BY DEF IInv, RowsOK
    <3>5. \A x \in Runs : decided'[x] = decided[x] /\ workflow'[x].decision = workflow[x].decision
      BY <2>1
    <3>. QED  BY <1>1, <2>1, <3>1, <3>2, <3>3, <3>4, <3>5, RefundAssumption DEF IInv, DecisionIsWhole
  <2>. QED  BY <2>2, <2>3, <2>4, <2>5 DEF IInv
<1>. QED  BY <1>2, <1>3

LEMMA BeginCommitIInv ==
    ASSUME IInv, NEW s \in Slots, BeginCommit(s)
    PROVE  IInv'
<1>1. attempt[s] # None /\ \E step \in Steps : To(s, step)
  BY DEF BeginCommit, At, Steps
<1>2. AttemptTypeOK' /\ SameAttempts
  BY <1>1, SteppedAttemptOK
<1>3. WorkflowOK' /\ SameDecisions
  BY UnchangedWorkflowOK DEF BeginCommit
<1>4. SameRows /\ RowsOK' /\ UNCHANGED request
  BY DEF BeginCommit, SameRows, IInv, RowsOK
<1>. QED  BY <1>2, <1>3, <1>4, QuietIInv

\* The attempt looks for a projection after the flush of the decision.
LEMMA InsertDecisionIInv ==
    ASSUME IInv, NEW s \in Slots, InsertDecision(s)
    PROVE  IInv'
<1>1. attempt[s] # None /\ Run(s) \in Runs
  BY RunType DEF InsertDecision, At
<1>2. SameRows /\ RowsOK' /\ UNCHANGED request
  BY DEF InsertDecision, SameRows, IInv, RowsOK
<1>3. CASE decided[Run(s)] # None
  BY <1>1, <1>2, <1>3, FailsOK, QuietIInv DEF InsertDecision
<1>4. CASE decided[Run(s)] = None
  <2>1. PICK seen \in BOOLEAN : seen = (projection[RefundOf[Run(s)]] # None)
    OBVIOUS
  <2>2. attempt' = [attempt EXCEPT ![s].step = "project", ![s].paid = seen]
    BY <1>4, <2>1 DEF InsertDecision
  <2>3. WorkflowOK' /\ SameDecisions
    BY <1>4, UnchangedWorkflowOK DEF InsertDecision
  <2>4. PICK old : /\ old = attempt[s]
                   /\ old \in [run : Runs, kind : Transactions, step : Steps, paid : BOOLEAN,
                               decision : Payloads \cup {None}]
    BY <1>1 DEF IInv, AttemptTypeOK
  <2>5. /\ attempt'[s] \in [run : Runs, kind : Transactions, step : Steps, paid : BOOLEAN,
                             decision : Payloads \cup {None}]
        /\ attempt'[s].run = old.run /\ attempt'[s].kind = old.kind
        /\ attempt'[s].decision = old.decision /\ attempt'[s].paid = seen
        /\ \A t \in Slots \ {s} : attempt'[t] = attempt[t]
    BY <2>2, <2>4 DEF IInv, AttemptTypeOK, Steps
  <2>6. AttemptTypeOK'
    BY <2>2, <2>5 DEF IInv, AttemptTypeOK
  <2>7. AttemptsAreTrue'
    <3> SUFFICES ASSUME NEW t \in Slots, attempt'[t] # None
                 PROVE  /\ attempt'[t].kind = "commit" =>
                              /\ attempt'[t].decision \in Payloads
                              /\ attempt'[t].decision = workflow'[attempt'[t].run].decision
                        /\ attempt'[t].paid => projection'[RefundOf[attempt'[t].run]] # None
      BY DEF AttemptsAreTrue
    <3>1. attempt'[t].run \in Runs
      BY <2>6 DEF AttemptTypeOK
    <3>2. projection' = projection
      BY <1>2 DEF SameRows
    <3>3. CASE t = s
      BY <1>1, <2>1, <2>3, <2>4, <2>5, <3>1, <3>2, <3>3
         DEF IInv, AttemptsAreTrue, SameDecisions, Run
    <3>4. CASE t # s
      BY <2>3, <2>5, <3>1, <3>2, <3>4 DEF IInv, AttemptsAreTrue, SameDecisions
    <3>. QED  BY <3>3, <3>4
  <2>8. RequestOK'
    BY <1>2 DEF IInv, RequestOK
  <2>. QED  BY <1>2, <2>3, <2>6, <2>7, <2>8, SameKeepsWhole DEF IInv
<1>. QED  BY <1>3, <1>4

LEMMA SendNoticeIInv ==
    ASSUME IInv, NEW s \in Slots, SendNotice(s)
    PROVE  IInv'
<1>1. attempt[s] # None
  BY DEF SendNotice, At
<1>2. SameRows /\ RowsOK' /\ UNCHANGED request
  BY DEF SendNotice, SameRows, IInv, RowsOK
<1>3. CASE Fails(s)
  BY <1>1, <1>2, <1>3, FailsOK, QuietIInv
<1>4. CASE To(s, "report") /\ UNCHANGED workflow
  <2>1. AttemptTypeOK' /\ SameAttempts /\ WorkflowOK' /\ SameDecisions
    BY <1>1, <1>4, SteppedAttemptOK, UnchangedWorkflowOK DEF Steps
  <2>. QED  BY <1>2, <2>1, QuietIInv
<1>. QED  BY <1>3, <1>4 DEF SendNotice

\* The projection only grows, and by a run that is approved in the same step.
Grows(s, p) ==
    /\ projection' \in [Refunds -> Runs \cup {None}]
    /\ \A f \in Refunds : projection[f] # None => projection'[f] = projection[f]
    /\ \A f \in Refunds : projection'[f] # projection[f] =>
          f = RefundOf[Run(s)] /\ projection'[f] = Run(s) /\ p.decision = "APPROVED"
    /\ p.decision = "APPROVED" => projection'[RefundOf[Run(s)]] # None

\* A commit that goes through, with its payment or without one.
LEMMA RecordIInv ==
    ASSUME IInv, NEW s \in Slots, At(s, "commit", "project"), Record(s),
           Grows(s, attempt[s].decision), UNCHANGED <<request, notice, faults>>
    PROVE  IInv'
<1>1. attempt[s] # None /\ Run(s) \in Runs /\ RefundOf[Run(s)] \in Refunds
  BY RunType DEF At
<1>2. PICK p \in Payloads : p = attempt[s].decision /\ p = workflow[Run(s)].decision
  BY <1>1 DEF IInv, AttemptsAreTrue, At, Run
<1>3. p.decision \in {"APPROVED", "REJECTED"}
  BY RefundAssumption
<1>4. /\ decided' = [decided EXCEPT ![Run(s)] = p]
      /\ approval' = [approval EXCEPT ![Run(s)] = p.decision]
      /\ status' = [status EXCEPT ![Run(s)] =
                       IF p.decision = "APPROVED" THEN "SUCCEEDED" ELSE "REJECTED"]
      /\ To(s, "report")
      /\ UNCHANGED workflow
  BY <1>2 DEF Record
<1>5. AttemptTypeOK' /\ SameAttempts /\ WorkflowOK' /\ SameDecisions
  BY <1>1, <1>4, SteppedAttemptOK, UnchangedWorkflowOK DEF Steps
<1>6. AttemptsAreTrue'
  <2>1. ASSUME NEW t \in Slots, attempt'[t] # None
        PROVE  attempt'[t].run \in Runs /\ RefundOf[attempt'[t].run] \in Refunds
    BY <1>5, <2>1, RefundAssumption DEF AttemptTypeOK
  <2>. QED  BY <1>5, <2>1 DEF IInv, AttemptsAreTrue, SameDecisions, SameAttempts, Grows
<1>7. RowsOK' /\ RequestOK'
  BY <1>3, <1>4 DEF IInv, RowsOK, RequestOK, Grows
<1>8. DecisionIsWhole'
  <2>0. PICK r \in Runs, verdict \in {"APPROVED", "REJECTED"} : r = Run(s) /\ verdict = p.decision
    BY <1>1, <1>3
  <2>1. /\ decided' = [decided EXCEPT ![r] = p]
        /\ approval' = [approval EXCEPT ![r] = verdict]
        /\ p = workflow[r].decision /\ verdict = p.decision
    BY <1>2, <1>4, <2>0
  <2>r. /\ decided'[r] = p /\ approval'[r] = verdict
        /\ workflow'[r].decision = workflow[r].decision
    BY <1>4, <2>1 DEF IInv, RowsOK
  <2>x. \A x \in Runs \ {r} : /\ decided'[x] = decided[x] /\ approval'[x] = approval[x]
                               /\ workflow'[x].decision = workflow[x].decision
    BY <1>4, <2>1 DEF IInv, RowsOK
  <2>g. /\ verdict = "APPROVED" => projection'[RefundOf[r]] # None
        /\ \A f \in Refunds : projection[f] # None => projection'[f] = projection[f]
        /\ \A f \in Refunds : projection'[f] # projection[f] =>
              f = RefundOf[r] /\ projection'[f] = r /\ verdict = "APPROVED"
    BY <1>2, <2>0 DEF Grows
  <2>2. ASSUME NEW x \in Runs
        PROVE  /\ decided'[x] = None <=> approval'[x] \in {None, "PENDING"}
               /\ decided'[x] # None =>
                     /\ decided'[x] = workflow'[x].decision
                     /\ approval'[x] = decided'[x].decision
                     /\ approval'[x] = "APPROVED" => projection'[RefundOf[x]] # None
    <3>1. CASE x = r
      <4>1. verdict \notin {None, "PENDING"} /\ p # None
        BY RefundAssumption
      <4>. QED  BY <2>1, <2>r, <2>g, <3>1, <4>1
    <3>2. CASE x # r
      <4>1. RefundOf[x] \in Refunds
        BY RefundAssumption
      <4>2. /\ decided'[x] = decided[x] /\ approval'[x] = approval[x]
            /\ workflow'[x].decision = workflow[x].decision
            /\ projection[RefundOf[x]] # None => projection'[RefundOf[x]] # None
        BY <2>x, <2>g, <3>2, <4>1
      <4>. QED  BY <4>2 DEF IInv, DecisionIsWhole
    <3>. QED  BY <3>1, <3>2
  <2>3. ASSUME NEW f \in Refunds, projection'[f] # None
        PROVE  RefundOf[projection'[f]] = f /\ approval'[projection'[f]] = "APPROVED"
    <3>1. CASE projection'[f] # projection[f]
      BY <2>r, <2>g, <3>1
    <3>2. CASE projection'[f] = projection[f]
      <4>1. PICK x \in Runs : x = projection[f]
        BY <2>3, <3>2 DEF IInv, RowsOK
      <4>2. RefundOf[x] = f /\ approval[x] = "APPROVED"
        BY <2>3, <3>2, <4>1 DEF IInv, DecisionIsWhole
      <4>3. x = r => verdict = "APPROVED"
        <5>1. decided[x] # None
          BY <4>2, RefundAssumption DEF IInv, DecisionIsWhole
        <5>2. decided[x] = workflow[x].decision /\ approval[x] = decided[x].decision
          BY <5>1 DEF IInv, DecisionIsWhole
        <5>. QED  BY <2>1, <4>2, <5>2
      <4>4. approval'[x] = "APPROVED"
        BY <2>r, <2>x, <4>2, <4>3
      <4>. QED  BY <3>2, <4>1, <4>2, <4>4
    <3>. QED  BY <3>1, <3>2
  <2>. QED  BY <2>2, <2>3 DEF DecisionIsWhole
<1>. QED  BY <1>5, <1>6, <1>7, <1>8 DEF IInv

LEMMA CommitDecisionIInv ==
    ASSUME IInv, NEW s \in Slots, CommitDecision(s)
    PROVE  IInv'
<1>1. /\ At(s, "commit", "project") /\ attempt[s] # None
      /\ Run(s) \in Runs /\ RefundOf[Run(s)] \in Refunds
  BY RunType DEF CommitDecision, At
<1>2. projection \in [Refunds -> Runs \cup {None}]
  BY DEF IInv, RowsOK
<1>3. CASE ~Pays(s)
  <2>1. attempt[s].decision.decision = "APPROVED" => projection[RefundOf[Run(s)]] # None
    BY <1>1, <1>3 DEF Pays, IInv, AttemptsAreTrue, Run
  <2>2. Record(s) /\ UNCHANGED <<projection, request, notice, faults>>
    BY <1>3 DEF CommitDecision
  <2>. QED  BY <1>1, <1>2, <2>1, <2>2, RecordIInv DEF Grows
<1>4. CASE Pays(s) /\ projection[RefundOf[Run(s)]] = None
  <2>1. /\ projection' = [projection EXCEPT ![RefundOf[Run(s)]] = Run(s)]
        /\ Record(s) /\ UNCHANGED <<request, notice, faults>>
    BY <1>4 DEF CommitDecision
  <2>2. Grows(s, attempt[s].decision)
    BY <1>1, <1>2, <1>4, <2>1, RefundAssumption DEF Grows, Pays
  <2>. QED  BY <1>1, <2>1, <2>2, RecordIInv
<1>5. CASE Pays(s) /\ projection[RefundOf[Run(s)]] # None
  <2>1. Fails(s) /\ SameRows /\ UNCHANGED <<request, status, notice, faults>>
    BY <1>5 DEF CommitDecision, SameRows
  <2>2. RowsOK'
    BY <2>1 DEF IInv, RowsOK, SameRows
  <2>. QED  BY <1>1, <2>1, <2>2, FailsOK, QuietIInv
<1>. QED  BY <1>3, <1>4, <1>5

-----------------------------------------------------------------------------
(***************************************************************************)
(* The decision route.                                                     *)
(***************************************************************************)
LEMMA CloseOK ==
    ASSUME IInv, NEW q \in Requests, NEW answer \in {"accepted", "refused"}, Close(q, answer)
    PROVE  RequestOK'
<1>1. PICK step \in RequestSteps, payload \in Accepted, a \in RequestAnswers :
         step = "closed" /\ payload = None /\ a = answer
  BY DEF RequestSteps, Accepted, RequestAnswers
<1>2. request' = [request EXCEPT ![q].step = step, ![q].payload = payload, ![q].answer = a]
  BY <1>1 DEF Close
<1>3. request' \in [Requests -> [step : RequestSteps, payload : Accepted, answer : RequestAnswers]]
  BY <1>2 DEF IInv, RequestOK
<1>4. request'[q].step = step /\ \A x \in Requests \ {q} : request'[x] = request[x]
  BY <1>2 DEF IInv, RequestOK
<1>. QED  BY <1>1, <1>3, <1>4 DEF IInv, RequestOK

LEMMA CheckDecisionIInv ==
    ASSUME IInv, NEW q \in Requests, NEW p \in Payloads, CheckDecision(q, p)
    PROVE  IInv'
<1>1. RequestOK'
  <2>1. CASE \E answer \in {"accepted", "refused"} : Close(q, answer)
    BY <2>1, CloseOK
  <2>2. CASE request' = [request EXCEPT ![q].step = "update", ![q].payload = p]
    <3>1. PICK step \in RequestSteps, payload \in Accepted : step = "update" /\ payload = p
      BY DEF RequestSteps, Accepted
    <3>2. request' = [request EXCEPT ![q].step = step, ![q].payload = payload]
      BY <2>2, <3>1
    <3>3. request' \in [Requests -> [step : RequestSteps, payload : Accepted,
                                     answer : RequestAnswers]]
      BY <3>2 DEF IInv, RequestOK
    <3>4. request'[q].payload = p /\ \A x \in Requests \ {q} : request'[x] = request[x]
      BY <3>1, <3>2 DEF IInv, RequestOK
    <3>. QED  BY <3>3, <3>4 DEF IInv, RequestOK
  <2>. QED  BY <2>1, <2>2 DEF CheckDecision
<1>2. WorkflowOK' /\ SameDecisions /\ AttemptTypeOK' /\ SameAttempts
  BY UnchangedWorkflowOK, UnchangedAttemptOK DEF CheckDecision
<1>3. SameRows /\ RowsOK'
  BY DEF CheckDecision, SameRows, IInv, RowsOK
<1>4. AttemptsAreTrue'
  BY <1>2, <1>3, SameKeepsAttempts DEF SameRows
<1>. QED  BY <1>1, <1>2, <1>3, <1>4, SameKeepsWhole DEF IInv

\* A workflow that waits has no decision, so nothing speaks of one.
LEMMA AcceptIInv ==
    ASSUME IInv, NEW p \in Payloads, workflow[p.run].phase = "wait",
           workflow' = [workflow EXCEPT ![p.run].phase = "commit", ![p.run].decision = p],
           UNCHANGED <<attempt, approval, decided, projection, status, notice, faults>>,
           RequestOK'
    PROVE  IInv'
<1>1. PICK r \in Runs : r = p.run
  BY RefundAssumption
<1>2. workflow[r].decision = None
  BY <1>1 DEF IInv, WorkflowOK
<1>w. workflow \in [Runs -> WorkflowRecord]
  BY DEF IInv, WorkflowOK
<1>3. PICK phase \in Phases, d \in Accepted : phase = "commit" /\ d = p
  BY DEF Phases, Accepted
<1>4. workflow' = [workflow EXCEPT ![r].phase = phase, ![r].decision = d]
  BY <1>1, <1>3
<1>t. workflow' \in [Runs -> WorkflowRecord]
  <2>1. PICK mid : mid = [workflow EXCEPT ![r].phase = phase]
    OBVIOUS
  <2>2. mid \in [Runs -> WorkflowRecord]
    BY <1>w, <2>1 DEF WorkflowRecord
  <2>3. workflow' = [mid EXCEPT ![r].decision = d]
    BY <1>4, <2>1
  <2>. QED  BY <2>2, <2>3 DEF WorkflowRecord
<1>5. /\ \A x \in Runs \ {r} : workflow'[x] = workflow[x]
      /\ workflow'[r].phase = phase /\ workflow'[r].decision = d
  BY <1>w, <1>4 DEF WorkflowRecord
<1>6. WorkflowOK'
  BY <1>3, <1>t, <1>5 DEF IInv, WorkflowOK
<1>7. AttemptTypeOK'
  BY DEF IInv, AttemptTypeOK
<1>8. AttemptsAreTrue'
  <2>1. ASSUME NEW t \in Slots, attempt[t] # None, attempt[t].kind = "commit"
        PROVE  attempt[t].run \in Runs \ {r}
    BY <1>2, <2>1, RefundAssumption DEF IInv, AttemptsAreTrue, AttemptTypeOK
  <2>. QED  BY <1>5, <2>1 DEF IInv, AttemptsAreTrue
<1>9. DecisionIsWhole'
  <2>1. decided[r] = None
    BY <1>2 DEF IInv, DecisionIsWhole
  <2>2. \A x \in Runs : decided[x] # None => workflow'[x].decision = workflow[x].decision
    BY <1>5, <2>1
  <2>. QED  BY <2>2 DEF IInv, DecisionIsWhole
<1>10. RowsOK'
  BY DEF IInv, RowsOK
<1>. QED  BY <1>6, <1>7, <1>8, <1>9, <1>10 DEF IInv

LEMMA UpdateIInv ==
    ASSUME IInv, NEW q \in Requests, Update(q)
    PROVE  IInv'
<1>1. PICK p \in Payloads : p = request[q].payload
  BY DEF IInv, RequestOK, Update
<1>2. RequestOK'
  BY CloseOK DEF Update
<1>3. UNCHANGED <<attempt, approval, decided, projection, status, notice, faults>>
  BY DEF Update
<1>4. CASE UNCHANGED workflow
  <2>1. WorkflowOK' /\ SameDecisions /\ AttemptTypeOK' /\ SameAttempts
    BY <1>3, <1>4, UnchangedWorkflowOK, UnchangedAttemptOK
  <2>2. SameRows /\ RowsOK'
    BY <1>3 DEF SameRows, IInv, RowsOK
  <2>3. AttemptsAreTrue'
    BY <2>1, <2>2, SameKeepsAttempts DEF SameRows
  <2>. QED  BY <1>2, <2>1, <2>2, <2>3, SameKeepsWhole DEF IInv
<1>5. CASE /\ workflow[p.run].phase = "wait"
           /\ workflow' = [workflow EXCEPT ![p.run].phase = "commit", ![p.run].decision = p]
  BY <1>2, <1>3, <1>5, AcceptIInv
<1>. QED  BY <1>1, <1>4, <1>5 DEF Update

-----------------------------------------------------------------------------
LEMMA NextIInv == IInv /\ [Next]_vars => IInv'
<1> SUFFICES ASSUME IInv, [Next]_vars PROVE IInv'
  OBVIOUS
<1>1. ASSUME NEW q \in Requests, Update(q) \/ \E p \in Payloads : CheckDecision(q, p)
      PROVE  IInv'
  BY <1>1, UpdateIInv, CheckDecisionIInv
<1>2. ASSUME NEW r \in Runs, \/ Gather(r) \/ TimeOut(r)
                             \/ \E s \in Slots : Schedule(r, s)
      PROVE  IInv'
  BY <1>2, GatherIInv, TimeOutIInv, ScheduleIInv
<1>3. ASSUME NEW s \in Slots, Activity(s) PROVE IInv'
  BY <1>3, BeginRequestIInv, InsertRequestIInv, BeginCommitIInv, InsertDecisionIInv,
     CommitDecisionIInv, SendNoticeIInv, ReportIInv DEF Activity
<1>4. ASSUME NEW s \in Slots, Fail(s) \/ Crash(s) PROVE IInv'
  BY <1>4, FailIInv, CrashIInv
<1>5. CASE UNCHANGED vars
  <2>1. UNCHANGED <<request, workflow, attempt, approval, decided, projection, status,
                    notice, faults>>
    BY <1>5 DEF vars
  <2>2. RequestOK' /\ WorkflowOK' /\ AttemptTypeOK' /\ RowsOK'
    BY <2>1 DEF IInv, RequestOK, WorkflowOK, AttemptTypeOK, RowsOK
  <2>3. AttemptsAreTrue' /\ DecisionIsWhole'
    BY <2>1 DEF IInv, AttemptsAreTrue, DecisionIsWhole
  <2>. QED  BY <2>2, <2>3 DEF IInv
<1>. QED  BY <1>1, <1>2, <1>3, <1>4, <1>5 DEF Next

LEMMA Invariance == Spec => []IInv
BY InitIInv, NextIInv, PTL DEF Spec

-----------------------------------------------------------------------------
\* Type correctness of the refund model.
THEOREM TypeCorrect == Spec => []TypeOK
BY Invariance, IInvTypeOK, PTL

\* The rows of a decision agree with each other and with what the workflow
\* accepted, whichever attempts overlap and whichever run pays the refund.
THEOREM DecisionsAreWhole == Spec => []DecisionIsWhole
BY Invariance, PTL DEF IInv

\* A step never takes a refund from the run that paid it.
LEMMA NextKeepsPaid ==
    ASSUME IInv, [Next]_vars, NEW f \in Refunds, projection[f] # None
    PROVE  projection'[f] = projection[f]
<1>1. ASSUME NEW s \in Slots, CommitDecision(s) PROVE projection'[f] = projection[f]
  <2>1. Run(s) \in Runs /\ RefundOf[Run(s)] \in Refunds
    BY <1>1, RunType DEF CommitDecision, At
  <2>2. \/ UNCHANGED projection
        \/ /\ projection[RefundOf[Run(s)]] = None
           /\ projection' = [projection EXCEPT ![RefundOf[Run(s)]] = Run(s)]
    BY <1>1 DEF CommitDecision
  <2>. QED  BY <2>1, <2>2 DEF IInv, RowsOK
<1>2. CASE UNCHANGED projection
  BY <1>2
<1>3. ASSUME NEW s \in Slots, Activity(s), ~CommitDecision(s) PROVE UNCHANGED projection
  BY <1>3 DEF Activity, BeginRequest, InsertRequest, BeginCommit, InsertDecision, SendNotice,
              Report
<1>4. ASSUME NEW q \in Requests, Update(q) \/ \E p \in Payloads : CheckDecision(q, p)
      PROVE  UNCHANGED projection
  BY <1>4 DEF Update, CheckDecision
<1>5. ASSUME NEW r \in Runs, \/ Gather(r) \/ TimeOut(r)
                             \/ \E s \in Slots : Schedule(r, s)
      PROVE  UNCHANGED projection
  BY <1>5 DEF Gather, TimeOut, Schedule
<1>6. ASSUME NEW s \in Slots, Fail(s) \/ Crash(s) PROVE UNCHANGED projection
  BY <1>6 DEF Fail, Crash
<1>7. CASE UNCHANGED vars
  BY <1>7 DEF vars
<1>. QED  BY <1>1, <1>2, <1>3, <1>4, <1>5, <1>6, <1>7 DEF Next

\* The money of a refund moves once, for any number of runs that are approved
\* for it.
THEOREM RefundIsPaidOnce == Spec => RefundPaidOnce
<1> DEFINE Kept == \A f \in Refunds : projection[f] # None => projection'[f] = projection[f]
<1>1. IInv /\ [Next]_vars => Kept
  BY NextKeepsPaid
<1>2. RefundPaidOnce <=> [][Kept]_vars
  BY DEF RefundPaidOnce
<1> HIDE DEF Kept
<1>. QED  BY <1>1, <1>2, Invariance, PTL DEF Spec
=============================================================================
