----------------------- MODULE VendorOnboardingProofs -----------------------
(***************************************************************************)
(* Proofs about VendorOnboarding, for any number of runs, vendors and      *)
(* decisions, any retry limit and any number of faults, late commits and   *)
(* executions.                                                             *)
(*                                                                         *)
(* The invariant is the conjunction of the types, the safety properties    *)
(* and one fact about control: record_decision only ever runs with a       *)
(* decision, also in an attempt that has timed out.  An activity body      *)
(* either commits a decision or is quiet: it leaves decisions, listing and *)
(* notification alone and moves at most one approval, from absent to       *)
(* PENDING or from PENDING to CANCELLED.  Every fact below follows from    *)
(* that distinction.  The last part is about workflow ids that are         *)
(* executed once: what approvers are told is true and stays so.            *)
(***************************************************************************)
EXTENDS VendorOnboarding, TLAPS

DbTypeOK ==
    /\ run \in [Runs -> RunStatus]
    /\ vendor \in [Vendors -> {"SUBMITTED", "UNDER_REVIEW"} \cup Verdicts]
    /\ approval \in [Runs -> {None, "PENDING", "CANCELLED"} \cup Verdicts]
    /\ decisions \in [Runs -> SUBSET Decisions]
    /\ listed \in [Vendors -> Runs \cup {None}]
    /\ invocation \in [Runs -> [Tools -> {"none", "ok", "bad"}]]
    /\ events \in [Runs -> SUBSET EventTypes]
    /\ audits \in [Runs -> SUBSET Actions]

WfTypeOK ==
    /\ phase \in [Runs -> Phases]
    /\ requested \in [Runs -> BOOLEAN]
    /\ chosen \in [Runs -> Decisions \cup {None}]
    /\ cancelled \in [Runs -> BOOLEAN]
    /\ attempt \in [Runs -> Nat]

OuterTypeOK ==
    /\ executions \in [Runs -> Nat]
    /\ late \subseteq LateAttempts
    /\ inbox \in [Runs -> SUBSET Decisions]
    /\ acked \in [Runs -> SUBSET Decisions]
    /\ faults \in Nat

\* record_decision always has a decision to record.
HasDecision ==
    /\ \A r \in Runs : phase[r] = "recording_decision" => chosen[r] \in Decisions
    /\ \A l \in late : l.activity = "record_decision" => l.decision \in Decisions

IInv == TypeOK /\ HasDecision /\ OneDecision /\ DecisionIsAtomic /\ ListingIsJustified

Decided == <<40, "approval_decided">>

LEMMA TypeParts == TypeOK <=> DbTypeOK /\ WfTypeOK /\ OuterTypeOK
BY DEF TypeOK, DbTypeOK, WfTypeOK, OuterTypeOK

LEMMA TypePartsPrime == TypeOK' <=> DbTypeOK' /\ WfTypeOK' /\ OuterTypeOK'
BY DEF TypeOK, DbTypeOK, WfTypeOK, OuterTypeOK

-----------------------------------------------------------------------------
(***************************************************************************)
(* The helpers of the activity bodies.                                     *)
(***************************************************************************)
\* _append_event only ever adds the event it is given, and an event with a
\* sequence number of its own is there afterwards.
LEMMA AppendedAdds ==
    ASSUME NEW S \in SUBSET EventTypes, NEW e \in EventTypes
    PROVE  /\ Appended(S, e) \in SUBSET EventTypes
           /\ S \subseteq Appended(S, e)
           /\ Appended(S, e) \subseteq S \cup {e}
BY DEF Appended

LEMMA AppendedDecided ==
    ASSUME NEW S \in SUBSET EventTypes
    PROVE  Decided \in Appended(S, Decided)
<1>1. \A x \in EventTypes : x[1] = 40 => x = Decided
  BY DEF EventTypes, Decided
<1>2. QED BY <1>1 DEF Appended, Decided

\* A fault, or its absence, keeps the counter a number.
LEMMA FaultsType ==
    ASSUME faults \in Nat, Fault \/ NoFault
    PROVE  faults' \in Nat
BY ConstantsAssumption DEF Fault, NoFault

LEMMA ReplyFaults ==
    ASSUME NEW reply, OkOrHandoffFault(reply)
    PROVE  Fault \/ NoFault
BY DEF OkOrHandoffFault

\* A tool call changes the row of that tool only.
LEMMA RecordType ==
    ASSUME DbTypeOK, NEW r \in Runs, NEW t \in Tools, NEW state \in {"none", "ok", "bad"},
           Record(r, t, state)
    PROVE  /\ invocation' \in [Runs -> [Tools -> {"none", "ok", "bad"}]]
           /\ \A s \in Runs : \A u \in Tools :
                 invocation'[s][u] = IF s = r /\ u = t THEN state ELSE invocation[s][u]
BY DEF DbTypeOK, Record

LEMMA ToolCallEffect ==
    ASSUME DbTypeOK, NEW r \in Runs, NEW t \in Tools, NEW reply, ToolCall(r, t, reply)
    PROVE  /\ invocation' \in [Runs -> [Tools -> {"none", "ok", "bad"}]]
           /\ \A s \in Runs : \A u \in Tools \ {t} : invocation'[s][u] = invocation[s][u]
           /\ Fault \/ NoFault
<1>1. CASE UNCHANGED invocation
  BY <1>1 DEF ToolCall, DbTypeOK
<1>2. CASE Record(r, t, "ok")
  BY <1>2, RecordType DEF ToolCall
<1>3. CASE Record(r, t, "bad")
  BY <1>3, RecordType DEF ToolCall
<1>4. QED BY <1>1, <1>2, <1>3 DEF ToolCall
-----------------------------------------------------------------------------
(***************************************************************************)
(* An activity body commits a decision or is quiet.                        *)
(***************************************************************************)
\* What a body that commits no decision does to the evidence of decisions.
SameEvidence ==
    /\ decisions' = decisions
    /\ listed' = listed
    /\ \A s \in Runs :
          /\ Decided \in events'[s] <=> Decided \in events[s]
          /\ "approval.decision.record" \in audits'[s]
                <=> "approval.decision.record" \in audits[s]
          /\ invocation'[s]["email"] = "ok" <=> invocation[s]["email"] = "ok"

\* And to the approvals: at most that of run r moves, and not from a verdict.
ApprovalMoves(r) ==
    \/ approval' = approval
    \/ approval[r] = None /\ approval' = [approval EXCEPT ![r] = "PENDING"]
    \/ approval[r] = "PENDING" /\ approval' = [approval EXCEPT ![r] = "CANCELLED"]

Quiet(r) ==
    /\ DbTypeOK'
    /\ Fault \/ NoFault
    /\ SameEvidence
    /\ ApprovalMoves(r)

\* A step of the system that commits no decision, and one that commits one.
QuietStep ==
    /\ DbTypeOK'
    /\ SameEvidence
    /\ approval' = approval \/ \E r \in Runs : ApprovalMoves(r)

CommitStep == \E r \in Runs, d \in Decisions, reply \in Replies : Commits(r, d, reply)

\* Appending another event leaves the one about the decision alone.
LEMMA AppendedOther ==
    ASSUME NEW S \in SUBSET EventTypes, NEW e \in EventTypes, e # Decided
    PROVE  Decided \in Appended(S, e) <=> Decided \in S
BY AppendedAdds

LEMMA EventsOther ==
    ASSUME DbTypeOK, NEW r \in Runs, NEW e \in EventTypes, e # Decided,
           events' = [events EXCEPT ![r] = Appended(@, e)]
    PROVE  /\ events' \in [Runs -> SUBSET EventTypes]
           /\ \A s \in Runs : Decided \in events'[s] <=> Decided \in events[s]
<1>1. events \in [Runs -> SUBSET EventTypes]
  BY DEF DbTypeOK
<1>2. Appended(events[r], e) \in SUBSET EventTypes
  BY <1>1, AppendedAdds
<1>3. Decided \in Appended(events[r], e) <=> Decided \in events[r]
  BY <1>1, AppendedOther
<1>4. QED BY <1>1, <1>2, <1>3

LEMMA AuditOther ==
    ASSUME DbTypeOK, NEW r \in Runs, NEW action \in Actions \ {"approval.decision.record"},
           Audit(r, action)
    PROVE  /\ audits' \in [Runs -> SUBSET Actions]
           /\ \A s \in Runs : "approval.decision.record" \in audits'[s]
                                 <=> "approval.decision.record" \in audits[s]
BY DEF DbTypeOK, Audit

LEMMA EventTypesDistinct ==
    /\ Decided \in EventTypes
    /\ \A e \in EventTypes : e[1] # 40 => e # Decided
BY DEF EventTypes, Decided

\* A required tool that failed.
LEMMA RequiredToolFailedEffect ==
    ASSUME DbTypeOK, NEW r \in Runs, NEW reply, NEW status \in RunStatus,
           NEW e \in EventTypes, e # Decided, RequiredToolFailed(r, reply, status, e)
    PROVE  /\ run' \in [Runs -> RunStatus]
           /\ events' \in [Runs -> SUBSET EventTypes]
           /\ audits' \in [Runs -> SUBSET Actions]
           /\ \A s \in Runs : Decided \in events'[s] <=> Decided \in events[s]
           /\ \A s \in Runs : "approval.decision.record" \in audits'[s]
                                 <=> "approval.decision.record" \in audits[s]
<1>1. CASE reply = "retry" /\ UNCHANGED events /\ Audit(r, "tool.required.retry")
           /\ run' = [run EXCEPT ![r] = status]
  <2>1. "tool.required.retry" \in Actions \ {"approval.decision.record"}
    BY DEF Actions
  <2>2. QED BY <1>1, <2>1, AuditOther DEF DbTypeOK
<1>2. CASE /\ run' = [run EXCEPT ![r] = "FAILED"]
           /\ Audit(r, "tool.required.failure")
           /\ events' = [events EXCEPT ![r] = Appended(@, e)]
  <2>1. "tool.required.failure" \in Actions \ {"approval.decision.record"}
    BY DEF Actions
  <2>2. "FAILED" \in RunStatus
    BY DEF RunStatus
  <2>3. QED BY <1>2, <2>1, <2>2, AuditOther, EventsOther DEF DbTypeOK
<1>3. QED BY <1>1, <1>2 DEF RequiredToolFailed

LEMMA BeginReviewQuiet ==
    ASSUME DbTypeOK, NEW r \in Runs, NEW reply, BeginReview(r, reply)
    PROVE  Quiet(r)
<1> DEFINE status == IF run[r] = "PENDING" THEN "RUNNING" ELSE run[r]
<1>1. status \in RunStatus
  BY DEF DbTypeOK, RunStatus, Ended
<1>2. /\ <<10, "review_started">> \in EventTypes /\ <<10, "review_started">> # Decided
      /\ <<15, "review_failed">> \in EventTypes /\ <<15, "review_failed">> # Decided
      /\ "vendor.review.start" \in Actions \ {"approval.decision.record"}
  BY DEF EventTypes, Decided, Actions
<1>3. /\ "lookup" \in Tools /\ "email" \in Tools \ {"lookup"}
  BY DEF Tools
<1>4. /\ invocation' \in [Runs -> [Tools -> {"none", "ok", "bad"}]]
      /\ \A s \in Runs : invocation'[s]["email"] = invocation[s]["email"]
      /\ Fault \/ NoFault
  <2>1. ToolCall(r, "lookup", reply)
    BY DEF BeginReview
  <2>2. QED BY <1>3, <2>1, ToolCallEffect
<1>5. vendor' \in [Vendors -> {"SUBMITTED", "UNDER_REVIEW"} \cup Verdicts]
  BY DEF BeginReview, DbTypeOK
<1>6. /\ run' \in [Runs -> RunStatus]
      /\ events' \in [Runs -> SUBSET EventTypes]
      /\ audits' \in [Runs -> SUBSET Actions]
      /\ \A s \in Runs : Decided \in events'[s] <=> Decided \in events[s]
      /\ \A s \in Runs : "approval.decision.record" \in audits'[s]
                            <=> "approval.decision.record" \in audits[s]
  <2>1. CASE /\ run' = [run EXCEPT ![r] = status]
             /\ events' = [events EXCEPT ![r] = Appended(@, <<10, "review_started">>)]
             /\ Audit(r, "vendor.review.start")
    <3>1. run' \in [Runs -> RunStatus]
      BY <1>1, <2>1 DEF DbTypeOK
    <3>2. QED BY <3>1, <1>2, <2>1, EventsOther, AuditOther
  <2>2. CASE RequiredToolFailed(r, reply, status, <<15, "review_failed">>)
    <3> HIDE DEF status
    <3>1. QED BY <1>1, <1>2, <2>2, RequiredToolFailedEffect
  <2>3. QED BY <2>1, <2>2 DEF BeginReview
<1>7. UNCHANGED <<approval, decisions, listed>>
  BY DEF BeginReview
<1>8. QED BY <1>4, <1>5, <1>6, <1>7 DEF Quiet, SameEvidence, ApprovalMoves, DbTypeOK

LEMMA AssessRiskQuiet ==
    ASSUME DbTypeOK, NEW r \in Runs, NEW reply, AssessRisk(r, reply)
    PROVE  Quiet(r)
<1>1. run[r] \in RunStatus
  BY DEF DbTypeOK
<1>2. /\ <<20, "risk_assessed">> \in EventTypes /\ <<20, "risk_assessed">> # Decided
      /\ <<25, "risk_policy_context">> \in EventTypes /\ <<25, "risk_policy_context">> # Decided
      /\ <<25, "review_failed">> \in EventTypes /\ <<25, "review_failed">> # Decided
      /\ "vendor.risk.assess" \in Actions \ {"approval.decision.record"}
  BY DEF EventTypes, Decided, Actions
<1>3. /\ "search" \in Tools /\ "email" \in Tools \ {"search"}
  BY DEF Tools
<1>4. /\ invocation' \in [Runs -> [Tools -> {"none", "ok", "bad"}]]
      /\ \A s \in Runs : invocation'[s]["email"] = invocation[s]["email"]
      /\ Fault \/ NoFault
  <2>1. ToolCall(r, "search", reply)
    BY DEF AssessRisk
  <2>2. QED BY <1>3, <2>1, ToolCallEffect
<1>5. /\ run' \in [Runs -> RunStatus]
      /\ events' \in [Runs -> SUBSET EventTypes]
      /\ audits' \in [Runs -> SUBSET Actions]
      /\ \A s \in Runs : Decided \in events'[s] <=> Decided \in events[s]
      /\ \A s \in Runs : "approval.decision.record" \in audits'[s]
                            <=> "approval.decision.record" \in audits[s]
  <2>1. CASE /\ events' = [events EXCEPT ![r] =
                   Appended(Appended(@, <<20, "risk_assessed">>), <<25, "risk_policy_context">>)]
             /\ Audit(r, "vendor.risk.assess")
             /\ UNCHANGED run
    <3> DEFINE once == Appended(events[r], <<20, "risk_assessed">>)
               twice == Appended(once, <<25, "risk_policy_context">>)
    <3>1. events \in [Runs -> SUBSET EventTypes]
      BY DEF DbTypeOK
    <3>2. once \in SUBSET EventTypes /\ (Decided \in once <=> Decided \in events[r])
      BY <3>1, <1>2, AppendedAdds, AppendedOther
    <3>3. twice \in SUBSET EventTypes /\ (Decided \in twice <=> Decided \in once)
      <4> HIDE DEF once
      <4>1. QED BY <3>2, <1>2, AppendedAdds, AppendedOther
    <3>4. events' = [events EXCEPT ![r] = twice]
      BY <2>1
    <3>5. /\ events' \in [Runs -> SUBSET EventTypes]
          /\ \A s \in Runs : Decided \in events'[s] <=> Decided \in events[s]
      <4> HIDE DEF once, twice
      <4>1. QED BY <3>1, <3>2, <3>3, <3>4
    <3>6. QED BY <3>5, <1>2, <2>1, AuditOther DEF DbTypeOK
  <2>2. CASE RequiredToolFailed(r, reply, run[r], <<25, "review_failed">>)
    BY <1>1, <1>2, <2>2, RequiredToolFailedEffect
  <2>3. QED BY <2>1, <2>2 DEF AssessRisk
<1>6. UNCHANGED <<vendor, approval, decisions, listed>>
  BY DEF AssessRisk
<1>7. QED BY <1>4, <1>5, <1>6 DEF Quiet, SameEvidence, ApprovalMoves, DbTypeOK

LEMMA RequestApprovalQuiet ==
    ASSUME DbTypeOK, NEW r \in Runs, NEW reply, RequestApproval(r, reply)
    PROVE  Quiet(r)
<1>1. /\ <<30, "approval_requested">> \in EventTypes /\ <<30, "approval_requested">> # Decided
      /\ "approval.request.create" \in Actions \ {"approval.decision.record"}
      /\ "WAITING" \in RunStatus
  BY DEF EventTypes, Decided, Actions, RunStatus
<1>2. /\ events' \in [Runs -> SUBSET EventTypes]
      /\ \A s \in Runs : Decided \in events'[s] <=> Decided \in events[s]
  BY <1>1, EventsOther DEF RequestApproval
<1>3. /\ audits' \in [Runs -> SUBSET Actions]
      /\ \A s \in Runs : "approval.decision.record" \in audits'[s]
                            <=> "approval.decision.record" \in audits[s]
  BY <1>1, AuditOther DEF RequestApproval
<1>4. ApprovalMoves(r)
  BY DEF RequestApproval, RequestedApproval, DbTypeOK, ApprovalMoves
<1>5. Fault \/ NoFault
  BY ReplyFaults DEF RequestApproval
<1>6. /\ run' \in [Runs -> RunStatus]
      /\ approval' \in [Runs -> {None, "PENDING", "CANCELLED"} \cup Verdicts]
      /\ UNCHANGED <<vendor, decisions, listed, invocation>>
  BY <1>1 DEF RequestApproval, RequestedApproval, DbTypeOK
<1>7. QED BY <1>2, <1>3, <1>4, <1>5, <1>6 DEF Quiet, SameEvidence, DbTypeOK

LEMMA CancelReviewQuiet ==
    ASSUME DbTypeOK, NEW r \in Runs, NEW reply, CancelReview(r, reply)
    PROVE  Quiet(r)
<1>1. Fault \/ NoFault
  BY DEF CancelReview
<1>2. CASE run[r] \in Ended
  <2>1. UNCHANGED dbVars
    BY <1>2 DEF CancelReview
  <2>2. QED BY <1>1, <2>1 DEF dbVars, Quiet, SameEvidence, ApprovalMoves, DbTypeOK
<1>3. CASE run[r] \notin Ended
  <2>1. /\ <<50, "review_cancelled">> \in EventTypes /\ <<50, "review_cancelled">> # Decided
        /\ "workflow.cancel" \in Actions \ {"approval.decision.record"}
        /\ "CANCELLED" \in RunStatus
    BY DEF EventTypes, Decided, Actions, RunStatus, Ended
  <2>2. /\ approval' = [approval EXCEPT ![r] = CancelledApproval(@)]
        /\ run' = [run EXCEPT ![r] = "CANCELLED"]
        /\ events' = [events EXCEPT ![r] = Appended(@, <<50, "review_cancelled">>)]
        /\ Audit(r, "workflow.cancel")
        /\ UNCHANGED <<vendor, decisions, listed, invocation>>
    BY <1>3 DEF CancelReview
  <2>3. /\ events' \in [Runs -> SUBSET EventTypes]
        /\ \A s \in Runs : Decided \in events'[s] <=> Decided \in events[s]
    BY <2>1, <2>2, EventsOther
  <2>4. /\ audits' \in [Runs -> SUBSET Actions]
        /\ \A s \in Runs : "approval.decision.record" \in audits'[s]
                              <=> "approval.decision.record" \in audits[s]
    BY <2>1, <2>2, AuditOther
  <2>5. ApprovalMoves(r)
    BY <2>2 DEF CancelledApproval, DbTypeOK, ApprovalMoves
  <2>6. /\ run' \in [Runs -> RunStatus]
        /\ approval' \in [Runs -> {None, "PENDING", "CANCELLED"} \cup Verdicts]
    BY <2>1, <2>2 DEF CancelledApproval, DbTypeOK
  <2>7. QED BY <1>1, <2>2, <2>3, <2>4, <2>5, <2>6 DEF Quiet, SameEvidence, DbTypeOK
<1>4. QED BY <1>2, <1>3

LEMMA AbortsQuiet ==
    ASSUME DbTypeOK, NEW r \in Runs, NEW S \in SUBSET Tools, NEW reply, Aborts(r, S, reply)
    PROVE  Quiet(r)
<1>1. UNCHANGED <<run, vendor, approval, decisions, listed, events, audits>> /\ Fault
  BY DEF Aborts
<1>2. /\ invocation' \in [Runs -> [Tools -> {"none", "ok", "bad"}]]
      /\ \A s \in Runs : invocation'[s]["email"] = "ok" <=> invocation[s]["email"] = "ok"
  <2>1. CASE UNCHANGED invocation
    BY <2>1 DEF DbTypeOK
  <2>2. CASE \E t \in S : invocation[r][t] = "none" /\ Record(r, t, "bad")
    <3>1. PICK t \in S : invocation[r][t] = "none" /\ Record(r, t, "bad")
      BY <2>2
    <3>2. t \in Tools /\ "email" \in Tools
      BY DEF Tools
    <3>3. QED BY <3>1, <3>2, RecordType
  <2>3. QED BY <2>1, <2>2 DEF Aborts
<1>3. QED BY <1>1, <1>2 DEF Quiet, SameEvidence, ApprovalMoves, DbTypeOK

\* Every body that Temporal delivers: quiet, or the one commit of a decision.
LEMMA BodyEffect ==
    ASSUME DbTypeOK, NEW a \in Activities, NEW r \in Runs, NEW d \in Decisions \cup {None},
           NEW reply, Body(a, r, d, reply)
    PROVE  Quiet(r) \/ (a = "record_decision" /\ Commits(r, d, reply))
<1>1. ToolsOf(a, d) \in SUBSET Tools
  BY DEF ToolsOf, Tools, Activities
<1>2. CASE UNCHANGED dbVars /\ NoFault
  BY <1>2 DEF dbVars, Quiet, SameEvidence, ApprovalMoves, DbTypeOK
<1>3. CASE RecordDecision(r, d, reply) /\ a = "record_decision"
  BY <1>2, <1>3 DEF RecordDecision, Replays, Refused
<1>4. QED
  BY <1>1, <1>3, BeginReviewQuiet, AssessRiskQuiet, RequestApprovalQuiet, CancelReviewQuiet,
     AbortsQuiet DEF Body
-----------------------------------------------------------------------------
(***************************************************************************)
(* The two kinds of bodies preserve the safety properties.                 *)
(***************************************************************************)
Core == OneDecision /\ DecisionIsAtomic /\ ListingIsJustified

\* A request that is pending or absent has no evidence of a decision.
LEMMA UndecidedIsBlank ==
    ASSUME DbTypeOK, Core, NEW r \in Runs, approval[r] \notin Verdicts
    PROVE  /\ decisions[r] = {}
           /\ Decided \notin events[r]
           /\ "approval.decision.record" \notin audits[r]
           /\ invocation[r]["email"] # "ok"
           /\ \A v \in Vendors : listed[v] # r
<1>1. approval[r] # "APPROVED"
  BY DEF Verdicts
<1>2. r # None
  BY ConstantsAssumption
<1>3. QED BY <1>1, <1>2 DEF Core, DecisionIsAtomic, ListingIsJustified, Decided

LEMMA QuietKeepsCore ==
    ASSUME DbTypeOK, Core, QuietStep
    PROVE  Core'
<1>1. decisions' = decisions /\ listed' = listed
  BY DEF QuietStep, SameEvidence
<1>2. \A s \in Runs : approval'[s] = approval[s]
                         \/ (approval[s] \notin Verdicts /\ approval'[s] \notin Verdicts)
  BY ConstantsAssumption DEF QuietStep, ApprovalMoves, DbTypeOK, Verdicts
<1>3. OneDecision'
  BY <1>1 DEF Core, OneDecision
<1>4. DecisionIsAtomic'
  <2>1. SUFFICES ASSUME NEW s \in Runs
                 PROVE  /\ decisions'[s] # {} <=> approval'[s] \in Verdicts
                        /\ decisions'[s] # {} <=> Decided \in events'[s]
                        /\ decisions'[s] # {} <=> "approval.decision.record" \in audits'[s]
                        /\ \A d \in decisions'[s] : d.verdict = approval'[s]
                        /\ approval'[s] = "APPROVED" <=> invocation'[s]["email"] = "ok"
                        /\ approval'[s] = "APPROVED" => listed'[VendorOf[s]] # None
    BY DEF DecisionIsAtomic, Decided
  <2>2. /\ decisions[s] # {} <=> approval[s] \in Verdicts
        /\ decisions[s] # {} <=> Decided \in events[s]
        /\ decisions[s] # {} <=> "approval.decision.record" \in audits[s]
        /\ \A d \in decisions[s] : d.verdict = approval[s]
        /\ approval[s] = "APPROVED" <=> invocation[s]["email"] = "ok"
        /\ approval[s] = "APPROVED" => listed[VendorOf[s]] # None
    BY DEF Core, DecisionIsAtomic, Decided
  <2>3. /\ Decided \in events'[s] <=> Decided \in events[s]
        /\ "approval.decision.record" \in audits'[s]
              <=> "approval.decision.record" \in audits[s]
        /\ invocation'[s]["email"] = "ok" <=> invocation[s]["email"] = "ok"
    BY DEF QuietStep, SameEvidence
  <2>4. CASE approval'[s] = approval[s]
    BY <1>1, <2>2, <2>3, <2>4
  <2>5. CASE approval[s] \notin Verdicts /\ approval'[s] \notin Verdicts
    <3>1. approval[s] # "APPROVED" /\ approval'[s] # "APPROVED"
      BY <2>5 DEF Verdicts
    <3>2. decisions'[s] = {}
      BY <1>1, <2>2, <2>5
    <3>3. QED BY <1>1, <2>2, <2>3, <2>5, <3>1, <3>2
  <2>6. QED BY <1>2, <2>4, <2>5
<1>5. ListingIsJustified'
  <2>1. ASSUME NEW v \in Vendors, listed[v] # None
        PROVE  /\ listed[v] \in Runs
               /\ VendorOf[listed[v]] = v
               /\ approval'[listed[v]] = "APPROVED"
    <3>1. listed[v] \in Runs
      BY <2>1 DEF DbTypeOK
    <3>2. VendorOf[listed[v]] = v /\ approval[listed[v]] = "APPROVED"
      BY <2>1 DEF Core, ListingIsJustified
    <3>3. QED BY <1>2, <3>1, <3>2 DEF Verdicts
  <2>2. QED BY <1>1, <2>1 DEF ListingIsJustified
<1>6. QED BY <1>3, <1>4, <1>5 DEF Core

\* What the commit of decision d for run r writes.
LEMMA CommitsEffect ==
    ASSUME DbTypeOK, NEW r \in Runs, NEW d \in Decisions, NEW reply, Commits(r, d, reply)
    PROVE  /\ DbTypeOK'
           /\ Fault \/ NoFault
           /\ approval[r] = "PENDING"
           /\ approval' = [approval EXCEPT ![r] = d.verdict]
           /\ decisions' = [decisions EXCEPT ![r] = @ \cup {d}]
           /\ listed' = [listed EXCEPT ![VendorOf[r]] =
                            IF d.verdict = "APPROVED" /\ @ = None THEN r ELSE @]
           /\ \A s \in Runs :
                 /\ Decided \in events'[s] <=> s = r \/ Decided \in events[s]
                 /\ "approval.decision.record" \in audits'[s]
                       <=> s = r \/ "approval.decision.record" \in audits[s]
                 /\ invocation'[s]["email"] = "ok"
                       <=> \/ s = r /\ d.verdict = "APPROVED"
                           \/ invocation[s]["email"] = "ok"
<1> DEFINE approved == d.verdict = "APPROVED"
<1>1. /\ VendorOf[r] \in Vendors
      /\ d.verdict \in Verdicts
  BY ConstantsAssumption
<1>2. /\ approval[r] = "PENDING"
      /\ approval' = [approval EXCEPT ![r] = d.verdict]
      /\ decisions' = [decisions EXCEPT ![r] = @ \cup {d}]
      /\ vendor' = [vendor EXCEPT ![VendorOf[r]] = d.verdict]
      /\ run' = [run EXCEPT ![r] = IF approved THEN "SUCCEEDED" ELSE "REJECTED"]
      /\ listed' = [listed EXCEPT ![VendorOf[r]] = IF approved /\ @ = None THEN r ELSE @]
  BY DEF Commits, Write, Listing, DecidedStatus
<1>3. Fault \/ NoFault
  BY ReplyFaults DEF Commits
<1>4. /\ events' \in [Runs -> SUBSET EventTypes]
      /\ \A s \in Runs : Decided \in events'[s] <=> s = r \/ Decided \in events[s]
  <2>1. events \in [Runs -> SUBSET EventTypes] /\ Decided \in EventTypes
    BY EventTypesDistinct DEF DbTypeOK
  <2>2. events' = [events EXCEPT ![r] = Appended(@, Decided)]
    BY DEF Commits, Write, Decided
  <2>3. Appended(events[r], Decided) \in SUBSET EventTypes
    BY <2>1, AppendedAdds
  <2>4. Decided \in Appended(events[r], Decided)
    BY <2>1, AppendedDecided
  <2>5. QED BY <2>1, <2>2, <2>3, <2>4
<1>5. /\ audits' \in [Runs -> SUBSET Actions]
      /\ \A s \in Runs : "approval.decision.record" \in audits'[s]
                            <=> s = r \/ "approval.decision.record" \in audits[s]
  BY DEF Commits, Write, Audit, Actions, DbTypeOK
<1>6. /\ invocation' \in [Runs -> [Tools -> {"none", "ok", "bad"}]]
      /\ \A s \in Runs : invocation'[s]["email"] = "ok"
                            <=> (s = r /\ approved) \/ invocation[s]["email"] = "ok"
  <2>1. "email" \in Tools
    BY DEF Tools
  <2>2. CASE approved
    BY <2>1, <2>2, RecordType DEF Commits, Write
  <2>3. CASE ~approved
    BY <2>3 DEF Commits, Write, DbTypeOK
  <2>4. QED BY <2>2, <2>3
<1>7. /\ approval' \in [Runs -> {None, "PENDING", "CANCELLED"} \cup Verdicts]
      /\ decisions' \in [Runs -> SUBSET Decisions]
      /\ vendor' \in [Vendors -> {"SUBMITTED", "UNDER_REVIEW"} \cup Verdicts]
      /\ run' \in [Runs -> RunStatus]
      /\ listed' \in [Vendors -> Runs \cup {None}]
  BY <1>1, <1>2 DEF DbTypeOK, RunStatus, Ended
<1>8. QED BY <1>2, <1>3, <1>4, <1>5, <1>6, <1>7 DEF DbTypeOK

LEMMA CommitsKeepsCore ==
    ASSUME DbTypeOK, Core, NEW r \in Runs, NEW d \in Decisions, NEW reply,
           Commits(r, d, reply)
    PROVE  Core'
<1>1. /\ approval[r] = "PENDING"
      /\ approval' = [approval EXCEPT ![r] = d.verdict]
      /\ decisions' = [decisions EXCEPT ![r] = @ \cup {d}]
      /\ listed' = [listed EXCEPT ![VendorOf[r]] =
                       IF d.verdict = "APPROVED" /\ @ = None THEN r ELSE @]
      /\ \A s \in Runs :
            /\ Decided \in events'[s] <=> s = r \/ Decided \in events[s]
            /\ "approval.decision.record" \in audits'[s]
                  <=> s = r \/ "approval.decision.record" \in audits[s]
            /\ invocation'[s]["email"] = "ok"
                  <=> \/ s = r /\ d.verdict = "APPROVED"
                      \/ invocation[s]["email"] = "ok"
  BY CommitsEffect
<1>2. /\ approval[r] \notin Verdicts /\ "APPROVED" \in Verdicts
      /\ d.verdict \in Verdicts /\ VendorOf[r] \in Vendors /\ VendorOf \in [Runs -> Vendors]
      /\ r # None
  BY <1>1, ConstantsAssumption DEF Verdicts
<1>3. decisions[r] = {} /\ invocation[r]["email"] # "ok" /\ \A v \in Vendors : listed[v] # r
  BY <1>2, UndecidedIsBlank
<1>4. decisions'[r] = {d} /\ \A s \in Runs \ {r} : decisions'[s] = decisions[s]
  BY <1>1, <1>3 DEF DbTypeOK
<1>5. approval'[r] = d.verdict /\ \A s \in Runs \ {r} : approval'[s] = approval[s]
  BY <1>1 DEF DbTypeOK
<1>6. OneDecision'
  BY <1>4 DEF Core, OneDecision
<1>7. \A v \in Vendors : listed'[v] = IF v = VendorOf[r] /\ d.verdict = "APPROVED"
                                          /\ listed[v] = None
                                      THEN r ELSE listed[v]
  BY <1>1 DEF DbTypeOK
<1>8. DecisionIsAtomic'
  <2>1. SUFFICES ASSUME NEW s \in Runs
                 PROVE  /\ decisions'[s] # {} <=> approval'[s] \in Verdicts
                        /\ decisions'[s] # {} <=> Decided \in events'[s]
                        /\ decisions'[s] # {} <=> "approval.decision.record" \in audits'[s]
                        /\ \A e \in decisions'[s] : e.verdict = approval'[s]
                        /\ approval'[s] = "APPROVED" <=> invocation'[s]["email"] = "ok"
                        /\ approval'[s] = "APPROVED" => listed'[VendorOf[s]] # None
    BY DEF DecisionIsAtomic, Decided
  <2>2. CASE s = r
    <3>1. /\ decisions'[r] = {d} /\ approval'[r] = d.verdict
          /\ Decided \in events'[r] /\ "approval.decision.record" \in audits'[r]
          /\ d.verdict = "APPROVED" <=> invocation'[r]["email"] = "ok"
      BY <1>1, <1>3, <1>4, <1>5
    <3>2. d.verdict = "APPROVED" => listed'[VendorOf[r]] # None
      BY <1>2, <1>7
    <3>3. QED BY <1>2, <2>2, <3>1, <3>2
  <2>3. CASE s # r
    <3>1. /\ decisions[s] # {} <=> approval[s] \in Verdicts
          /\ decisions[s] # {} <=> Decided \in events[s]
          /\ decisions[s] # {} <=> "approval.decision.record" \in audits[s]
          /\ \A e \in decisions[s] : e.verdict = approval[s]
          /\ approval[s] = "APPROVED" <=> invocation[s]["email"] = "ok"
          /\ approval[s] = "APPROVED" => listed[VendorOf[s]] # None
      BY DEF Core, DecisionIsAtomic, Decided
    <3>2. decisions'[s] = decisions[s] /\ approval'[s] = approval[s]
      BY <1>4, <1>5, <2>3
    <3>3. listed[VendorOf[s]] # None => listed'[VendorOf[s]] # None
      BY <1>2, <1>7
    <3>4. QED BY <1>1, <2>3, <3>1, <3>2, <3>3
  <2>4. QED BY <2>2, <2>3
<1>9. ListingIsJustified'
  <2>1. SUFFICES ASSUME NEW v \in Vendors, listed'[v] # None
                 PROVE  VendorOf[listed'[v]] = v /\ approval'[listed'[v]] = "APPROVED"
    BY DEF ListingIsJustified
  <2>2. CASE listed'[v] = r /\ v = VendorOf[r] /\ d.verdict = "APPROVED"
    BY <1>5, <2>2
  <2>3. CASE listed'[v] = listed[v]
    <3>1. listed[v] \in Runs \ {r}
      BY <1>3, <2>1, <2>3 DEF DbTypeOK
    <3>2. VendorOf[listed[v]] = v /\ approval[listed[v]] = "APPROVED"
      BY <2>1, <2>3 DEF Core, ListingIsJustified
    <3>3. QED BY <1>5, <2>3, <3>1, <3>2
  <2>4. QED BY <1>7, <2>2, <2>3
<1>10. QED BY <1>6, <1>8, <1>9 DEF Core
-----------------------------------------------------------------------------
(***************************************************************************)
(* Every step of the system is quiet or commits one decision.              *)
(***************************************************************************)
LEMMA BodyStep ==
    ASSUME DbTypeOK, NEW a \in Activities, NEW r \in Runs, NEW d \in Decisions \cup {None},
           a = "record_decision" => d \in Decisions,
           NEW reply \in Replies, Body(a, r, d, reply)
    PROVE  (QuietStep /\ (Fault \/ NoFault)) \/ CommitStep
BY BodyEffect DEF Quiet, QuietStep, CommitStep

LEMMA SameDbIsQuiet ==
    ASSUME DbTypeOK, UNCHANGED dbVars
    PROVE  QuietStep
BY DEF dbVars, DbTypeOK, QuietStep, SameEvidence

LEMMA CurrentType ==
    ASSUME TypeOK, HasDecision, NEW r \in Runs, Current(r) # None
    PROVE  /\ Current(r) \in Activities
           /\ chosen[r] \in Decisions \cup {None}
           /\ Current(r) = "record_decision" => chosen[r] \in Decisions
BY DEF TypeOK, HasDecision, Current, Activities, Phases, Closed

LEMMA EveryStep ==
    ASSUME TypeOK, HasDecision, [Next]_vars
    PROVE  QuietStep \/ CommitStep
<1>1. DbTypeOK
  BY TypeParts
<1>2. CASE UNCHANGED dbVars
  BY <1>1, <1>2, SameDbIsQuiet
<1>3. ASSUME NEW r \in Runs, Attempt(r)
      PROVE  QuietStep \/ CommitStep
  <2>1. PICK reply \in Replies : Body(Current(r), r, chosen[r], reply)
    BY <1>3 DEF Attempt
  <2>2. Current(r) # None
    BY <1>3 DEF Attempt
  <2>3. QED BY <1>1, <2>1, <2>2, CurrentType, BodyStep
<1>4. ASSUME NEW l \in late, LateCommit(l)
      PROVE  QuietStep \/ CommitStep
  <2>1. PICK reply \in Replies : Body(l.activity, l.run, l.decision, reply)
    BY <1>4 DEF LateCommit
  <2>2. /\ l.activity \in Activities /\ l.run \in Runs /\ l.decision \in Decisions \cup {None}
        /\ l.activity = "record_decision" => l.decision \in Decisions
    BY DEF TypeOK, LateAttempts, HasDecision
  <2>3. QED BY <1>1, <2>1, <2>2, BodyStep
<1>5. CASE UNCHANGED vars
  BY <1>2, <1>5 DEF vars
<1>6. CASE \E r \in Runs : \/ StartExecution(r) \/ TimesOut(r) \/ Resume(r) \/ Cancel(r)
                           \/ \E d \in Decisions : Decide(r, d) \/ Update(r, d)
  BY <1>2, <1>6 DEF StartExecution, TimesOut, Resume, Cancel, Decide, Update
<1>7. QED BY <1>3, <1>4, <1>5, <1>6 DEF Next

(***************************************************************************)
(* Types of the workflow, Temporal and the API.                            *)
(***************************************************************************)
LEMMA BodyFaults ==
    ASSUME DbTypeOK, NEW a \in Activities, NEW r \in Runs, NEW d \in Decisions \cup {None},
           a = "record_decision" => d \in Decisions,
           NEW reply, Body(a, r, d, reply)
    PROVE  Fault \/ NoFault
BY BodyEffect, CommitsEffect DEF Quiet

\* What becomes of the current activity keeps the types of the control state.
LEMMA ControlType ==
    ASSUME WfTypeOK, NEW r \in Runs, Advance(r) \/ Again(r) \/ Fail(r), UNCHANGED chosen,
           UNCHANGED cancelled, Current(r) # None, Current(r) \in Activities
    PROVE  /\ WfTypeOK'
           /\ \A s \in Runs : phase'[s] = "recording_decision" => phase[s] = "recording_decision"
<1>1. CASE Advance(r)
  <2>1. NextPhase(Current(r)) \in Phases \ {"recording_decision"}
    BY DEF NextPhase, Activities, Phases, Closed
  <2>2. /\ phase' = [phase EXCEPT ![r] = NextPhase(Current(r))]
        /\ requested' = [requested EXCEPT ![r] = @ \/ Current(r) = "request_approval"]
        /\ attempt' = [attempt EXCEPT ![r] = 1]
    BY <1>1 DEF Advance
  <2>3. phase' \in [Runs -> Phases] /\ attempt' \in [Runs -> Nat]
    BY <2>1, <2>2 DEF WfTypeOK
  <2>4. requested' \in [Runs -> BOOLEAN]
    BY <2>2 DEF WfTypeOK
  <2>5. \A s \in Runs : phase'[s] = "recording_decision" => phase[s] = "recording_decision"
    BY <2>1, <2>2 DEF WfTypeOK
  <2>6. QED BY <2>3, <2>4, <2>5 DEF WfTypeOK
<1>2. CASE Again(r) \/ Fail(r)
  <2>1. \/ UNCHANGED phase /\ attempt' = [attempt EXCEPT ![r] = @ + 1]
        \/ phase' = [phase EXCEPT ![r] = "failed"] /\ UNCHANGED attempt
    BY <1>2 DEF Again, Fail
  <2>2. UNCHANGED requested
    BY <1>2 DEF Again, Fail
  <2>3. QED BY <2>1, <2>2 DEF WfTypeOK, Phases, Closed
<1>3. QED BY <1>1, <1>2

LEMMA OuterTypes ==
    ASSUME TypeOK, HasDecision, [Next]_vars
    PROVE  WfTypeOK' /\ OuterTypeOK' /\ HasDecision'
<1> USE ConstantsAssumption
<1>0. DbTypeOK /\ WfTypeOK /\ OuterTypeOK
  BY TypeParts
<1>1. ASSUME NEW r \in Runs, StartExecution(r)
      PROVE  WfTypeOK' /\ OuterTypeOK' /\ HasDecision'
  <2>1. WfTypeOK'
    BY <1>0, <1>1 DEF StartExecution, WfTypeOK, Phases
  <2>2. OuterTypeOK'
    BY <1>0, <1>1 DEF StartExecution, OuterTypeOK
  <2>3. HasDecision'
    BY <1>0, <1>1 DEF StartExecution, HasDecision, WfTypeOK
  <2>4. QED BY <2>1, <2>2, <2>3
<1>2. ASSUME NEW r \in Runs, Attempt(r)
      PROVE  WfTypeOK' /\ OuterTypeOK' /\ HasDecision'
  <2>1. PICK reply \in Replies : Body(Current(r), r, chosen[r], reply)
    BY <1>2 DEF Attempt
  <2>2. /\ Current(r) # None
        /\ Advance(r) \/ Again(r) \/ Fail(r)
        /\ UNCHANGED <<chosen, cancelled, executions, late, inbox, acked>>
    BY <1>2 DEF Attempt
  <2>3. Current(r) \in Activities /\ (Fault \/ NoFault)
    BY <1>0, <2>1, <2>2, CurrentType, BodyFaults
  <2>4. /\ WfTypeOK'
        /\ \A s \in Runs : phase'[s] = "recording_decision" => phase[s] = "recording_decision"
    BY <1>0, <2>2, <2>3, ControlType
  <2>5. faults' \in Nat
    BY <1>0, <2>3, FaultsType DEF OuterTypeOK
  <2>6. HasDecision'
    BY <2>2, <2>4 DEF HasDecision
  <2>7. OuterTypeOK'
    BY <1>0, <2>2, <2>5 DEF OuterTypeOK
  <2>8. QED BY <2>4, <2>6, <2>7
<1>3. ASSUME NEW r \in Runs, TimesOut(r)
      PROVE  WfTypeOK' /\ OuterTypeOK' /\ HasDecision'
  <2> DEFINE l == [run |-> r, activity |-> Current(r), decision |-> chosen[r],
                   execution |-> executions[r], attempt |-> attempt[r]]
  <2>1. /\ Current(r) \in Activities /\ chosen[r] \in Decisions \cup {None}
        /\ Current(r) = "record_decision" => chosen[r] \in Decisions
    BY <1>3, CurrentType DEF TimesOut
  <2>2. l \in LateAttempts
    BY <1>0, <2>1 DEF LateAttempts, WfTypeOK, OuterTypeOK
  <2>3. late' = late \/ late' = late \cup {l}
    BY <1>3 DEF TimesOut
  <2>4. /\ WfTypeOK'
        /\ \A s \in Runs : phase'[s] = "recording_decision" => phase[s] = "recording_decision"
    BY <1>0, <1>3, <2>1, ControlType DEF TimesOut
  <2>5. faults' \in Nat
    BY <1>0, <1>3, FaultsType DEF OuterTypeOK, TimesOut
  <2>6. OuterTypeOK'
    <3> HIDE DEF l
    <3>1. QED BY <1>0, <1>3, <2>2, <2>3, <2>5 DEF OuterTypeOK, TimesOut
  <2>7. \A m \in late' : m.activity = "record_decision" => m.decision \in Decisions
    BY <2>1, <2>3 DEF HasDecision
  <2>8. HasDecision'
    BY <1>3, <2>4, <2>7 DEF HasDecision, TimesOut
  <2>9. QED BY <2>4, <2>6, <2>8
<1>4. ASSUME NEW l \in late, LateCommit(l)
      PROVE  WfTypeOK' /\ OuterTypeOK' /\ HasDecision'
  <2>1. PICK reply \in Replies : Body(l.activity, l.run, l.decision, reply)
    BY <1>4 DEF LateCommit
  <2>2. /\ l.activity \in Activities /\ l.run \in Runs /\ l.decision \in Decisions \cup {None}
        /\ l.activity = "record_decision" => l.decision \in Decisions
    BY DEF TypeOK, LateAttempts, HasDecision
  <2>3. faults' \in Nat
    BY <1>0, <2>1, <2>2, BodyFaults, FaultsType DEF OuterTypeOK
  <2>4. late' = late \ {l} /\ UNCHANGED <<wfVars, executions, inbox, acked>>
    BY <1>4 DEF LateCommit
  <2>5. QED BY <1>0, <2>3, <2>4 DEF wfVars, WfTypeOK, OuterTypeOK, HasDecision
<1>5. ASSUME NEW r \in Runs, Resume(r)
      PROVE  WfTypeOK' /\ OuterTypeOK' /\ HasDecision'
  <2>1. WfTypeOK'
    BY <1>0, <1>5 DEF Resume, WfTypeOK, Phases
  <2>2. OuterTypeOK'
    BY <1>0, <1>5 DEF Resume, OuterTypeOK
  <2>3. HasDecision'
    BY <1>0, <1>5 DEF Resume, HasDecision, WfTypeOK
  <2>4. QED BY <2>1, <2>2, <2>3
<1>6. ASSUME NEW r \in Runs, Cancel(r)
      PROVE  WfTypeOK' /\ OuterTypeOK' /\ HasDecision'
  <2>1. UNCHANGED <<phase, requested, chosen, attempt, executions, late, inbox, acked, faults>>
    BY <1>6 DEF Cancel
  <2>2. cancelled' \in [Runs -> BOOLEAN]
    BY <1>0, <1>6 DEF Cancel, WfTypeOK
  <2>3. QED BY <1>0, <2>1, <2>2 DEF WfTypeOK, OuterTypeOK, HasDecision
<1>7. ASSUME NEW r \in Runs, NEW d \in Decisions, Decide(r, d)
      PROVE  WfTypeOK' /\ OuterTypeOK' /\ HasDecision'
  BY <1>0, <1>7 DEF Decide, wfVars, WfTypeOK, OuterTypeOK, HasDecision
<1>8. ASSUME NEW r \in Runs, NEW d \in Decisions, Update(r, d)
      PROVE  WfTypeOK' /\ OuterTypeOK' /\ HasDecision'
  <2>1. UNCHANGED <<phase, requested, cancelled, attempt, executions, late, faults>>
    BY <1>8 DEF Update
  <2>2. \/ chosen' = [chosen EXCEPT ![r] = d]
        \/ chosen' = [chosen EXCEPT ![r] = @]
    BY <1>8 DEF Update
  <2>3. inbox' \in [Runs -> SUBSET Decisions] /\ acked' \in [Runs -> SUBSET Decisions]
    BY <1>0, <1>8 DEF Update, OuterTypeOK
  <2>4. WfTypeOK' /\ HasDecision'
    BY <1>0, <2>1, <2>2 DEF WfTypeOK, HasDecision
  <2>5. QED BY <1>0, <2>1, <2>3, <2>4 DEF OuterTypeOK
<1>9. CASE UNCHANGED vars
  BY <1>0, <1>9 DEF vars, wfVars, WfTypeOK, OuterTypeOK, HasDecision
<1>10. QED BY <1>1, <1>2, <1>3, <1>4, <1>5, <1>6, <1>7, <1>8, <1>9 DEF Next
-----------------------------------------------------------------------------
(***************************************************************************)
(* The inductive invariant.                                                *)
(***************************************************************************)
LEMMA InitInv == Init => IInv
<1> SUFFICES ASSUME Init PROVE IInv
  OBVIOUS
<1> USE ConstantsAssumption
<1>1. DbTypeOK
  BY DEF Init, DbTypeOK, RunStatus
<1>2. WfTypeOK /\ OuterTypeOK
  BY DEF Init, WfTypeOK, OuterTypeOK, Phases, Closed
<1>3. HasDecision /\ OneDecision /\ ListingIsJustified
  BY DEF Init, HasDecision, OneDecision, ListingIsJustified
<1>4. DecisionIsAtomic
  BY DEF Init, DecisionIsAtomic, Verdicts, Tools
<1>5. QED BY <1>1, <1>2, <1>3, <1>4, TypeParts DEF IInv

LEMMA StepInv == IInv /\ [Next]_vars => IInv'
<1> SUFFICES ASSUME IInv, [Next]_vars PROVE IInv'
  OBVIOUS
<1>1. TypeOK /\ HasDecision /\ DbTypeOK /\ Core
  BY TypeParts DEF IInv, Core
<1>2. WfTypeOK' /\ OuterTypeOK' /\ HasDecision'
  BY <1>1, OuterTypes
<1>3. CASE QuietStep
  <2>1. Core'
    BY <1>1, <1>3, QuietKeepsCore
  <2>2. QED BY <1>2, <1>3, <2>1, TypePartsPrime DEF IInv, Core, QuietStep
<1>4. CASE CommitStep
  <2>1. PICK r \in Runs, d \in Decisions, reply \in Replies : Commits(r, d, reply)
    BY <1>4 DEF CommitStep
  <2>2. DbTypeOK' /\ Core'
    BY <1>1, <2>1, CommitsEffect, CommitsKeepsCore
  <2>3. QED BY <1>2, <2>2, TypePartsPrime DEF IInv, Core
<1>5. QED BY <1>1, <1>3, <1>4, EveryStep

THEOREM Invariance == Spec => []IInv
BY InitInv, StepInv, PTL DEF Spec

\* Every variable keeps its type.
THEOREM TypeCorrect == Spec => []TypeOK
<1>1. IInv => TypeOK
  BY DEF IInv
<1>2. QED BY <1>1, Invariance, PTL

\* A run's approval request never gets a second decision row, however often and
\* however late record_decision is delivered (record_decision).
THEOREM AtMostOneDecision == Spec => []OneDecision
<1>1. IInv => OneDecision
  BY DEF IInv
<1>2. QED BY <1>1, Invariance, PTL

\* A decision, its event, audit entry, notification and listing are all in the
\* database or none is (record_decision).
THEOREM DecisionsAreAtomic == Spec => []DecisionIsAtomic
<1>1. IInv => DecisionIsAtomic
  BY DEF IInv
<1>2. QED BY <1>1, Invariance, PTL

\* A vendor is listed only by an approved run of its own (record_decision).
THEOREM ListingsAreJustified == Spec => []ListingIsJustified
<1>1. IInv => ListingIsJustified
  BY DEF IInv
<1>2. QED BY <1>1, Invariance, PTL

-----------------------------------------------------------------------------
(***************************************************************************)
(* What is closed stays closed, and the refinement of ApprovalCase.        *)
(***************************************************************************)
LEMMA StepKeepsClosed ==
    ASSUME IInv, [Next]_vars
    PROVE  /\ \A r \in Runs :
                 approval[r] \in Verdicts \cup {"CANCELLED"} =>
                     approval'[r] = approval[r] /\ decisions'[r] = decisions[r]
           /\ \A v \in Vendors : listed[v] # None => listed'[v] = listed[v]
<1> USE ConstantsAssumption
<1>1. TypeOK /\ HasDecision /\ DbTypeOK
  BY TypeParts DEF IInv
<1>2. "PENDING" \notin Verdicts \cup {"CANCELLED"} /\ None \notin Verdicts \cup {"CANCELLED"}
  BY DEF Verdicts
<1>3. CASE QuietStep
  <2>1. decisions' = decisions /\ listed' = listed
    BY <1>3 DEF QuietStep, SameEvidence
  <2>2. \A r \in Runs : approval[r] \in Verdicts \cup {"CANCELLED"} => approval'[r] = approval[r]
    BY <1>1, <1>2, <1>3 DEF QuietStep, ApprovalMoves, DbTypeOK
  <2>3. QED BY <2>1, <2>2
<1>4. CASE CommitStep
  <2>1. PICK r \in Runs, d \in Decisions, reply \in Replies : Commits(r, d, reply)
    BY <1>4 DEF CommitStep
  <2>2. /\ approval[r] = "PENDING"
        /\ approval' = [approval EXCEPT ![r] = d.verdict]
        /\ decisions' = [decisions EXCEPT ![r] = @ \cup {d}]
        /\ listed' = [listed EXCEPT ![VendorOf[r]] =
                         IF d.verdict = "APPROVED" /\ @ = None THEN r ELSE @]
    BY <1>1, <2>1, CommitsEffect
  <2>3. QED BY <1>1, <1>2, <2>2 DEF DbTypeOK
<1>5. QED BY <1>1, <1>3, <1>4, EveryStep

\* A closed approval, its decision and the vendor's listing are never changed
\* again, not by a second execution and not by a late attempt.
THEOREM ClosedApprovalStays == Spec => ClosedApprovalIsFinal
<1> DEFINE Stays ==
      /\ \A r \in Runs :
            approval[r] \in Verdicts \cup {"CANCELLED"} =>
                approval'[r] = approval[r] /\ decisions'[r] = decisions[r]
      /\ \A v \in Vendors : listed[v] # None => listed'[v] = listed[v]
<1>1. IInv /\ [Next]_vars => [Stays]_vars
  BY StepKeepsClosed
<1>2. ClosedApprovalIsFinal <=> [][Stays]_vars
  BY PTL DEF ClosedApprovalIsFinal
<1> HIDE DEF Stays
<1>3. QED BY <1>1, <1>2, Invariance, PTL DEF Spec

\* The mapped variables of ApprovalCase.
Recorded == {r \in Runs : /\ decisions[r] # {}
                          /\ <<40, "approval_decided">> \in events[r]
                          /\ "approval.decision.record" \in audits[r]}

Notified == {r \in Runs : invocation[r]["email"] = "ok"}

LEMMA InitCase == Init => Case!Init
BY DEF Init, Case!Init, Tools

LEMMA QuietImplementsCase ==
    ASSUME IInv, QuietStep
    PROVE  [Case!Next]_Case!vars
<1>1. DbTypeOK
  BY TypeParts DEF IInv
<1>2. decisions' = decisions /\ listed' = listed
  BY DEF QuietStep, SameEvidence
<1>3. Recorded' = Recorded /\ Notified' = Notified
  BY <1>2 DEF QuietStep, SameEvidence, Recorded, Notified, Decided
<1>4. CASE approval' = approval
  BY <1>2, <1>3, <1>4 DEF Case!vars, Recorded, Notified
<1>5. ASSUME NEW r \in Runs, approval[r] = None,
             approval' = [approval EXCEPT ![r] = "PENDING"]
      PROVE  Case!Next
  <2>1. Case!Ask(r)
    BY <1>2, <1>3, <1>5 DEF Case!Ask, Recorded, Notified
  <2>2. QED BY <2>1 DEF Case!Next
<1>6. ASSUME NEW r \in Runs, approval[r] = "PENDING",
             approval' = [approval EXCEPT ![r] = "CANCELLED"]
      PROVE  Case!Next
  <2>1. Case!Cancel(r)
    BY <1>2, <1>3, <1>6 DEF Case!Cancel, Recorded, Notified
  <2>2. QED BY <2>1 DEF Case!Next
<1>7. QED BY <1>4, <1>5, <1>6 DEF QuietStep, ApprovalMoves

LEMMA CommitImplementsCase ==
    ASSUME IInv, NEW r \in Runs, NEW d \in Decisions, NEW reply, Commits(r, d, reply)
    PROVE  Case!Reject(r) \/ Case!Approve(r)
<1>1. DbTypeOK /\ Core
  BY TypeParts DEF IInv, Core
<1>2. /\ approval[r] = "PENDING"
      /\ approval' = [approval EXCEPT ![r] = d.verdict]
      /\ decisions' = [decisions EXCEPT ![r] = @ \cup {d}]
      /\ listed' = [listed EXCEPT ![VendorOf[r]] =
                       IF d.verdict = "APPROVED" /\ @ = None THEN r ELSE @]
      /\ \A s \in Runs :
            /\ Decided \in events'[s] <=> s = r \/ Decided \in events[s]
            /\ "approval.decision.record" \in audits'[s]
                  <=> s = r \/ "approval.decision.record" \in audits[s]
            /\ invocation'[s]["email"] = "ok"
                  <=> \/ s = r /\ d.verdict = "APPROVED"
                      \/ invocation[s]["email"] = "ok"
  BY <1>1, CommitsEffect
<1>3. \A s \in Runs : decisions'[s] # {} <=> s = r \/ decisions[s] # {}
  BY <1>1, <1>2 DEF DbTypeOK
<1>4. Recorded' = Recorded \cup {r}
  BY <1>2, <1>3 DEF Recorded, Decided
<1>5. CASE d.verdict = "APPROVED"
  <2>1. Notified' = Notified \cup {r}
    BY <1>2, <1>5 DEF Notified
  <2>2. listed' = [listed EXCEPT ![VendorOf[r]] = IF @ = None THEN r ELSE @]
    BY <1>2, <1>5
  <2>3. QED BY <1>2, <1>4, <1>5, <2>1, <2>2 DEF Case!Approve, Recorded, Notified
<1>6. CASE d.verdict = "REJECTED"
  <2>1. Notified' = Notified
    BY <1>2, <1>6 DEF Notified
  <2>2. listed' = listed
    BY <1>1, <1>2, <1>6, ConstantsAssumption DEF DbTypeOK
  <2>3. QED BY <1>2, <1>4, <1>6, <2>1, <2>2 DEF Case!Reject, Recorded, Notified
<1>7. QED BY <1>5, <1>6, ConstantsAssumption DEF Verdicts

LEMMA StepImplementsCase == IInv /\ [Next]_vars => [Case!Next]_Case!vars
<1> SUFFICES ASSUME IInv, [Next]_vars PROVE [Case!Next]_Case!vars
  OBVIOUS
<1>1. QuietStep \/ CommitStep
  BY EveryStep DEF IInv
<1>2. CASE QuietStep
  BY <1>2, QuietImplementsCase
<1>3. CASE CommitStep
  BY <1>3, CommitImplementsCase DEF CommitStep, Case!Next
<1>4. QED BY <1>1, <1>2, <1>3

\* The retried, crash-prone activities implement the one-shot approval case.
THEOREM CaseImplemented == Spec => ImplementsCase
<1>1. Init /\ [][Next]_vars => [][Case!Next]_Case!vars
  BY StepImplementsCase, Invariance, PTL DEF Spec
<1>2. QED BY <1>1, InitCase, PTL DEF Spec, ImplementsCase, Case!Spec
-----------------------------------------------------------------------------
(***************************************************************************)
(* One execution of each workflow id.                                      *)
(*                                                                         *)
(* What approvers and operators are told comes true only under conditions  *)
(* the code does not enforce itself; each is a hypothesis of the theorems  *)
(* that need it, and without it TLC finds the property violated.           *)
(***************************************************************************)
\* Temporal runs a workflow id at most once.
OneExecution == \A r \in Runs : MaxExecutions[r] <= 1

\* Two submitted decisions never share an idempotency key.
DistinctKeys == \A d, e \in Decisions : d.key = e.key => d = e

\* The notification fails transiently only, and fewer things fail than an activity
\* has attempts.
EnoughAttempts == "email" \notin BrokenTools /\ MaxFaults < MaxAttempts

\* Nothing has happened to a run whose workflow has not been started, and a
\* workflow that was started is not started again.
Unstarted ==
    \A r \in Runs :
        /\ executions[r] <= MaxExecutions[r]
        /\ phase[r] = "absent" <=> executions[r] = 0
        /\ executions[r] = 0 =>
              /\ chosen[r] = None /\ ~requested[r] /\ ~cancelled[r]
              /\ approval[r] = None
              /\ acked[r] = {}
              /\ \A l \in late : l.run # r

\* The workflow has chosen a decision or has been cancelled, and the database,
\* the API and the late attempts go by its choice.
ChoiceStands ==
    \A r \in Runs :
        /\ chosen[r] # None => ~cancelled[r] /\ requested[r]
        /\ requested[r] => approval[r] # None
        /\ decisions[r] \subseteq {chosen[r]}
        /\ acked[r] # {} => chosen[r] # None
        /\ approval[r] = "CANCELLED" => cancelled[r]
        /\ "workflow.cancel" \in audits[r] => cancelled[r]

LateIsCurrent ==
    \A l \in late :
        /\ l.activity = "record_decision" => l.decision = chosen[l.run]
        /\ l.activity = "cancel_review" => cancelled[l.run]

OnceInv == Unstarted /\ ChoiceStands /\ LateIsCurrent

(***************************************************************************)
(* What the body of activity a for run r may do, beyond the above.         *)
(***************************************************************************)
\* It leaves every other run alone.
OthersStay(r) ==
    \A s \in Runs \ {r} :
        /\ run'[s] = run[s] /\ approval'[s] = approval[s]
        /\ decisions'[s] = decisions[s] /\ audits'[s] = audits[s]

\* Only record_decision adds a decision, its own; only cancel_review cancels; only
\* request_approval creates the request, and does so when it returns.
KeepsToItsTask(a, r, d, reply) ==
    /\ \A e \in decisions'[r] : e \in decisions[r] \/ (a = "record_decision" /\ e = d)
    /\ approval'[r] = "CANCELLED" => approval[r] = "CANCELLED" \/ a = "cancel_review"
    /\ "workflow.cancel" \in audits'[r] => "workflow.cancel" \in audits[r] \/ a = "cancel_review"
    /\ approval[r] # None => approval'[r] # None
    /\ a = "request_approval" /\ reply = "ok" => approval'[r] # None

\* Only the first two activities fail for good, and they leave the run FAILED.
FailsOpenly(a, r, reply) ==
    /\ reply = "fatal" => a \in {"begin_review", "assess_risk"} /\ run'[r] = "FAILED"
    /\ a \in {"begin_review", "assess_risk"} /\ run[r] = "FAILED" => run'[r] = "FAILED"

\* An error that is retried is a fault, unless record_decision met a row under its
\* key or a request it cannot decide.
RetryIsFault(a, r, d, reply) ==
    reply = "retry" => \/ Fault
                       \/ /\ a = "record_decision"
                          /\ \/ SameKey(r, d) # {} /\ d \notin SameKey(r, d)
                             \/ SameKey(r, d) = {} /\ approval[r] # "PENDING"
                             \/ invocation[r]["email"] = "bad"

\* A notification fails for good only where that is possible at all.
EmailStays ==
    "email" \notin BrokenTools =>
        \A s \in Runs : invocation[s]["email"] # "bad" => invocation'[s]["email"] # "bad"

BodyMoves(a, r, d, reply) ==
    /\ OthersStay(r)
    /\ KeepsToItsTask(a, r, d, reply)
    /\ FailsOpenly(a, r, reply)
    /\ RetryIsFault(a, r, d, reply)
    /\ EmailStays

LEMMA RequiredToolFailedMoves ==
    ASSUME DbTypeOK, NEW r \in Runs, NEW reply, NEW status, NEW e,
           RequiredToolFailed(r, reply, status, e)
    PROVE  /\ \A s \in Runs \ {r} : run'[s] = run[s] /\ audits'[s] = audits[s]
           /\ "workflow.cancel" \in audits'[r] => "workflow.cancel" \in audits[r]
           /\ run'[r] = IF reply = "fatal" THEN "FAILED" ELSE status
           /\ reply \in {"retry", "fatal"}
BY DEF RequiredToolFailed, Audit, DbTypeOK

LEMMA ToolCallMoves ==
    ASSUME DbTypeOK, NEW r \in Runs, NEW t \in Tools \ {"email"}, NEW reply,
           ToolCall(r, t, reply)
    PROVE  EmailStays /\ (reply = "retry" => Fault)
<1>1. "email" \in Tools \ {t}
  BY DEF Tools
<1>2. \A s \in Runs : invocation'[s]["email"] = invocation[s]["email"]
  BY <1>1, ToolCallEffect
<1>3. QED BY <1>2 DEF EmailStays, ToolCall

LEMMA BeginReviewMoves ==
    ASSUME DbTypeOK, NEW r \in Runs, NEW d, NEW reply, BeginReview(r, reply)
    PROVE  BodyMoves("begin_review", r, d, reply)
<1> DEFINE status == IF run[r] = "PENDING" THEN "RUNNING" ELSE run[r]
           e == <<15, "review_failed">>
<1>1. EmailStays /\ (reply = "retry" => Fault)
  <2>1. "lookup" \in Tools \ {"email"}
    BY DEF Tools
  <2>2. QED BY <2>1, ToolCallMoves DEF BeginReview
<1>2. UNCHANGED <<approval, decisions, listed>>
  BY DEF BeginReview
<1>3. /\ \A s \in Runs \ {r} : run'[s] = run[s] /\ audits'[s] = audits[s]
      /\ "workflow.cancel" \in audits'[r] => "workflow.cancel" \in audits[r]
      /\ run'[r] = IF reply = "fatal" THEN "FAILED" ELSE status
  <2>1. CASE /\ reply = "ok"
             /\ run' = [run EXCEPT ![r] = status]
             /\ Audit(r, "vendor.review.start")
    BY <2>1 DEF Audit, DbTypeOK
  <2>2. CASE RequiredToolFailed(r, reply, status, e)
    <3> HIDE DEF status, e
    <3>1. QED BY <2>2, RequiredToolFailedMoves
  <2>3. QED BY <2>1, <2>2 DEF BeginReview
<1>4. QED
  BY <1>1, <1>2, <1>3
  DEF BodyMoves, OthersStay, KeepsToItsTask, FailsOpenly, RetryIsFault

LEMMA AssessRiskMoves ==
    ASSUME DbTypeOK, NEW r \in Runs, NEW d, NEW reply, AssessRisk(r, reply)
    PROVE  BodyMoves("assess_risk", r, d, reply)
<1> DEFINE e == <<25, "review_failed">>
<1>1. EmailStays /\ (reply = "retry" => Fault)
  <2>1. "search" \in Tools \ {"email"}
    BY DEF Tools
  <2>2. QED BY <2>1, ToolCallMoves DEF AssessRisk
<1>2. UNCHANGED <<vendor, approval, decisions, listed>>
  BY DEF AssessRisk
<1>3. /\ \A s \in Runs \ {r} : run'[s] = run[s] /\ audits'[s] = audits[s]
      /\ "workflow.cancel" \in audits'[r] => "workflow.cancel" \in audits[r]
      /\ run'[r] = IF reply = "fatal" THEN "FAILED" ELSE run[r]
  <2>1. CASE reply = "ok" /\ UNCHANGED run /\ Audit(r, "vendor.risk.assess")
    BY <2>1 DEF Audit, DbTypeOK
  <2>2. CASE RequiredToolFailed(r, reply, run[r], e)
    <3> HIDE DEF e
    <3>1. QED BY <2>2, RequiredToolFailedMoves
  <2>3. QED BY <2>1, <2>2 DEF AssessRisk
<1>4. QED
  BY <1>1, <1>2, <1>3
  DEF BodyMoves, OthersStay, KeepsToItsTask, FailsOpenly, RetryIsFault

LEMMA RequestApprovalMoves ==
    ASSUME DbTypeOK, NEW r \in Runs, NEW d, NEW reply, RequestApproval(r, reply)
    PROVE  BodyMoves("request_approval", r, d, reply)
<1>1. UNCHANGED <<vendor, decisions, listed, invocation>>
  BY DEF RequestApproval
<1>2. /\ approval'[r] = IF approval[r] = None THEN "PENDING" ELSE approval[r]
      /\ None # "PENDING"
      /\ \A s \in Runs \ {r} : approval'[s] = approval[s] /\ run'[s] = run[s]
  BY ConstantsAssumption DEF RequestApproval, RequestedApproval, DbTypeOK
<1>3. /\ \A s \in Runs \ {r} : audits'[s] = audits[s]
      /\ "workflow.cancel" \in audits'[r] => "workflow.cancel" \in audits[r]
  BY DEF RequestApproval, Audit, DbTypeOK
<1>4. (reply = "ok" \/ (reply = "retry" /\ Fault))
  BY DEF RequestApproval, OkOrHandoffFault
<1>5. QED
  BY <1>1, <1>2, <1>3, <1>4
  DEF BodyMoves, OthersStay, KeepsToItsTask, FailsOpenly, RetryIsFault, EmailStays

LEMMA CancelReviewMoves ==
    ASSUME DbTypeOK, NEW r \in Runs, NEW d, NEW reply, CancelReview(r, reply)
    PROVE  BodyMoves("cancel_review", r, d, reply)
<1>1. reply = "ok"
  BY DEF CancelReview
<1>2. decisions' = decisions /\ invocation' = invocation
  BY DEF CancelReview, dbVars
<1>3. /\ \A s \in Runs \ {r} : run'[s] = run[s] /\ approval'[s] = approval[s]
                                 /\ audits'[s] = audits[s]
      /\ approval[r] # None => approval'[r] # None
  BY ConstantsAssumption DEF CancelReview, CancelledApproval, Audit, dbVars, DbTypeOK
<1>4. QED
  BY <1>1, <1>2, <1>3
  DEF BodyMoves, OthersStay, KeepsToItsTask, FailsOpenly, RetryIsFault, EmailStays

LEMMA RecordDecisionMoves ==
    ASSUME DbTypeOK, NEW r \in Runs, NEW d \in Decisions, NEW reply, RecordDecision(r, d, reply)
    PROVE  BodyMoves("record_decision", r, d, reply)
<1>1. CASE Replays(r, d, reply)
  BY <1>1
  DEF Replays, dbVars, BodyMoves, OthersStay, KeepsToItsTask, FailsOpenly, RetryIsFault, EmailStays
<1>2. CASE Refused(r, d, reply)
  BY <1>2
  DEF Refused, dbVars, BodyMoves, OthersStay, KeepsToItsTask, FailsOpenly, RetryIsFault, EmailStays
<1>3. CASE Commits(r, d, reply)
  <2>1. d.verdict \in Verdicts /\ None \notin Verdicts /\ "CANCELLED" \notin Verdicts
    BY ConstantsAssumption DEF Verdicts
  <2>2. /\ approval'[r] = d.verdict
        /\ \A e \in decisions'[r] : e \in decisions[r] \/ e = d
        /\ \A s \in Runs \ {r} : run'[s] = run[s] /\ approval'[s] = approval[s]
                                   /\ decisions'[s] = decisions[s]
    BY <1>3 DEF Commits, Write, DbTypeOK
  <2>3. /\ \A s \in Runs \ {r} : audits'[s] = audits[s]
        /\ "workflow.cancel" \in audits'[r] => "workflow.cancel" \in audits[r]
    BY <1>3 DEF Commits, Write, Audit, DbTypeOK
  <2>4. reply = "ok" \/ (reply = "retry" /\ Fault)
    BY <1>3 DEF Commits, OkOrHandoffFault
  <2>5. EmailStays
    <3>1. "email" \in Tools
      BY DEF Tools
    <3>2. CASE UNCHANGED invocation
      BY <3>2 DEF EmailStays
    <3>3. CASE Record(r, "email", "ok")
      BY <3>1, <3>3, RecordType DEF EmailStays
    <3>4. QED BY <1>3, <3>2, <3>3 DEF Commits, Write
  <2>6. QED
    BY <2>1, <2>2, <2>3, <2>4, <2>5
    DEF BodyMoves, OthersStay, KeepsToItsTask, FailsOpenly, RetryIsFault
<1>4. QED BY <1>1, <1>2, <1>3 DEF RecordDecision

LEMMA AbortsMoves ==
    ASSUME DbTypeOK, NEW a \in Activities, NEW r \in Runs, NEW d, NEW S \in SUBSET Tools,
           NEW reply, Aborts(r, S, reply)
    PROVE  BodyMoves(a, r, d, reply)
<1>1. /\ UNCHANGED <<run, vendor, approval, decisions, listed, events, audits>>
      /\ Fault /\ reply = "retry"
  BY DEF Aborts
<1>2. EmailStays
  <2>1. CASE UNCHANGED invocation
    BY <2>1 DEF EmailStays
  <2>2. CASE \E t \in S \cap BrokenTools : invocation[r][t] = "none" /\ Record(r, t, "bad")
    <3>1. PICK t \in S \cap BrokenTools : Record(r, t, "bad")
      BY <2>2
    <3>2. t \in Tools /\ "email" \in Tools
      BY DEF Tools
    <3>3. QED BY <3>1, <3>2, RecordType DEF EmailStays
  <2>3. QED BY <2>1, <2>2 DEF Aborts
<1>3. QED
  BY <1>1, <1>2 DEF BodyMoves, OthersStay, KeepsToItsTask, FailsOpenly, RetryIsFault

\* Every body that Temporal delivers keeps to that.
LEMMA BodyMovesAlways ==
    ASSUME DbTypeOK, NEW a \in Activities, NEW r \in Runs, NEW d \in Decisions \cup {None},
           a = "record_decision" => d \in Decisions, NEW reply, Body(a, r, d, reply)
    PROVE  BodyMoves(a, r, d, reply)
<1>1. ToolsOf(a, d) \in SUBSET Tools
  BY DEF ToolsOf, Tools, Activities
<1>2. QED
  BY <1>1, BeginReviewMoves, AssessRiskMoves, RequestApprovalMoves, RecordDecisionMoves,
     CancelReviewMoves, AbortsMoves DEF Body
-----------------------------------------------------------------------------
(***************************************************************************)
(* The choice stands.                                                      *)
(***************************************************************************)
\* What the database may hold of run s, given what its workflow has chosen.
FollowsChoice(s) ==
    /\ requested[s] => approval'[s] # None
    /\ executions[s] = 0 => approval'[s] = None
    /\ decisions'[s] \subseteq {chosen[s]}
    /\ approval'[s] = "CANCELLED" => cancelled[s]
    /\ "workflow.cancel" \in audits'[s] => cancelled[s]

LEMMA SameDbFollows ==
    ASSUME OnceInv, UNCHANGED dbVars, NEW s \in Runs
    PROVE  FollowsChoice(s)
BY DEF OnceInv, Unstarted, ChoiceStands, dbVars, FollowsChoice

LEMMA BodyFollows ==
    ASSUME OnceInv, NEW a, NEW r \in Runs, NEW d, NEW reply, BodyMoves(a, r, d, reply),
           a = "record_decision" => d = chosen[r],
           a = "cancel_review" => cancelled[r],
           executions[r] # 0, NEW s \in Runs
    PROVE  FollowsChoice(s)
<1>1. CASE s # r
  BY <1>1
  DEF OnceInv, Unstarted, ChoiceStands, BodyMoves, OthersStay, FollowsChoice
<1>2. CASE s = r
  BY <1>2
  DEF OnceInv, Unstarted, ChoiceStands, BodyMoves, KeepsToItsTask, FollowsChoice
<1>3. QED BY <1>1, <1>2

\* The current activity has been started, and works for the workflow's choice.
LEMMA CurrentFollows ==
    ASSUME TypeOK, OnceInv, NEW r \in Runs, Current(r) # None
    PROVE  /\ phase[r] \notin Closed
           /\ executions[r] # 0
           /\ Current(r) = "cancel_review" => cancelled[r]
           /\ Current(r) = "record_decision" <=> phase[r] = "recording_decision"
           /\ Current(r) \in {"begin_review", "assess_risk"}
                <=> phase[r] \in {"created", "assessing_risk"}
BY DEF TypeOK, OnceInv, Unstarted, Current, Phases, Closed

\* An attempt moves the control of its run only, and not back to the start.
LEMMA AttemptControl ==
    ASSUME TypeOK, OnceInv, NEW r \in Runs, Current(r) # None, Current(r) \in Activities,
           Advance(r) \/ Again(r) \/ Fail(r)
    PROVE  /\ \A s \in Runs : phase'[s] = "absent" <=> phase[s] = "absent"
           /\ \A s \in Runs : requested[s] => requested'[s]
           /\ \A s \in Runs : requested'[s] => \/ requested[s]
                                               \/ /\ s = r /\ Advance(r)
                                                  /\ Current(r) = "request_approval"
<1>1. phase[r] # "absent"
  BY CurrentFollows DEF Closed
<1>2. CASE Advance(r)
  <2>1. NextPhase(Current(r)) # "absent"
    BY DEF NextPhase, Activities
  <2>2. QED BY <1>1, <1>2, <2>1 DEF Advance, TypeOK
<1>3. CASE Again(r) \/ Fail(r)
  BY <1>1, <1>3 DEF Again, Fail, TypeOK
<1>4. QED BY <1>2, <1>3

LEMMA AttemptKeepsOnce ==
    ASSUME TypeOK, HasDecision, OnceInv, NEW r \in Runs, Attempt(r)
    PROVE  OnceInv'
<1>1. PICK reply \in Replies :
         /\ Body(Current(r), r, chosen[r], reply)
         /\ \/ reply = "ok" /\ Advance(r)
            \/ reply = "retry" /\ Again(r)
            \/ reply = "fatal" /\ Fail(r)
  BY DEF Attempt
<1>2. /\ Current(r) # None
      /\ UNCHANGED <<chosen, cancelled, executions, late, inbox, acked>>
  BY DEF Attempt
<1>3. /\ Current(r) \in Activities
      /\ chosen[r] \in Decisions \cup {None}
      /\ Current(r) = "record_decision" => chosen[r] \in Decisions
  BY <1>2, CurrentType
<1>4. BodyMoves(Current(r), r, chosen[r], reply)
  BY <1>1, <1>3, BodyMovesAlways, TypeParts
<1>5. \A s \in Runs : FollowsChoice(s)
  BY <1>2, <1>4, CurrentFollows, BodyFollows
<1>6. /\ \A s \in Runs : phase'[s] = "absent" <=> phase[s] = "absent"
      /\ \A s \in Runs : requested[s] => requested'[s]
      /\ \A s \in Runs : requested'[s] => \/ requested[s]
                                          \/ /\ s = r /\ Advance(r)
                                             /\ Current(r) = "request_approval"
  BY <1>1, <1>2, <1>3, AttemptControl
<1>7. \A s \in Runs : requested'[s] => approval'[s] # None
  <2>1. SUFFICES ASSUME NEW s \in Runs, requested'[s] PROVE approval'[s] # None
    OBVIOUS
  <2>2. CASE requested[s]
    BY <1>5, <2>2 DEF FollowsChoice
  <2>3. CASE s = r /\ Advance(r) /\ Current(r) = "request_approval"
    <3>1. reply = "ok" \/ approval[r] # None
      <4>1. CASE reply # "ok"
        <5>1. Again(r) \/ Fail(r)
          BY <1>1, <4>1
        <5>2. requested[r]
          BY <2>1, <2>3, <5>1 DEF Again, Fail
        <5>3. QED BY <5>2 DEF OnceInv, ChoiceStands
      <4>2. QED BY <4>1
    <3>2. QED BY <1>4, <2>3, <3>1 DEF BodyMoves, KeepsToItsTask
  <2>4. QED BY <1>6, <2>1, <2>2, <2>3
<1>8. executions[r] # 0
  BY <1>2, CurrentFollows
<1>9. \A s \in Runs : executions[s] = 0 => requested'[s] = requested[s]
  <2>1. \A s \in Runs \ {r} : requested'[s] = requested[s]
    BY <1>1 DEF Advance, Again, Fail, TypeOK
  <2>2. QED BY <1>8, <2>1
<1>10. Unstarted'
  BY <1>2, <1>5, <1>6, <1>9 DEF OnceInv, Unstarted, FollowsChoice
<1>11. ChoiceStands'
  BY <1>2, <1>5, <1>6, <1>7 DEF OnceInv, ChoiceStands, FollowsChoice
<1>12. LateIsCurrent'
  BY <1>2 DEF OnceInv, LateIsCurrent
<1>13. QED BY <1>10, <1>11, <1>12 DEF OnceInv

LEMMA TimesOutKeepsOnce ==
    ASSUME TypeOK, HasDecision, OnceInv, NEW r \in Runs, TimesOut(r)
    PROVE  OnceInv'
<1> DEFINE l == [run |-> r, activity |-> Current(r), decision |-> chosen[r],
                 execution |-> executions[r], attempt |-> attempt[r]]
<1>1. /\ Current(r) # None /\ Again(r)
      /\ late' = late \cup {l}
      /\ UNCHANGED <<dbVars, chosen, cancelled, executions, inbox, acked>>
  BY DEF TimesOut
<1>2. /\ executions[r] # 0 /\ phase[r] # "absent"
      /\ Current(r) = "cancel_review" => cancelled[r]
  BY <1>1, CurrentFollows DEF Closed
<1>3. requested' = requested /\ \A s \in Runs : phase'[s] = "absent" <=> phase[s] = "absent"
  BY <1>1, <1>2 DEF Again, TypeOK
<1>4. \A m \in late' : m \in late \/ (/\ m.run = r
                                      /\ m.decision = chosen[r]
                                      /\ m.activity = "cancel_review" => cancelled[r])
  BY <1>1, <1>2
<1>5. Unstarted'
  <2> HIDE DEF l
  <2>1. QED BY <1>1, <1>2, <1>3, <1>4 DEF OnceInv, Unstarted, dbVars
<1>6. ChoiceStands'
  <2> HIDE DEF l
  <2>1. QED BY <1>1, <1>3 DEF OnceInv, ChoiceStands, dbVars
<1>7. LateIsCurrent'
  <2> HIDE DEF l
  <2>1. QED BY <1>1, <1>4 DEF OnceInv, LateIsCurrent
<1>8. QED BY <1>5, <1>6, <1>7 DEF OnceInv

LEMMA LateKeepsOnce ==
    ASSUME TypeOK, HasDecision, OnceInv, NEW l \in late, LateCommit(l)
    PROVE  OnceInv'
<1>1. PICK reply \in Replies : Body(l.activity, l.run, l.decision, reply)
  BY DEF LateCommit
<1>2. late' = late \ {l} /\ UNCHANGED <<wfVars, executions, inbox, acked>>
  BY DEF LateCommit
<1>3. /\ l.activity \in Activities /\ l.run \in Runs /\ l.decision \in Decisions \cup {None}
      /\ l.activity = "record_decision" => l.decision \in Decisions
  BY DEF TypeOK, LateAttempts, HasDecision
<1>4. BodyMoves(l.activity, l.run, l.decision, reply)
  BY <1>1, <1>3, BodyMovesAlways, TypeParts
<1>5. /\ executions[l.run] # 0
      /\ l.activity = "record_decision" => l.decision = chosen[l.run]
      /\ l.activity = "cancel_review" => cancelled[l.run]
  BY <1>3 DEF OnceInv, Unstarted, LateIsCurrent
<1>6. \A s \in Runs : FollowsChoice(s)
  BY <1>3, <1>4, <1>5, BodyFollows
<1>7. Unstarted'
  BY <1>2, <1>6 DEF OnceInv, Unstarted, FollowsChoice, wfVars
<1>8. ChoiceStands'
  BY <1>2, <1>6 DEF OnceInv, ChoiceStands, FollowsChoice, wfVars
<1>9. LateIsCurrent'
  BY <1>2 DEF OnceInv, LateIsCurrent, wfVars
<1>10. QED BY <1>7, <1>8, <1>9 DEF OnceInv

\* The start: nothing of the run is there yet, for there is no second execution.
LEMMA StartKeepsOnce ==
    ASSUME OneExecution, TypeOK, OnceInv, NEW r \in Runs, StartExecution(r)
    PROVE  OnceInv'
<1> USE ConstantsAssumption
<1>1. executions[r] = 0 /\ executions[r] + 1 <= MaxExecutions[r]
  <2>1. executions[r] \in Nat /\ MaxExecutions[r] \in Nat
    BY DEF TypeOK
  <2>2. executions[r] < MaxExecutions[r] /\ MaxExecutions[r] <= 1
    BY DEF StartExecution, OneExecution
  <2>3. QED BY <2>1, <2>2
<1>2. /\ chosen[r] = None /\ ~requested[r] /\ ~cancelled[r]
      /\ approval[r] = None /\ acked[r] = {} /\ \A l \in late : l.run # r
  BY <1>1 DEF OnceInv, Unstarted
<1>3. /\ executions' = [executions EXCEPT ![r] = 1]
      /\ phase' = [phase EXCEPT ![r] = "created"]
      /\ UNCHANGED <<dbVars, requested, chosen, cancelled, late, inbox, acked, faults>>
  BY <1>1, <1>2 DEF StartExecution, TypeOK
<1>4. Unstarted'
  BY <1>1, <1>3 DEF OnceInv, Unstarted, TypeOK, dbVars
<1>5. ChoiceStands' /\ LateIsCurrent'
  BY <1>3 DEF OnceInv, ChoiceStands, LateIsCurrent, dbVars
<1>6. QED BY <1>4, <1>5 DEF OnceInv

LEMMA CancelKeepsOnce ==
    ASSUME TypeOK, OnceInv, NEW r \in Runs, Cancel(r)
    PROVE  OnceInv'
<1>1. /\ Open(r)
      /\ UNCHANGED <<dbVars, phase, requested, chosen, executions, late, acked>>
      /\ \A s \in Runs : cancelled'[s] <=> cancelled[s] \/ (s = r /\ chosen[r] = None)
  BY DEF Cancel, TypeOK
<1>2. executions[r] # 0
  BY <1>1 DEF OnceInv, Unstarted, Open, Closed
<1>3. Unstarted' /\ LateIsCurrent'
  BY <1>1, <1>2 DEF OnceInv, Unstarted, LateIsCurrent, TypeOK, LateAttempts, dbVars
<1>4. ChoiceStands'
  BY <1>1 DEF OnceInv, ChoiceStands, dbVars
<1>5. QED BY <1>3, <1>4 DEF OnceInv

LEMMA DecideKeepsOnce ==
    ASSUME TypeOK, OnceInv, NEW r \in Runs, NEW d \in Decisions, Decide(r, d)
    PROVE  OnceInv'
<1>1. /\ UNCHANGED <<dbVars, wfVars, executions, late, faults>>
      /\ approval[r] # None
      /\ \A s \in Runs : acked'[s] # acked[s] => s = r /\ decisions[r] # {}
  BY DEF Decide, SameKey, TypeOK
<1>2. decisions[r] # {} => chosen[r] # None
  BY ConstantsAssumption DEF OnceInv, ChoiceStands, TypeOK
<1>3. Unstarted'
  BY <1>1 DEF OnceInv, Unstarted, dbVars, wfVars
<1>4. ChoiceStands' /\ LateIsCurrent'
  BY <1>1, <1>2 DEF OnceInv, ChoiceStands, LateIsCurrent, dbVars, wfVars
<1>5. QED BY <1>3, <1>4 DEF OnceInv

\* An update: the first decision is chosen, none ever replaces it.
LEMMA UpdateKeepsOnce ==
    ASSUME TypeOK, HasDecision, OnceInv, NEW r \in Runs, NEW d \in Decisions, Update(r, d)
    PROVE  OnceInv'
<1> USE ConstantsAssumption
<1>1. /\ UNCHANGED <<dbVars, phase, requested, cancelled, attempt, executions, late, faults>>
      /\ \A s \in Runs \ {r} : chosen'[s] = chosen[s] /\ acked'[s] = acked[s]
      /\ chosen'[r] = IF ~Duplicate(r, d) /\ Valid(r, d) THEN d ELSE chosen[r]
      /\ acked'[r] = IF Duplicate(r, d) \/ Valid(r, d) THEN acked[r] \cup {d} ELSE acked[r]
  BY DEF Update, TypeOK
<1>2. CASE chosen' = chosen /\ acked' = acked
  BY <1>1, <1>2 DEF OnceInv, Unstarted, ChoiceStands, LateIsCurrent, dbVars
<1>3. CASE Duplicate(r, d)
  <2>1. chosen[r] # None
    BY <1>3 DEF Duplicate
  <2>2. \A s \in Runs : chosen'[s] = chosen[s]
    BY <1>1, <1>3
  <2>3. executions[r] # 0
    BY <2>1 DEF OnceInv, Unstarted
  <2>4. Unstarted'
    BY <1>1, <2>2, <2>3 DEF OnceInv, Unstarted, dbVars
  <2>5. ChoiceStands'
    BY <1>1, <2>1, <2>2 DEF OnceInv, ChoiceStands, dbVars
  <2>6. LateIsCurrent'
    BY <1>1, <2>2 DEF OnceInv, LateIsCurrent, TypeOK, LateAttempts
  <2>7. QED BY <2>4, <2>5, <2>6 DEF OnceInv
<1>4. CASE ~Duplicate(r, d) /\ Valid(r, d)
  <2>1. /\ phase[r] = "waiting_for_approval" /\ requested[r] /\ ~cancelled[r]
        /\ chosen[r] = None \/ chosen[r] = d
        /\ chosen'[r] = d /\ d # None
    BY <1>1, <1>4 DEF Valid
  <2>2. executions[r] # 0
    BY <2>1 DEF OnceInv, Unstarted
  <2>3. decisions[r] \subseteq {d}
    BY <2>1 DEF OnceInv, ChoiceStands, TypeOK
  <2>4. Unstarted'
    BY <1>1, <2>2 DEF OnceInv, Unstarted, dbVars
  <2>5. ChoiceStands'
    BY <1>1, <2>1, <2>3 DEF OnceInv, ChoiceStands, dbVars
  <2>6. ASSUME NEW l \in late, l.activity = "record_decision"
        PROVE  l.decision = chosen'[l.run]
    <3>1. l.decision = chosen[l.run] /\ l.decision \in Decisions /\ l.run \in Runs
      BY <2>6 DEF OnceInv, LateIsCurrent, HasDecision, TypeOK, LateAttempts
    <3>2. QED BY <1>1, <2>1, <3>1
  <2>7. LateIsCurrent'
    BY <1>1, <2>6 DEF OnceInv, LateIsCurrent
  <2>8. QED BY <2>4, <2>5, <2>7 DEF OnceInv
<1>5. CASE ~Duplicate(r, d) /\ ~Valid(r, d)
  <2>1. \A s \in Runs : chosen'[s] = chosen[s] /\ acked'[s] = acked[s]
    BY <1>1, <1>5
  <2>2. Unstarted' /\ ChoiceStands'
    BY <1>1, <2>1 DEF OnceInv, Unstarted, ChoiceStands, dbVars
  <2>3. LateIsCurrent'
    BY <1>1, <2>1 DEF OnceInv, LateIsCurrent, TypeOK, LateAttempts
  <2>4. QED BY <2>2, <2>3 DEF OnceInv
<1>6. QED BY <1>3, <1>4, <1>5

LEMMA InitOnce == Init => OnceInv
BY ConstantsAssumption DEF Init, OnceInv, Unstarted, ChoiceStands, LateIsCurrent

LEMMA StepOnce ==
    ASSUME OneExecution, IInv, OnceInv, [Next]_vars
    PROVE  OnceInv'
<1>1. TypeOK /\ HasDecision
  BY DEF IInv
<1>2. ASSUME NEW r \in Runs, Resume(r) PROVE OnceInv'
  <2>1. /\ UNCHANGED <<dbVars, requested, chosen, cancelled, executions, late, acked>>
        /\ \A s \in Runs : phase'[s] = "absent" <=> phase[s] = "absent"
    BY <1>1, <1>2 DEF Resume, TypeOK
  <2>2. QED BY <2>1 DEF OnceInv, Unstarted, ChoiceStands, LateIsCurrent, dbVars
<1>3. CASE UNCHANGED vars
  BY <1>3 DEF vars, dbVars, wfVars, OnceInv, Unstarted, ChoiceStands, LateIsCurrent
<1>4. QED
  BY <1>1, <1>2, <1>3, StartKeepsOnce, AttemptKeepsOnce, TimesOutKeepsOnce, LateKeepsOnce,
     CancelKeepsOnce, DecideKeepsOnce, UpdateKeepsOnce DEF Next

LEMMA OnceInvariance ==
    ASSUME OneExecution
    PROVE  Spec => [](IInv /\ OnceInv)
<1>1. IInv /\ OnceInv /\ [Next]_vars => (IInv /\ OnceInv)'
  BY StepInv, StepOnce
<1>2. QED BY <1>1, InitInv, InitOnce, PTL DEF Spec

\* Where a workflow id is executed once, a decision that was acknowledged or recorded
\* is never undone by a cancellation (decide, cancel, cancel_review).
THEOREM DecisionsAreNotCancelled == OneExecution => (Spec => []CancelExcludesDecision)
<1> SUFFICES ASSUME OneExecution PROVE Spec => []CancelExcludesDecision
  OBVIOUS
<1>1. ASSUME IInv, OnceInv PROVE CancelExcludesDecision
  <2>1. ASSUME NEW r \in Runs, acked[r] \cup decisions[r] # {}
        PROVE  approval[r] # "CANCELLED" /\ "workflow.cancel" \notin audits[r]
    <3>1. chosen[r] # None
      BY <1>1, <2>1, ConstantsAssumption DEF IInv, TypeOK, OnceInv, ChoiceStands
    <3>2. QED BY <1>1, <3>1 DEF OnceInv, ChoiceStands
  <2>2. QED BY <2>1 DEF CancelExcludesDecision
<1>2. QED BY <1>1, OnceInvariance, PTL

(***************************************************************************)
(* What was acknowledged is what is recorded.                              *)
(***************************************************************************)
\* An approver is only told of the decision the workflow has chosen.
AckedIsChosen == \A r \in Runs : acked[r] \subseteq {chosen[r]}

LEMMA StepAcked ==
    ASSUME OneExecution, DistinctKeys, IInv, OnceInv, AckedIsChosen, [Next]_vars
    PROVE  AckedIsChosen'
<1> USE ConstantsAssumption
<1>1. TypeOK
  BY DEF IInv
<1>2. ASSUME NEW r \in Runs, StartExecution(r) PROVE AckedIsChosen'
  <2>1. executions[r] = 0
    <3>1. executions[r] \in Nat /\ MaxExecutions[r] \in Nat
      BY <1>1 DEF TypeOK
    <3>2. executions[r] < MaxExecutions[r] /\ MaxExecutions[r] <= 1
      BY <1>2 DEF StartExecution, OneExecution
    <3>3. QED BY <3>1, <3>2
  <2>2. acked[r] = {}
    BY <2>1 DEF OnceInv, Unstarted
  <2>3. acked' = acked /\ \A s \in Runs \ {r} : chosen'[s] = chosen[s]
    BY <1>1, <1>2 DEF StartExecution, TypeOK
  <2>4. QED BY <2>2, <2>3 DEF AckedIsChosen
<1>3. ASSUME NEW r \in Runs, NEW d \in Decisions, Decide(r, d) PROVE AckedIsChosen'
  <2>1. /\ chosen' = chosen
        /\ \A s \in Runs : acked'[s] # acked[s] =>
              s = r /\ acked'[r] = acked[r] \cup {d} /\ d \in decisions[r]
    BY <1>1, <1>3 DEF Decide, SameKey, TypeOK, wfVars
  <2>2. decisions[r] \subseteq {chosen[r]}
    BY DEF OnceInv, ChoiceStands
  <2>3. QED BY <2>1, <2>2 DEF AckedIsChosen
<1>4. ASSUME NEW r \in Runs, NEW d \in Decisions, Update(r, d) PROVE AckedIsChosen'
  <2>1. /\ \A s \in Runs \ {r} : chosen'[s] = chosen[s] /\ acked'[s] = acked[s]
        /\ chosen'[r] = IF ~Duplicate(r, d) /\ Valid(r, d) THEN d ELSE chosen[r]
        /\ acked'[r] = IF Duplicate(r, d) \/ Valid(r, d) THEN acked[r] \cup {d} ELSE acked[r]
    BY <1>1, <1>4 DEF Update, TypeOK
  <2>2. CASE Duplicate(r, d)
    <3>1. chosen[r] \in Decisions /\ chosen[r].key = d.key
      BY <1>1, <2>2 DEF Duplicate, TypeOK
    <3>2. chosen[r] = d
      BY <3>1 DEF DistinctKeys
    <3>3. QED BY <2>1, <2>2, <3>2 DEF AckedIsChosen
  <2>3. CASE ~Duplicate(r, d) /\ Valid(r, d)
    <3>1. chosen[r] = None \/ chosen[r] = d
      BY <2>3 DEF Valid
    <3>2. acked[r] \subseteq {d}
      BY <3>1 DEF AckedIsChosen, OnceInv, ChoiceStands
    <3>3. QED BY <2>1, <2>3, <3>2 DEF AckedIsChosen
  <2>4. CASE ~Duplicate(r, d) /\ ~Valid(r, d)
    BY <2>1, <2>4 DEF AckedIsChosen
  <2>5. QED BY <2>2, <2>3, <2>4
<1>5. CASE UNCHANGED <<chosen, acked>>
  BY <1>5 DEF AckedIsChosen
<1>6. CASE \/ \E r \in Runs : Attempt(r) \/ TimesOut(r) \/ Resume(r) \/ Cancel(r)
           \/ \E l \in late : LateCommit(l)
  BY <1>5, <1>6 DEF Attempt, TimesOut, Resume, Cancel, LateCommit, wfVars
<1>7. CASE UNCHANGED vars
  BY <1>5, <1>7 DEF vars, wfVars
<1>8. QED BY <1>2, <1>3, <1>4, <1>6, <1>7 DEF Next

\* Where a workflow id is executed once and no key is used twice, the decision an
\* approver was told is accepted is the one the database holds (ADR 0004;
\* decide_onboarding, validate_decision).
THEOREM AcknowledgementsAreTrue ==
    OneExecution /\ DistinctKeys => (Spec => []AckedIsRecorded)
<1> SUFFICES ASSUME OneExecution, DistinctKeys PROVE Spec => []AckedIsRecorded
  OBVIOUS
<1>1. Init => AckedIsChosen
  BY DEF Init, AckedIsChosen
<1>2. (IInv /\ OnceInv) /\ AckedIsChosen /\ [Next]_vars => AckedIsChosen'
  BY StepAcked
<1>3. (IInv /\ OnceInv) /\ AckedIsChosen => AckedIsRecorded
  BY DEF OnceInv, ChoiceStands, AckedIsChosen, AckedIsRecorded
<1>4. QED BY <1>1, <1>2, <1>3, OnceInvariance, PTL DEF Spec

(***************************************************************************)
(* A workflow that fails leaves a run that says so.                        *)
(***************************************************************************)
PastAssessment == {"waiting_for_approval", "recording_decision", "completed", "cancelled"}

\* Every attempt but the first was paid for with a fault, and nothing but a late
\* attempt of the first two activities is left when the workflow has failed.
AttemptsLeft ==
    /\ faults <= MaxFaults
    /\ \A r \in Runs : attempt[r] <= 1 + faults
    /\ \A r \in Runs : invocation[r]["email"] # "bad"
    /\ \A l \in late : l.activity \in {"begin_review", "assess_risk"}
                          \/ phase[l.run] \in PastAssessment

FailInv == AttemptsLeft /\ FailureIsRecorded

LEMMA FaultIsCounted ==
    ASSUME TypeOK, faults <= MaxFaults, Fault \/ NoFault
    PROVE  faults' \in Nat /\ faults' <= MaxFaults /\ faults <= faults'
BY ConstantsAssumption DEF TypeOK, Fault, NoFault

\* With a fault for every repetition, attempts never run out.
LEMMA AgainGoesOn ==
    ASSUME EnoughAttempts, TypeOK, AttemptsLeft, NEW r \in Runs, Again(r), Fault
    PROVE  /\ phase' = phase
           /\ \A s \in Runs : attempt'[s] <= 1 + faults'
<1>1. /\ faults \in Nat /\ MaxFaults \in Nat /\ MaxAttempts \in Nat
      /\ attempt \in [Runs -> Nat] /\ attempt[r] \in Nat
      /\ faults < MaxFaults /\ faults' = faults + 1
      /\ attempt[r] <= 1 + faults /\ MaxFaults < MaxAttempts
  BY ConstantsAssumption DEF EnoughAttempts, TypeOK, AttemptsLeft, Fault
<1>2. attempt[r] < MaxAttempts
  BY <1>1
<1>3. phase' = phase /\ attempt' = [attempt EXCEPT ![r] = @ + 1]
  BY <1>2 DEF Again
<1>4. \A s \in Runs : attempt[s] \in Nat /\ attempt[s] <= 1 + faults
  BY <1>1 DEF AttemptsLeft
<1>5. QED BY <1>1, <1>3, <1>4

\* record_decision for the workflow's choice meets nothing that makes it fail.
LEMMA RecordingNeedsAFault ==
    ASSUME IInv, OnceInv, AttemptsLeft, NEW r \in Runs, chosen[r] # None,
           NEW reply, RetryIsFault("record_decision", r, chosen[r], reply), reply = "retry"
    PROVE  Fault
<1>1. decisions[r] \subseteq {chosen[r]} /\ ~cancelled[r] /\ approval[r] # None
      /\ approval[r] # "CANCELLED"
  BY DEF OnceInv, ChoiceStands
<1>2. SameKey(r, chosen[r]) # {} => chosen[r] \in SameKey(r, chosen[r])
  BY <1>1 DEF SameKey
<1>3. ASSUME SameKey(r, chosen[r]) = {} PROVE approval[r] = "PENDING"
  <2>1. decisions[r] = {}
    BY <1>1, <1>3 DEF SameKey
  <2>2. approval[r] \notin Verdicts
    BY <2>1 DEF IInv, DecisionIsAtomic
  <2>3. QED BY <1>1, <2>2 DEF IInv, TypeOK
<1>4. invocation[r]["email"] # "bad"
  BY DEF AttemptsLeft
<1>5. QED BY <1>2, <1>3, <1>4 DEF RetryIsFault

\* What a body does to the runs whose workflow has failed, and to the notifications.
LEMMA BodyKeepsFailure ==
    ASSUME EnoughAttempts, IInv, FailInv, NEW a, NEW r \in Runs, NEW d, NEW reply,
           BodyMoves(a, r, d, reply), Fault \/ NoFault,
           a \in {"begin_review", "assess_risk"} \/ phase[r] # "failed"
    PROVE  /\ faults' \in Nat /\ faults' <= MaxFaults /\ faults <= faults'
           /\ \A s \in Runs : invocation'[s]["email"] # "bad"
           /\ \A s \in Runs : phase[s] = "failed" => run'[s] = "FAILED"
<1>1. faults' \in Nat /\ faults' <= MaxFaults /\ faults <= faults'
  BY FaultIsCounted DEF IInv, FailInv, AttemptsLeft
<1>2. \A s \in Runs : invocation'[s]["email"] # "bad"
  BY DEF EnoughAttempts, FailInv, AttemptsLeft, BodyMoves, EmailStays
<1>3. ASSUME NEW s \in Runs, phase[s] = "failed" PROVE run'[s] = "FAILED"
  <2>1. run[s] = "FAILED"
    BY <1>3 DEF FailInv, FailureIsRecorded
  <2>2. CASE s # r
    BY <2>1, <2>2 DEF BodyMoves, OthersStay
  <2>3. CASE s = r
    BY <1>3, <2>1, <2>3 DEF BodyMoves, FailsOpenly
  <2>4. QED BY <2>2, <2>3
<1>4. QED BY <1>1, <1>2, <1>3

LEMMA AttemptKeepsFailure ==
    ASSUME EnoughAttempts, IInv, OnceInv, FailInv, NEW r \in Runs, Attempt(r)
    PROVE  FailInv'
<1>1. PICK reply \in Replies :
         /\ Body(Current(r), r, chosen[r], reply)
         /\ \/ reply = "ok" /\ Advance(r)
            \/ reply = "retry" /\ Again(r)
            \/ reply = "fatal" /\ Fail(r)
  BY DEF Attempt
<1>2. /\ Current(r) # None
      /\ UNCHANGED <<chosen, cancelled, executions, late, inbox, acked>>
  BY DEF Attempt
<1>3. TypeOK /\ HasDecision /\ DbTypeOK
  BY TypeParts DEF IInv
<1>4. /\ Current(r) \in Activities
      /\ chosen[r] \in Decisions \cup {None}
      /\ Current(r) = "record_decision" => chosen[r] \in Decisions
  BY <1>2, <1>3, CurrentType
<1>5. BodyMoves(Current(r), r, chosen[r], reply) /\ (Fault \/ NoFault)
  BY <1>1, <1>3, <1>4, BodyMovesAlways, BodyFaults
<1>6. /\ phase[r] # "failed"
      /\ Current(r) \in {"begin_review", "assess_risk"}
            <=> phase[r] \in {"created", "assessing_risk"}
  BY <1>2, <1>3, CurrentFollows DEF Closed
<1>7. /\ faults' \in Nat /\ faults' <= MaxFaults /\ faults <= faults'
      /\ \A s \in Runs : invocation'[s]["email"] # "bad"
      /\ \A s \in Runs : phase[s] = "failed" => run'[s] = "FAILED"
  BY <1>5, <1>6, BodyKeepsFailure
<1>8. \A s \in Runs : attempt[s] \in Nat /\ attempt[s] <= 1 + faults /\ faults \in Nat
  BY <1>3 DEF TypeOK, FailInv, AttemptsLeft
<1>9. CASE reply = "ok" /\ Advance(r)
  <2>1. /\ phase' = [phase EXCEPT ![r] = NextPhase(Current(r))]
        /\ attempt' = [attempt EXCEPT ![r] = 1]
    BY <1>9 DEF Advance
  <2>2. /\ NextPhase(Current(r)) # "failed"
        /\ phase[r] \in PastAssessment => NextPhase(Current(r)) \in PastAssessment
    BY <1>4, <1>6 DEF NextPhase, Activities, PastAssessment
  <2>3. \A s \in Runs : attempt'[s] <= 1 + faults'
    BY <1>3, <1>7, <1>8, <2>1 DEF TypeOK
  <2>4. \A s \in Runs : phase'[s] = "failed" => run'[s] = "FAILED"
    BY <1>3, <1>7, <2>1, <2>2 DEF TypeOK
  <2>5. \A s \in Runs : phase[s] \in PastAssessment => phase'[s] \in PastAssessment
    BY <1>3, <2>1, <2>2 DEF TypeOK
  <2>6. \A l \in late : l.run \in Runs
    BY <1>3 DEF TypeOK, LateAttempts
  <2>7. QED
    BY <1>2, <1>7, <2>3, <2>4, <2>5, <2>6 DEF FailInv, AttemptsLeft, FailureIsRecorded
<1>10. CASE reply = "retry" /\ Again(r)
  <2>1. Fault
    <3>1. CASE Current(r) # "record_decision"
      BY <1>5, <1>10, <3>1 DEF BodyMoves, RetryIsFault
    <3>2. CASE Current(r) = "record_decision"
      <4>1. chosen[r] # None
        BY <1>4, <3>2, ConstantsAssumption
      <4>2. QED BY <1>5, <1>10, <3>2, <4>1, RecordingNeedsAFault DEF BodyMoves, FailInv
    <3>3. QED BY <3>1, <3>2
  <2>2. phase' = phase /\ \A s \in Runs : attempt'[s] <= 1 + faults'
    BY <1>3, <1>10, <2>1, AgainGoesOn DEF FailInv
  <2>3. QED BY <1>2, <1>7, <2>2 DEF FailInv, AttemptsLeft, FailureIsRecorded
<1>11. CASE reply = "fatal" /\ Fail(r)
  <2>1. Current(r) \in {"begin_review", "assess_risk"} /\ run'[r] = "FAILED"
    BY <1>5, <1>11 DEF BodyMoves, FailsOpenly
  <2>2. phase' = [phase EXCEPT ![r] = "failed"] /\ attempt' = attempt
    BY <1>11 DEF Fail
  <2>3. \A l \in late : l.run \in Runs
    BY <1>3 DEF TypeOK, LateAttempts
  <2>4. phase[r] \notin PastAssessment
    BY <1>6, <2>1 DEF PastAssessment
  <2>5. \A s \in Runs : phase[s] \in PastAssessment => phase'[s] = phase[s]
    BY <1>3, <2>2, <2>4 DEF TypeOK
  <2>6. \A s \in Runs : phase'[s] = "failed" => run'[s] = "FAILED"
    BY <1>3, <1>7, <2>1, <2>2 DEF TypeOK
  <2>7. \A s \in Runs : attempt'[s] <= 1 + faults'
    BY <1>7, <1>8, <2>2
  <2>8. QED
    BY <1>2, <1>7, <2>3, <2>5, <2>6, <2>7 DEF FailInv, AttemptsLeft, FailureIsRecorded
<1>12. QED BY <1>1, <1>9, <1>10, <1>11

LEMMA TimesOutKeepsFailure ==
    ASSUME EnoughAttempts, IInv, OnceInv, FailInv, NEW r \in Runs, TimesOut(r)
    PROVE  FailInv'
<1> DEFINE l == [run |-> r, activity |-> Current(r), decision |-> chosen[r],
                 execution |-> executions[r], attempt |-> attempt[r]]
<1>1. /\ Current(r) # None /\ Fault /\ Again(r)
      /\ late' = late \cup {l}
      /\ UNCHANGED dbVars
  BY DEF TimesOut
<1>2. TypeOK /\ HasDecision
  BY DEF IInv
<1>3. phase' = phase /\ \A s \in Runs : attempt'[s] <= 1 + faults'
  BY <1>1, <1>2, AgainGoesOn DEF FailInv
<1>4. faults' <= MaxFaults
  BY <1>1, <1>2, FaultIsCounted DEF FailInv, AttemptsLeft
<1>5. Current(r) \in {"begin_review", "assess_risk"} \/ phase[r] \in PastAssessment
  BY <1>1, <1>2, CurrentFollows DEF TypeOK, Phases, Closed, PastAssessment
<1>6. \A m \in late' : m \in late \/ (m.run = r /\ m.activity = Current(r))
  BY <1>1
<1>7. QED
  <2> HIDE DEF l
  <2>1. QED
    BY <1>1, <1>3, <1>4, <1>5, <1>6 DEF FailInv, AttemptsLeft, FailureIsRecorded, dbVars

LEMMA LateKeepsFailure ==
    ASSUME EnoughAttempts, IInv, OnceInv, FailInv, NEW l \in late, LateCommit(l)
    PROVE  FailInv'
<1>1. PICK reply \in Replies : Body(l.activity, l.run, l.decision, reply)
  BY DEF LateCommit
<1>2. late' = late \ {l} /\ UNCHANGED <<wfVars, executions, inbox, acked>>
  BY DEF LateCommit
<1>3. TypeOK /\ HasDecision /\ DbTypeOK
  BY TypeParts DEF IInv
<1>4. /\ l.activity \in Activities /\ l.run \in Runs /\ l.decision \in Decisions \cup {None}
      /\ l.activity = "record_decision" => l.decision \in Decisions
  BY <1>3 DEF TypeOK, LateAttempts, HasDecision
<1>5. BodyMoves(l.activity, l.run, l.decision, reply) /\ (Fault \/ NoFault)
  BY <1>1, <1>3, <1>4, BodyMovesAlways, BodyFaults
<1>6. l.activity \in {"begin_review", "assess_risk"} \/ phase[l.run] # "failed"
  BY DEF FailInv, AttemptsLeft, PastAssessment
<1>7. /\ faults' \in Nat /\ faults' <= MaxFaults /\ faults <= faults'
      /\ \A s \in Runs : invocation'[s]["email"] # "bad"
      /\ \A s \in Runs : phase[s] = "failed" => run'[s] = "FAILED"
  BY <1>4, <1>5, <1>6, BodyKeepsFailure
<1>8. phase' = phase /\ attempt' = attempt
  BY <1>2 DEF wfVars
<1>9. \A s \in Runs : attempt'[s] <= 1 + faults'
  <2>1. \A s \in Runs : attempt[s] \in Nat /\ attempt[s] <= 1 + faults /\ faults \in Nat
    BY <1>3 DEF TypeOK, FailInv, AttemptsLeft
  <2>2. QED BY <1>7, <1>8, <2>1
<1>10. QED
  BY <1>2, <1>7, <1>8, <1>9 DEF FailInv, AttemptsLeft, FailureIsRecorded

LEMMA StartKeepsFailure ==
    ASSUME OneExecution, IInv, OnceInv, FailInv, NEW r \in Runs, StartExecution(r)
    PROVE  FailInv'
<1>1. TypeOK
  BY DEF IInv
<1>2. executions[r] = 0
  <2>1. executions[r] \in Nat /\ MaxExecutions[r] \in Nat
    BY <1>1, ConstantsAssumption DEF TypeOK
  <2>2. executions[r] < MaxExecutions[r] /\ MaxExecutions[r] <= 1
    BY DEF StartExecution, OneExecution
  <2>3. QED BY <2>1, <2>2
<1>3. \A l \in late : l.run \in Runs \ {r}
  BY <1>1, <1>2 DEF OnceInv, Unstarted, TypeOK, LateAttempts
<1>4. /\ phase' = [phase EXCEPT ![r] = "created"]
      /\ attempt' = [attempt EXCEPT ![r] = 1]
      /\ UNCHANGED <<dbVars, late, faults>>
  BY DEF StartExecution
<1>5. \A s \in Runs : attempt'[s] <= 1 + faults
  BY <1>1, <1>4 DEF TypeOK, FailInv, AttemptsLeft
<1>6. QED
  BY <1>1, <1>3, <1>4, <1>5 DEF TypeOK, FailInv, AttemptsLeft, FailureIsRecorded, dbVars

LEMMA StepFailure ==
    ASSUME OneExecution, EnoughAttempts, IInv, OnceInv, FailInv, [Next]_vars
    PROVE  FailInv'
<1>1. TypeOK
  BY DEF IInv
<1>2. ASSUME NEW r \in Runs, Resume(r) PROVE FailInv'
  <2>1. /\ phase' = [phase EXCEPT ![r] = "recording_decision"]
        /\ attempt' = [attempt EXCEPT ![r] = 1]
        /\ UNCHANGED <<dbVars, late, faults>>
    BY <1>2 DEF Resume
  <2>2. \A s \in Runs : attempt'[s] <= 1 + faults
    BY <1>1, <2>1 DEF TypeOK, FailInv, AttemptsLeft
  <2>3. \A l \in late : l.run \in Runs
    BY <1>1 DEF TypeOK, LateAttempts
  <2>4. QED
    BY <1>1, <2>1, <2>2, <2>3
    DEF TypeOK, FailInv, AttemptsLeft, FailureIsRecorded, PastAssessment, dbVars
<1>3. CASE UNCHANGED <<dbVars, phase, attempt, late, faults>>
  BY <1>3 DEF dbVars, FailInv, AttemptsLeft, FailureIsRecorded
<1>4. CASE \E r \in Runs : Cancel(r) \/ \E d \in Decisions : Decide(r, d) \/ Update(r, d)
  BY <1>3, <1>4 DEF Cancel, Decide, Update, wfVars
<1>5. CASE UNCHANGED vars
  BY <1>3, <1>5 DEF vars, wfVars
<1>6. QED
  BY <1>2, <1>4, <1>5, StartKeepsFailure, AttemptKeepsFailure, TimesOutKeepsFailure,
     LateKeepsFailure DEF Next

\* Where a workflow id is executed once and fewer things fail than an activity has
\* attempts, a workflow that fails leaves a run that is FAILED (_required_tool_failed).
THEOREM FailuresAreRecorded ==
    OneExecution /\ EnoughAttempts => (Spec => []FailureIsRecorded)
<1> SUFFICES ASSUME OneExecution, EnoughAttempts PROVE Spec => []FailureIsRecorded
  OBVIOUS
<1>1. Init => FailInv
  <2> SUFFICES ASSUME Init PROVE FailInv
    OBVIOUS
  <2>2. AttemptsLeft
    <3>1. "email" \in Tools /\ MaxFaults \in Nat
      BY ConstantsAssumption DEF Tools
    <3>2. faults = 0 /\ late = {} /\ attempt = [r \in Runs |-> 1]
      BY DEF Init
    <3>3. \A r \in Runs : invocation[r]["email"] = "none"
      BY <3>1 DEF Init
    <3>4. QED BY <3>1, <3>2, <3>3 DEF AttemptsLeft
  <2>3. FailureIsRecorded
    <3>1. phase = [r \in Runs |-> "absent"]
      BY DEF Init
    <3>2. QED BY <3>1 DEF FailureIsRecorded
  <2>4. QED BY <2>2, <2>3 DEF FailInv
<1>2. (IInv /\ OnceInv) /\ FailInv /\ [Next]_vars => FailInv'
  BY StepFailure
<1>3. FailInv => FailureIsRecorded
  BY DEF FailInv
<1>4. QED BY <1>1, <1>2, <1>3, OnceInvariance, PTL DEF Spec
=============================================================================
