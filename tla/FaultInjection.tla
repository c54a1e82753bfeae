--------------------------- MODULE FaultInjection ---------------------------
(***************************************************************************)
(* The persisted fault plans (fault_injection.py): one row for each fault  *)
(* point and scope, which the workers of every process consume.  A session *)
(* reads the row FOR UPDATE and writes back the number it read less one,   *)
(* so the lock is all that keeps two of them from taking one trigger.      *)
(***************************************************************************)
EXTENDS Naturals, FiniteSets

CONSTANTS
    Plans,      \* (fault_point, scope_key)
    Sessions,   \* database sessions of workers and evaluators
    MaxGranted, \* bound: triggers configured for a plan by an operator
    None

ASSUME FaultAssumption == MaxGranted \in Nat /\ None \notin Nat

VARIABLES
    plan,     \* [status, remaining] of each row
    reader,   \* [plan, remaining] that a session has read, or None
    consumed, \* how many fault_injection_consumptions rows each plan has
    granted   \* history: triggers that create has configured

faultVars == <<plan, reader, consumed, granted>>

PlanStatus == {"absent", "ACTIVE", "EXHAUSTED", "CLEARED"}

FaultTypeOK ==
    /\ plan \in [Plans -> [status : PlanStatus, remaining : Nat]]
    /\ reader \in [Sessions -> [plan : Plans, remaining : Nat] \cup {None}]
    /\ consumed \in [Plans -> Nat]
    /\ granted \in [Plans -> Nat]

FaultInit ==
    /\ plan = [p \in Plans |-> [status |-> "absent", remaining |-> 0]]
    /\ reader = [s \in Sessions |-> None]
    /\ consumed = [p \in Plans |-> 0]
    /\ granted = [p \in Plans |-> 0]

Fires(p) == plan[p].status = "ACTIVE" /\ plan[p].remaining > 0

\* SELECT ... FOR UPDATE: somebody's transaction has the row locked.
RowLocked(p) == \E s \in Sessions : reader[s] # None /\ reader[s].plan = p

\* create: an active plan is an error of the caller, another one is reset.
CreatePlan(p, n) ==
    /\ ~RowLocked(p)
    /\ plan[p].status # "ACTIVE"
    /\ plan' = [plan EXCEPT ![p] = [status |-> "ACTIVE", remaining |-> n]]
    /\ granted' = [granted EXCEPT ![p] = @ + n]
    /\ UNCHANGED <<reader, consumed>>

\* What consume would be without with_for_update.
SelectPlanUnlocked(s, p) ==
    /\ reader[s] = None
    /\ Fires(p)
    /\ reader' = [reader EXCEPT ![s] = [plan |-> p, remaining |-> plan[p].remaining]]
    /\ UNCHANGED <<plan, consumed, granted>>

\* consume, up to the SELECT, which returns the row.
SelectPlan(s, p) ==
    /\ reader[s] = None
    /\ ~RowLocked(p)
    /\ Fires(p)
    /\ reader' = [reader EXCEPT ![s] = [plan |-> p, remaining |-> plan[p].remaining]]
    /\ UNCHANGED <<plan, consumed, granted>>

\* consume, to the commit: the caller gets a directive.
TakeTrigger(s, p) ==
    /\ reader[s] # None
    /\ reader[s].plan = p
    /\ LET left == reader[s].remaining - 1
       IN plan' = [plan EXCEPT ![p] = [status |-> IF left = 0 THEN "EXHAUSTED" ELSE @.status,
                                       remaining |-> left]]
    /\ reader' = [reader EXCEPT ![s] = None]
    /\ consumed' = [consumed EXCEPT ![p] = @ + 1]
    /\ UNCHANGED granted

\* The process dies, or its connection, before the commit.
RollBack(s) ==
    /\ reader[s] # None
    /\ reader' = [reader EXCEPT ![s] = None]
    /\ UNCHANGED <<plan, consumed, granted>>

ClearPlan(p) ==
    /\ ~RowLocked(p)
    /\ plan[p].status # "absent"
    /\ plan' = [plan EXCEPT ![p] = [status |-> "CLEARED", remaining |-> 0]]
    /\ UNCHANGED <<reader, consumed, granted>>

\* The fault-plan routes of an isolated environment (api.py).
Configure(p) ==
    \/ ClearPlan(p)
    \/ \E n \in 1 .. MaxGranted : granted[p] + n <= MaxGranted /\ CreatePlan(p, n)

FaultNext ==
    \/ \E p \in Plans : Configure(p)
    \/ \E s \in Sessions, p \in Plans : SelectPlan(s, p) \/ TakeTrigger(s, p)
    \/ \E s \in Sessions : RollBack(s)

FaultSpec == FaultInit /\ [][FaultNext]_faultVars

(***************************************************************************)
(* A trigger fires once: however many workers reach the fault point, and   *)
(* whatever is cleared or configured again meanwhile, the triggers that    *)
(* were consumed and those that are left are no more than were configured  *)
(* (fault_injection.py, consume; the claim of FaultDirective).             *)
(***************************************************************************)
TriggersAreSpentOnce ==
    \A p \in Plans : consumed[p] + plan[p].remaining <= granted[p]
=============================================================================
