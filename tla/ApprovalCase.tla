---------------------------- MODULE ApprovalCase ----------------------------
(***************************************************************************)
(* What an onboarding review promises about its approval: a request is     *)
(* opened once and closed once, by a decision or a cancellation; a         *)
(* decision and its record, notification and vendor listing appear in one  *)
(* step; and none of it is ever taken back.                                *)
(***************************************************************************)
CONSTANTS Cases, Vendors, VendorOf, None

VARIABLES
    outcome,   \* of each case: None, PENDING, APPROVED, REJECTED or CANCELLED
    recorded,  \* cases with a decision row, its event and its audit entry
    notified,  \* cases whose vendor was sent the approval notification
    listed     \* the case that put the vendor on the approved list, or None

vars == <<outcome, recorded, notified, listed>>

Init ==
    /\ outcome = [c \in Cases |-> None]
    /\ recorded = {}
    /\ notified = {}
    /\ listed = [v \in Vendors |-> None]

\* The approval request is opened.
Ask(c) ==
    /\ outcome[c] = None
    /\ outcome' = [outcome EXCEPT ![c] = "PENDING"]
    /\ UNCHANGED <<recorded, notified, listed>>

\* The request is rejected.
Reject(c) ==
    /\ outcome[c] = "PENDING"
    /\ outcome' = [outcome EXCEPT ![c] = "REJECTED"]
    /\ recorded' = recorded \cup {c}
    /\ UNCHANGED <<notified, listed>>

\* The request is approved; the first approval lists the vendor.
Approve(c) ==
    /\ outcome[c] = "PENDING"
    /\ outcome' = [outcome EXCEPT ![c] = "APPROVED"]
    /\ recorded' = recorded \cup {c}
    /\ notified' = notified \cup {c}
    /\ listed' = [listed EXCEPT ![VendorOf[c]] = IF @ = None THEN c ELSE @]

\* The review is cancelled while its request is pending.
Cancel(c) ==
    /\ outcome[c] = "PENDING"
    /\ outcome' = [outcome EXCEPT ![c] = "CANCELLED"]
    /\ UNCHANGED <<recorded, notified, listed>>

Next == \E c \in Cases : Ask(c) \/ Reject(c) \/ Approve(c) \/ Cancel(c)

Spec == Init /\ [][Next]_vars
=============================================================================
