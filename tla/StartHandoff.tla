---------------------------- MODULE StartHandoff ----------------------------
(***************************************************************************)
(* What the recoverable workflow start promises, seen from outside: for    *)
(* each idempotency key an intent is persisted, Temporal accepts a start   *)
(* for it, and only then is the start recorded as done.  No stage is       *)
(* skipped and none is ever left again, whatever callers crash, whatever   *)
(* answers are lost and however many callers and recovery commands work on *)
(* the same intent.  The lease, the tokens, the callers and the network of *)
(* WorkflowStart do not appear here.                                       *)
(***************************************************************************)
CONSTANT Keys   \* the (principal, idempotency key) pairs

VARIABLE stage  \* [Keys -> Stages]

Stages == {"absent", "intended", "accepted", "started"}

\* A start intent is committed.
Intend(k) ==
    /\ stage[k] = "absent"
    /\ stage' = [stage EXCEPT ![k] = "intended"]

\* Temporal accepts the first execution for the intent's workflow id.
Accept(k) ==
    /\ stage[k] = "intended"
    /\ stage' = [stage EXCEPT ![k] = "accepted"]

\* The coordinator records the start as done.
Settle(k) ==
    /\ stage[k] = "accepted"
    /\ stage' = [stage EXCEPT ![k] = "started"]

Init == stage = [k \in Keys |-> "absent"]

Next == \E k \in Keys : Intend(k) \/ Accept(k) \/ Settle(k)

Spec == Init /\ [][Next]_stage

=============================================================================
