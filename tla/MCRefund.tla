------------------------------ MODULE MCRefund ------------------------------
(***************************************************************************)
(* Two runs for one refund that two slots of the worker execute: one with  *)
(* the grants of the seeds, the other with the e-mail tool's as well.  Two *)
(* requests decide, perhaps under one key.                                 *)
(***************************************************************************)
EXTENDS Refund, TLC

CONSTANTS alice, bob, q1, q2, r1, r2, f1, s1, s2

Approve(r, key, by) == [run |-> r, decision |-> "APPROVED", key |-> key, by |-> by]
Reject(r, key, by) == [run |-> r, decision |-> "REJECTED", key |-> key, by |-> by]

MCRefundOf == (r1 :> f1) @@ (r2 :> f1)
MCRefundOf1 == r1 :> f1
MCPayloads1 == {Approve(r1, "a", alice)}
MCPayloads == {Approve(r1, "a", alice), Reject(r1, "a", bob), Approve(r2, "b", alice)}

Seeds == {"order_details", "refund_policy"}
MCSeeded  == r1 :> Seeds
MCGranted == (r1 :> Seeds) @@ (r2 :> Seeds \cup {"synthetic_email_send"})
=============================================================================
