--------------------------- MODULE MCToolGateway ---------------------------
(***************************************************************************)
(* The tool gateway on a small instance: an agent that is registered with  *)
(* both versions of one tool, and two callers that share a pool of two     *)
(* connections and contend for a key and for the tool's name.              *)
(***************************************************************************)
EXTENDS ToolGateway

CONSTANTS lookup1, lookup2, draft, ghost, ops, opsA, q1, r1, k1, k2, good, bad, c1, c2

MCVersionOf  == opsA :> ops
MCDeclared   == opsA :> {lookup1, lookup2, draft}
MCBatches    == q1 :> <<opsA>>
MCSeeded     == ops :> None
MCSeedGrants == ops :> {}
MCNameOf     == (lookup1 :> "lookup") @@ (lookup2 :> "lookup") @@ (draft :> "draft") @@ (ghost :> "ghost")

Ask(k, t, a, known) == [run |-> r1, key |-> k, tool |-> t, args |-> a, known |-> known]
MCTries == (c1 :> 2) @@ (c2 :> 1)
MCAsks == {Ask(k1, lookup1, good, TRUE), Ask(k1, lookup1, bad, TRUE),
           Ask(k2, lookup2, good, TRUE), Ask(k1, draft, good, TRUE), Ask(k2, ghost, good, TRUE)}
=============================================================================
