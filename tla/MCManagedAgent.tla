--------------------------- MODULE MCManagedAgent ---------------------------
(* Model-checking instances of ManagedAgent. *)
EXTENDS ManagedAgent, TLC

CONSTANTS parent, child, greedy

\* A top-level run and two that it may delegate to.
OneParent == [r \in Runs |-> IF r = parent THEN None ELSE parent]

Do(kind, arg) == [do |-> kind, arg |-> arg]

\* The parent saves a checkpoint and delegates, reports, looks for a cancellation
\* and asks a model, or calls a tool and asks for a child that is too greedy; the
\* child asks for approval.
AnyProgram == [r \in Runs |->
    CASE r = parent -> {<<Do("checkpoint", "input"), Do("delegate", child)>>,
                        <<Do("event", "begun"), Do("check", "1"), Do("model", "1")>>,
                        <<Do("tool", "search"), Do("delegate", greedy)>>}
      [] r = child  -> {<<Do("approval", "final")>>}
      [] OTHER      -> {<<>>}]

\* The parent can pay for its checkpoint twice, for its other calls once.
SmallLimits == [r \in Runs |->
    CASE r = parent -> [x \in Resources |->
            CASE x = "steps" -> 3 [] x = "bytes" -> 2 [] OTHER -> 1]
      [] r = child  -> [x \in Resources |-> IF x = "steps" THEN 1 ELSE 0]
      [] OTHER      -> [x \in Resources |-> IF x = "tool_calls" THEN 2 ELSE 0]]

TwoChildren == [r \in Runs |-> IF r = parent THEN 2 ELSE 0]
=============================================================================
