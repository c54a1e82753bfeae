---------------------------- MODULE GovernedCall ----------------------------
(***************************************************************************)
(* What the gateway promises about the calls of a run: each has, under its *)
(* key, one record that is written once.  A call is attempted only with    *)
(* the grants the run started with, the approval a sensitive tool needs    *)
(* and arguments that are valid; its record and the version it binds       *)
(* appear in one step.  A refusal leaves nothing but its record.           *)
(***************************************************************************)
CONSTANTS Runs, Keys, Tools, Names, NameOf, Defined, Sensitive, ValidArgs, None,
          Rows  \* what may be recorded of a call

VARIABLES
    started,    \* runs that exist
    snapshot,   \* the tools granted to each run
    approved,   \* has the run an approved decision?
    binding,    \* the tool a run uses for a name, or None
    invocation  \* the record of each run and key, or None

vars == <<started, snapshot, approved, binding, invocation>>

Init ==
    /\ started = {}
    /\ snapshot = [r \in Runs |-> {}]
    /\ approved = [r \in Runs |-> FALSE]
    /\ binding = [r \in Runs |-> [n \in Names |-> None]]
    /\ invocation = [r \in Runs |-> [k \in Keys |-> None]]

\* A run starts with the grants it keeps.
Start(r, tools) ==
    /\ r \notin started
    /\ started' = started \cup {r}
    /\ snapshot' = [snapshot EXCEPT ![r] = tools]
    /\ UNCHANGED <<approved, binding, invocation>>

\* Its sensitive tools are approved, for good.
Approve(r) ==
    /\ r \in started
    /\ approved' = [approved EXCEPT ![r] = TRUE]
    /\ UNCHANGED <<started, snapshot, binding, invocation>>

Writes(r, k, row) ==
    /\ r \in started
    /\ invocation[r][k] = None
    /\ invocation' = [invocation EXCEPT ![r][k] = row]
    /\ UNCHANGED <<started, snapshot, approved>>

\* The call is turned down, or breaks, before its handler.
Refuse(r, k, row) ==
    /\ row.status # "SUCCEEDED"
    /\ Writes(r, k, row)
    /\ UNCHANGED binding

Permitted(r, row) ==
    /\ row.tool \in Defined \cap snapshot[r]
    /\ row.tool \in Sensitive => approved[r]
    /\ row.args \in ValidArgs
    /\ binding[r][NameOf[row.tool]] \in {None, row.tool}

\* The handler runs, with success or without, and its tool's version is the
\* run's from then on.
Attempt(r, k, row) ==
    /\ Permitted(r, row)
    /\ Writes(r, k, row)
    /\ binding' = [binding EXCEPT ![r][NameOf[row.tool]] = row.tool]

Next == \E r \in Runs :
    \/ \E tools \in SUBSET Tools : Start(r, tools)
    \/ Approve(r)
    \/ \E k \in Keys, row \in Rows : Refuse(r, k, row) \/ Attempt(r, k, row)

Spec == Init /\ [][Next]_vars
=============================================================================
