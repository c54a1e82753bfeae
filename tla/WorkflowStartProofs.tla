------------------------ MODULE WorkflowStartProofs -------------------------
(***************************************************************************)
(* Proofs about WorkflowStart for any set of keys, callers and recovery    *)
(* commands and any number of faults.  The inductive invariant IInv adds   *)
(* to the checked invariants what a process may assume at each of its      *)
(* steps: which claim it holds, and what Temporal has done for it.         *)
(***************************************************************************)
EXTENDS WorkflowStart, FiniteSetTheorems, TLAPS

\* A process inside start() works on a persisted run, and from its claim on
\* holds one of the tokens drawn for that run.
ProcInv ==
    \A p \in Procs :
        /\ pc[p] = "idle" => target[p] = None /\ token[p] = 0
        /\ pc[p] = "claim" => token[p] = 0
        /\ pc[p] # "idle" => target[p] \in Keys /\ intent[target[p]] # None
        /\ pc[p] \in {"call", "calling", "accepted", "already", "error"}
              => token[p] \in 1 .. attempts[target[p]]

\* The work list of a recovery command holds persisted runs.
TodoInv == \A o \in Recoverers : \A k \in todo[o] : intent[k] # None

\* A claim that has not been called yet has no request and no execution.
CallInv ==
    \A p \in Procs : pc[p] = "call" =>
        /\ <<target[p], token[p]>> \notin wire
        /\ token[p] \notin executions[target[p]]

\* Temporal's answers are truthful, and only persisted runs reach it.
TemporalInv ==
    /\ \A p \in Procs :
          pc[p] \in {"accepted", "already"} => executions[target[p]] # {}
    /\ \A k \in Keys : open[k] => executions[k] # {}
    /\ \A k \in Keys : executions[k] # {} => intent[k] # None
    /\ \A m \in wire : intent[m[1]] # None

\* A settled row carries no lease.
SettledInv == \A k \in Keys : status[k] = "STARTED" => lease[k] = "none"

IInv ==
    /\ TypeOK
    /\ ProcInv
    /\ TodoInv
    /\ CallInv
    /\ TemporalInv
    /\ SettledInv
    /\ ClaimIsExclusive
    /\ ResultIsFenced
    /\ OneExecutionPerClaim
    /\ StartedMeansAccepted
-----------------------------------------------------------------------------
\* What leaving start() does to the process and to its work list: it has no
\* token any more, and it is idle or about to claim another persisted run.
Moved(p) ==
    \E t \in Keys \cup {None}, x \in {"idle", "claim"} :
        /\ pc' = [pc EXCEPT ![p] = x]
        /\ target' = [target EXCEPT ![p] = t]
        /\ token' = [token EXCEPT ![p] = 0]
        /\ x = "idle" => t = None
        /\ x = "claim" => t \in Keys /\ intent[t] # None

RecoverTyped ==
    /\ todo \in [Recoverers -> SUBSET Keys]
    /\ scanned \in [Recoverers -> SUBSET Keys]
    /\ unavailable \in [Recoverers -> BOOLEAN]
    /\ exit \in [Recoverers -> {"none", "zero", "nonzero"}]

\* The loop of recover() moves its process and shrinks the work list.
LEMMA NextOfMoves ==
    ASSUME NEW o \in Recoverers, NEW S \in SUBSET Keys, IInv,
           \A k \in S : intent[k] # None,
           NEW b \in BOOLEAN, unavailable' = [unavailable EXCEPT ![o] = b],
           NextOf(o, S)
    PROVE  /\ Moved(o)
           /\ todo' \in [Recoverers -> SUBSET Keys]
           /\ exit' \in [Recoverers -> {"none", "zero", "nonzero"}]
           /\ \A q \in Recoverers : \A k \in todo'[q] : intent[k] # None
<1>1. CASE \E k \in Oldest(S) : /\ Enter(o, k)
                                /\ todo' = [todo EXCEPT ![o] = S \ {k}]
                                /\ exit' = [exit EXCEPT ![o] = "none"]
  <2>1. PICK k \in Oldest(S) : /\ Enter(o, k)
                               /\ todo' = [todo EXCEPT ![o] = S \ {k}]
                               /\ exit' = [exit EXCEPT ![o] = "none"]
    BY <1>1
  <2>2. k \in Keys /\ k \in S /\ intent[k] # None
    BY <2>1 DEF Oldest
  <2>3. Moved(o)
    BY <2>1, <2>2 DEF Moved, Enter
  <2>. QED  BY <2>1, <2>2, <2>3 DEF IInv, TypeOK, TodoInv
<1>2. CASE /\ S = {}
           /\ Leave(o)
           /\ todo' = [todo EXCEPT ![o] = {}]
           /\ exit' = [exit EXCEPT ![o] = IF unavailable'[o] THEN "nonzero" ELSE "zero"]
  <2>1. Moved(o)
    BY <1>2 DEF Moved, Leave
  <2>. QED  BY <1>2, <2>1 DEF IInv, TypeOK, TodoInv
<1>. QED  BY <1>1, <1>2 DEF NextOf

\* Returning from start() moves the process, whoever it is.
LEMMA ReturnMoves ==
    ASSUME NEW p \in Procs, NEW raised \in BOOLEAN, IInv, Return(p, raised)
    PROVE  /\ Moved(p)
           /\ RecoverTyped'
           /\ \A q \in Recoverers : \A k \in todo'[q] : intent[k] # None
<1>1. CASE p \in Callers /\ Leave(p) /\ UNCHANGED recoverVars
  BY <1>1 DEF Leave, Moved, recoverVars, RecoverTyped, IInv, TypeOK, TodoInv
<1>2. CASE /\ p \in Recoverers
           /\ unavailable' = [unavailable EXCEPT ![p] = @ \/ raised]
           /\ NextOf(p, todo[p])
           /\ UNCHANGED scanned
  <2>1. (unavailable[p] \/ raised) \in BOOLEAN
    BY <1>2 DEF IInv, TypeOK
  <2>2. unavailable' \in [Recoverers -> BOOLEAN]
    BY <1>2, <2>1 DEF IInv, TypeOK
  <2>3. todo[p] \in SUBSET Keys /\ \A k \in todo[p] : intent[k] # None
    BY <1>2 DEF IInv, TypeOK, TodoInv
  <2>4. unavailable' = [unavailable EXCEPT ![p] = unavailable[p] \/ raised]
    BY <1>2
  <2>5. /\ Moved(p)
        /\ todo' \in [Recoverers -> SUBSET Keys]
        /\ exit' \in [Recoverers -> {"none", "zero", "nonzero"}]
        /\ \A q \in Recoverers : \A k \in todo'[q] : intent[k] # None
    BY <1>2, <2>1, <2>3, <2>4, NextOfMoves
  <2>. QED  BY <1>2, <2>2, <2>5 DEF RecoverTyped, IInv, TypeOK
<1>. QED  BY <1>1, <1>2 DEF Return

-----------------------------------------------------------------------------
\* The initial state satisfies the invariant.
LEMMA InitIInv == Init => IInv
<1> SUFFICES ASSUME Init PROVE IInv
  OBVIOUS
<1>1. TypeOK
  BY DEF Init, TypeOK, StartStatus
<1>2. ProcInv /\ TodoInv /\ CallInv /\ TemporalInv /\ SettledInv
  BY DEF Init, ProcInv, TodoInv, CallInv, TemporalInv, SettledInv
<1>3. ClaimIsExclusive /\ ResultIsFenced /\ OneExecutionPerClaim /\ StartedMeansAccepted
  BY DEF Init, ClaimIsExclusive, ResultIsFenced, Held, OneExecutionPerClaim,
         StartedMeansAccepted
<1>. QED  BY <1>1, <1>2, <1>3 DEF IInv

\* A process that has moved on holds no claim: what the others hold and what
\* they may assume is as before, if the step left intents, counters and
\* Temporal alone.
LEMMA MovedProcInv ==
    ASSUME NEW p \in Procs, IInv, Moved(p),
           UNCHANGED <<intent, attempts, temporalVars>>
    PROVE  /\ ProcInv' /\ CallInv' /\ TemporalInv' /\ ClaimIsExclusive'
           /\ OneExecutionPerClaim'
           /\ pc' \in [Procs -> {"idle", "claim", "call", "calling",
                                 "accepted", "already", "error"}]
           /\ target' \in [Procs -> Keys \cup {None}]
           /\ token' \in [Procs -> Nat]
           /\ \A k \in Keys : Held(k)' => Held(k)
           /\ \A k \in Keys : Held(k)' => \E q \in Procs \ {p} :
                 target[q] = k /\ token[q] # 0 /\ token[q] = attempts[k]
<1>1. PICK t \in Keys \cup {None}, x \in {"idle", "claim"} :
        /\ pc' = [pc EXCEPT ![p] = x]
        /\ target' = [target EXCEPT ![p] = t]
        /\ token' = [token EXCEPT ![p] = 0]
        /\ x = "idle" => t = None
        /\ x = "claim" => t \in Keys /\ intent[t] # None
  BY DEF Moved
<1>2. ProcInv'
  BY <1>1 DEF IInv, TypeOK, ProcInv
<1>3. CallInv' /\ TemporalInv' /\ OneExecutionPerClaim'
  BY <1>1 DEF IInv, TypeOK, CallInv, TemporalInv, OneExecutionPerClaim, temporalVars
<1>4. ClaimIsExclusive'
  BY <1>1 DEF IInv, TypeOK, ClaimIsExclusive
<1>5. /\ pc' \in [Procs -> {"idle", "claim", "call", "calling",
                            "accepted", "already", "error"}]
      /\ target' \in [Procs -> Keys \cup {None}]
      /\ token' \in [Procs -> Nat]
  BY <1>1 DEF IInv, TypeOK
<1>6. \A k \in Keys : Held(k)' => \E q \in Procs \ {p} :
         target[q] = k /\ token[q] # 0 /\ token[q] = attempts[k]
  BY <1>1 DEF IInv, TypeOK, Held
<1>. QED  BY <1>2, <1>3, <1>4, <1>5, <1>6 DEF Held

\* create_or_get keeps the invariant.
LEMMA RequestIInv ==
    ASSUME NEW c \in Callers, NEW k \in Keys, NEW f \in Requests, IInv, Request(c, k, f)
    PROVE  IInv'
<1>. USE ConstantsAssumption
<1>0. c \in Procs /\ f # None
  BY DEF Procs
<1>1. /\ \A j \in Keys : intent[j] # None => intent'[j] # None
      /\ intent' \in [Keys -> Requests \cup {None}]
      /\ intent'[k] # None
  BY <1>0 DEF Request, IInv, TypeOK
<1>2. Cardinality(Persisted) \in Nat
  BY FS_Subset, FS_CardinalityType DEF Persisted
<1>3. created' \in [Keys -> Nat]
  BY <1>2 DEF Request, IInv, TypeOK
<1>4. TypeOK'
  BY <1>0, <1>1, <1>3 DEF Request, Enter, IInv, TypeOK, recoverVars, temporalVars
<1>5. ProcInv' /\ TodoInv' /\ SettledInv'
  BY <1>0, <1>1 DEF Request, Enter, IInv, TypeOK, recoverVars, ProcInv, TodoInv, SettledInv
<1>6. CallInv' /\ TemporalInv' /\ OneExecutionPerClaim' /\ StartedMeansAccepted'
  BY <1>0, <1>1 DEF Request, Enter, IInv, TypeOK, temporalVars, CallInv, TemporalInv,
                    OneExecutionPerClaim, StartedMeansAccepted
<1>7. ClaimIsExclusive'
  BY <1>0 DEF Request, Enter, IInv, TypeOK, ClaimIsExclusive
<1>8. ResultIsFenced'
  BY <1>0 DEF Request, Enter, IInv, TypeOK, ResultIsFenced, Held
<1>. QED  BY <1>4, <1>5, <1>6, <1>7, <1>8 DEF IInv

\* The query of recover() keeps the invariant.
LEMMA ScanIInv ==
    ASSUME NEW o \in Recoverers, IInv, Scan(o)
    PROVE  IInv'
<1>0. o \in Procs
  BY DEF Procs
<1>1. Selected \in SUBSET Keys /\ \A k \in Selected : intent[k] # None
  BY DEF Selected, Unsettled, Persisted
<1>2. /\ Moved(o)
      /\ todo' \in [Recoverers -> SUBSET Keys]
      /\ exit' \in [Recoverers -> {"none", "zero", "nonzero"}]
      /\ \A q \in Recoverers : \A k \in todo'[q] : intent[k] # None
  BY <1>1, NextOfMoves DEF Scan
<1>3. UNCHANGED <<intent, created, status, attempts, lease, wire, executions, open, faults>>
  BY DEF Scan, dbVars, temporalVars
<1>4. /\ scanned' \in [Recoverers -> SUBSET Keys]
      /\ unavailable' \in [Recoverers -> BOOLEAN]
  BY <1>1 DEF Scan, IInv, TypeOK
<1>5. /\ ProcInv' /\ CallInv' /\ TemporalInv' /\ ClaimIsExclusive' /\ OneExecutionPerClaim'
      /\ pc' \in [Procs -> {"idle", "claim", "call", "calling",
                            "accepted", "already", "error"}]
      /\ target' \in [Procs -> Keys \cup {None}]
      /\ token' \in [Procs -> Nat]
      /\ \A k \in Keys : Held(k)' => Held(k)
  BY <1>0, <1>2, <1>3, MovedProcInv DEF temporalVars
<1>6. TypeOK'
  BY <1>2, <1>3, <1>4, <1>5 DEF IInv, TypeOK
<1>7. TodoInv' /\ SettledInv' /\ StartedMeansAccepted'
  BY <1>2, <1>3 DEF IInv, TodoInv, SettledInv, StartedMeansAccepted
<1>8. ResultIsFenced'
  BY <1>3, <1>5 DEF IInv, ResultIsFenced
<1>. QED  BY <1>5, <1>6, <1>7, <1>8 DEF IInv

\* Leaving start() keeps the invariant, provided that the row is left alone
\* (Skip, or a stale token), or that the row's current claim ends with it.
LEMMA ReturnIInv ==
    ASSUME NEW p \in Procs, NEW raised \in BOOLEAN, IInv, Return(p, raised),
           UNCHANGED <<intent, created, attempts, temporalVars, faults>>,
           \/ UNCHANGED <<status, lease>>
           \/ /\ token[p] # 0 /\ target[p] \in Keys /\ token[p] = attempts[target[p]]
              /\ \/ /\ status' = [status EXCEPT ![target[p]] = "STARTED"]
                    /\ executions[target[p]] # {}
                 \/ status' = [status EXCEPT ![target[p]] = "FAILED"]
              /\ lease' = [lease EXCEPT ![target[p]] = "none"]
    PROVE  IInv'
<1>1. /\ Moved(p)
      /\ RecoverTyped'
      /\ \A q \in Recoverers : \A k \in todo'[q] : intent[k] # None
  BY ReturnMoves
<1>2. /\ ProcInv' /\ CallInv' /\ TemporalInv' /\ ClaimIsExclusive' /\ OneExecutionPerClaim'
      /\ pc' \in [Procs -> {"idle", "claim", "call", "calling",
                            "accepted", "already", "error"}]
      /\ target' \in [Procs -> Keys \cup {None}]
      /\ token' \in [Procs -> Nat]
      /\ \A k \in Keys : Held(k)' => Held(k)
      /\ \A k \in Keys : Held(k)' => \E q \in Procs \ {p} :
            target[q] = k /\ token[q] # 0 /\ token[q] = attempts[k]
  BY <1>1, MovedProcInv
<1>3. /\ status' \in [Keys -> StartStatus]
      /\ lease' \in [Keys -> {"none", "live", "expired"}]
  BY DEF IInv, TypeOK, StartStatus
<1>4. TypeOK'
  BY <1>1, <1>2, <1>3 DEF IInv, TypeOK, RecoverTyped, temporalVars
<1>5. TodoInv'
  BY <1>1 DEF TodoInv
<1>6. SettledInv' /\ StartedMeansAccepted'
  BY DEF IInv, TypeOK, SettledInv, StartedMeansAccepted, temporalVars
<1>7. ResultIsFenced'
  <2> SUFFICES ASSUME NEW k \in Keys, lease'[k] = "none", Held(k)'
               PROVE  FALSE
    BY DEF ResultIsFenced
  <2>1. PICK q \in Procs \ {p} :
          target[q] = k /\ token[q] # 0 /\ token[q] = attempts[k]
    BY <1>2
  <2>2. Held(k)
    BY <2>1 DEF Held
  <2>3. lease[k] # "none"
    BY <2>2 DEF IInv, ResultIsFenced
  <2>4. target[p] = k /\ token[p] = attempts[k] /\ token[p] # 0
    BY <2>3 DEF IInv, TypeOK
  <2>. QED  BY <2>1, <2>4 DEF IInv, ClaimIsExclusive
<1>. QED  BY <1>2, <1>4, <1>5, <1>6, <1>7 DEF IInv

\* The three ways out of start().
LEMMA SkipIInv ==
    ASSUME NEW p \in Procs, IInv, Skip(p)
    PROVE  IInv'
BY ReturnIInv DEF Skip, dbVars

LEMMA MarkStartedIInv ==
    ASSUME NEW p \in Procs, IInv, MarkStarted(p)
    PROVE  IInv'
<1>1. /\ target[p] \in Keys /\ token[p] \in 1 .. attempts[target[p]]
      /\ executions[target[p]] # {}
  BY DEF MarkStarted, Settle, IInv, ProcInv, TemporalInv
<1>2. token[p] # 0
  BY <1>1 DEF IInv, TypeOK
<1>. QED  BY <1>1, <1>2, ReturnIInv DEF MarkStarted, Settle

LEMMA MarkFailedIInv ==
    ASSUME NEW p \in Procs, IInv, MarkFailed(p)
    PROVE  IInv'
<1>1. target[p] \in Keys /\ token[p] \in 1 .. attempts[target[p]]
  BY DEF MarkFailed, Settle, IInv, ProcInv
<1>2. token[p] # 0
  BY <1>1 DEF IInv, TypeOK
<1>. QED  BY <1>1, <1>2, ReturnIInv DEF MarkFailed, Settle

\* _claim_start draws a token no process holds and no request carries.
LEMMA ClaimIInv ==
    ASSUME NEW p \in Procs, IInv, Claim(p)
    PROVE  IInv'
<1> DEFINE k == target[p]
<1>1. k \in Keys /\ intent[k] # None /\ attempts[k] \in Nat
  BY DEF Claim, Claimed, IInv, TypeOK, ProcInv
<1>2. /\ attempts' \in [Keys -> Nat]
      /\ attempts'[k] = attempts[k] + 1
      /\ \A j \in Keys : j # k => attempts'[j] = attempts[j]
      /\ token' \in [Procs -> Nat]
      /\ token'[p] = attempts[k] + 1
      /\ \A q \in Procs : q # p => token'[q] = token[q] /\ pc'[q] = pc[q]
      /\ pc'[p] = "call"
  BY <1>1 DEF Claim, Claimed, IInv, TypeOK
<1>3. TypeOK'
  BY <1>1, <1>2 DEF Claim, Claimed, IInv, TypeOK, StartStatus, recoverVars, temporalVars
<1>4. ProcInv'
  <2> SUFFICES ASSUME NEW q \in Procs
      PROVE  /\ pc'[q] = "idle" => target'[q] = None /\ token'[q] = 0
             /\ pc'[q] = "claim" => token'[q] = 0
             /\ pc'[q] # "idle" => target'[q] \in Keys /\ intent'[target'[q]] # None
             /\ pc'[q] \in {"call", "calling", "accepted", "already", "error"}
                   => token'[q] \in 1 .. attempts'[target'[q]]
    BY DEF ProcInv
  <2>1. CASE q = p
    BY <1>1, <1>2, <2>1 DEF Claim, Claimed
  <2>2. CASE q # p
    BY <1>1, <1>2, <2>2 DEF Claim, Claimed, IInv, TypeOK, ProcInv
  <2>. QED  BY <2>1, <2>2
<1>5. TodoInv' /\ SettledInv' /\ StartedMeansAccepted'
  BY <1>1 DEF Claim, Claimed, IInv, TypeOK, TodoInv, SettledInv, StartedMeansAccepted,
              recoverVars, temporalVars
<1>6. OneExecutionPerClaim' /\ <<k, attempts[k] + 1>> \notin wire
        /\ attempts[k] + 1 \notin executions[k]
  BY <1>1, <1>2 DEF Claim, Claimed, IInv, TypeOK, OneExecutionPerClaim, temporalVars
<1>7. CallInv' /\ TemporalInv'
  BY <1>1, <1>2, <1>6 DEF Claim, Claimed, IInv, CallInv, TemporalInv, temporalVars
<1>8. \A q \in Procs : target[q] = k => token[q] <= attempts[k]
  BY <1>1 DEF IInv, TypeOK, ProcInv
<1>9. ClaimIsExclusive'
  <2> SUFFICES ASSUME NEW q \in Procs, NEW r \in Procs, q # r,
                      target[q] = target[r], token'[q] # 0
               PROVE  token'[q] # token'[r]
    BY DEF ClaimIsExclusive, Claim, Claimed
  <2>1. CASE q = p
    BY <1>1, <1>2, <1>8, <2>1 DEF IInv, TypeOK
  <2>2. CASE r = p
    BY <1>1, <1>2, <1>8, <2>2 DEF IInv, TypeOK
  <2>3. CASE q # p /\ r # p
    BY <1>2, <2>3 DEF IInv, ClaimIsExclusive
  <2>. QED  BY <2>1, <2>2, <2>3
<1>10. ResultIsFenced'
  <2> SUFFICES ASSUME NEW j \in Keys, lease'[j] = "none", Held(j)'
               PROVE  FALSE
    BY DEF ResultIsFenced
  <2>1. j # k /\ lease[j] = "none"
    BY <1>1 DEF Claim, Claimed, IInv, TypeOK
  <2>2. Held(j)
    BY <1>1, <1>2, <2>1 DEF Held, Claim, Claimed
  <2>. QED  BY <2>1, <2>2 DEF IInv, ResultIsFenced
<1>. QED  BY <1>3, <1>4, <1>5, <1>6, <1>7, <1>9, <1>10 DEF IInv

\* A step that only moves p on under its claim keeps who holds what.
LEMMA CallIInv ==
    ASSUME NEW p \in Procs, IInv, Call(p)
    PROVE  IInv'
<1>1. /\ target[p] \in Keys /\ intent[target[p]] # None
      /\ token[p] \in 1 .. attempts[target[p]]
      /\ token[p] \notin executions[target[p]]
      /\ attempts[target[p]] \in Nat /\ token[p] \in Nat
  BY DEF Call, IInv, TypeOK, ProcInv, CallInv
<1>2. TypeOK'
  BY <1>1 DEF Call, IInv, TypeOK, dbVars, recoverVars
<1>3. ProcInv' /\ TodoInv' /\ SettledInv' /\ StartedMeansAccepted'
  BY <1>1 DEF Call, IInv, TypeOK, ProcInv, TodoInv, SettledInv, StartedMeansAccepted,
              dbVars, recoverVars
<1>4. ClaimIsExclusive' /\ ResultIsFenced'
  BY DEF Call, IInv, ClaimIsExclusive, ResultIsFenced, Held, dbVars
<1>5. OneExecutionPerClaim' /\ TemporalInv'
  BY <1>1 DEF Call, IInv, TypeOK, OneExecutionPerClaim, TemporalInv, dbVars
<1>6. CallInv'
  <2> SUFFICES ASSUME NEW q \in Procs, pc'[q] = "call"
      PROVE  <<target[q], token[q]>> \notin wire' /\ token[q] \notin executions[target[q]]
    BY DEF CallInv, Call
  <2>1. q # p /\ pc[q] = "call"
    BY DEF Call, IInv, TypeOK
  <2>2. token[q] # 0 /\ target[q] \in Keys
    BY <2>1 DEF IInv, TypeOK, ProcInv
  <2>3. <<target[q], token[q]>> # <<target[p], token[p]>>
    BY <2>1, <2>2 DEF IInv, ClaimIsExclusive
  <2>. QED  BY <2>1, <2>3 DEF Call, IInv, CallInv
<1>. QED  BY <1>2, <1>3, <1>4, <1>5, <1>6 DEF IInv

\* Turning an answer or a silent call into an error changes the program
\* counter only.
LEMMA ErrorIInv ==
    ASSUME NEW p \in Procs, IInv, pc[p] \in {"accepted", "calling"},
           pc' = [pc EXCEPT ![p] = "error"], faults' \in Nat,
           UNCHANGED <<dbVars, target, token, recoverVars, temporalVars>>
    PROVE  IInv'
<1>1. TypeOK'
  BY DEF IInv, TypeOK, dbVars, recoverVars, temporalVars
<1>2. ProcInv' /\ TodoInv' /\ SettledInv' /\ StartedMeansAccepted' /\ CallInv' /\ TemporalInv'
  BY DEF IInv, TypeOK, ProcInv, TodoInv, SettledInv, StartedMeansAccepted, CallInv,
         TemporalInv, dbVars, recoverVars, temporalVars
<1>3. ClaimIsExclusive' /\ ResultIsFenced' /\ OneExecutionPerClaim'
  BY DEF IInv, ClaimIsExclusive, ResultIsFenced, Held, OneExecutionPerClaim, dbVars, temporalVars
<1>. QED  BY <1>1, <1>2, <1>3 DEF IInv

LEMMA LeaseExpiresIInv ==
    ASSUME NEW k \in Keys, IInv, LeaseExpires(k)
    PROVE  IInv'
<1>1. TypeOK'
  BY DEF LeaseExpires, Fault, IInv, TypeOK, procVars, recoverVars, temporalVars
<1>2. ProcInv' /\ TodoInv' /\ StartedMeansAccepted' /\ CallInv' /\ TemporalInv'
  BY DEF LeaseExpires, IInv, ProcInv, TodoInv, StartedMeansAccepted, CallInv,
         TemporalInv, procVars, recoverVars, temporalVars
<1>3. ClaimIsExclusive' /\ OneExecutionPerClaim'
  BY DEF LeaseExpires, IInv, ClaimIsExclusive, OneExecutionPerClaim, procVars, temporalVars
<1>4. SettledInv' /\ ResultIsFenced'
  BY DEF LeaseExpires, IInv, TypeOK, SettledInv, ResultIsFenced, Held, procVars
<1>. QED  BY <1>1, <1>2, <1>3, <1>4 DEF IInv

LEMMA CrashIInv ==
    ASSUME NEW p \in Procs, IInv, Crash(p)
    PROVE  IInv'
<1>1. Moved(p)
  BY DEF Crash, Leave, Moved
<1>2. UNCHANGED <<intent, created, status, attempts, lease, wire, executions, open>>
  BY DEF Crash, dbVars, temporalVars
<1>3. /\ ProcInv' /\ CallInv' /\ TemporalInv' /\ ClaimIsExclusive' /\ OneExecutionPerClaim'
      /\ pc' \in [Procs -> {"idle", "claim", "call", "calling",
                            "accepted", "already", "error"}]
      /\ target' \in [Procs -> Keys \cup {None}]
      /\ token' \in [Procs -> Nat]
      /\ \A k \in Keys : Held(k)' => Held(k)
  BY <1>1, <1>2, MovedProcInv DEF temporalVars
<1>4. /\ RecoverTyped' /\ TodoInv' /\ faults' \in Nat
  BY <1>2 DEF Crash, Fault, IInv, TypeOK, RecoverTyped, TodoInv, recoverVars
<1>5. TypeOK'
  BY <1>2, <1>3, <1>4 DEF IInv, TypeOK, RecoverTyped
<1>6. SettledInv' /\ StartedMeansAccepted' /\ ResultIsFenced'
  BY <1>2, <1>3 DEF IInv, SettledInv, StartedMeansAccepted, ResultIsFenced
<1>. QED  BY <1>3, <1>4, <1>5, <1>6 DEF IInv

\* Temporal serves a request: it opens an execution for the request's claim, or
\* refuses because one is open; the waiting caller, if any, learns which.
LEMMA ServeIInv ==
    ASSUME NEW m \in wire, NEW lost \in BOOLEAN, IInv, Serve(m, lost)
    PROVE  IInv'
<1>1. m[1] \in Keys /\ m[2] \in Nat /\ m = <<m[1], m[2]>> /\ intent[m[1]] # None
  BY DEF IInv, TypeOK, TemporalInv
<1>2. /\ executions' \in [Keys -> SUBSET Nat]
      /\ executions'[m[1]] # {}
      /\ \A k \in Keys : executions[k] \subseteq executions'[k]
      /\ \A k \in Keys : k # m[1] => executions'[k] = executions[k]
      /\ executions'[m[1]] \subseteq executions[m[1]] \cup {m[2]}
      /\ open' \in [Keys -> BOOLEAN]
      /\ \A k \in Keys : k # m[1] => open'[k] = open[k]
  BY <1>1 DEF Serve, IInv, TypeOK, TemporalInv
<1>3. /\ pc' \in [Procs -> {"idle", "claim", "call", "calling",
                            "accepted", "already", "error"}]
      /\ faults' \in Nat
      /\ \A q \in Procs : \/ pc'[q] = pc[q]
                          \/ /\ Waiting(q, m) /\ target[q] = m[1]
                             /\ pc[q] = "calling" /\ pc'[q] \in {"accepted", "already"}
  BY DEF Serve, Fault, Waiting, IInv, TypeOK
<1>4. UNCHANGED <<intent, created, status, attempts, lease, target, token,
                  todo, scanned, unavailable, exit>> /\ wire' = wire \ {m}
  BY DEF Serve, dbVars, recoverVars
<1>5. TypeOK'
  BY <1>2, <1>3, <1>4 DEF IInv, TypeOK
<1>6. ProcInv' /\ TodoInv' /\ SettledInv'
  BY <1>3, <1>4 DEF IInv, ProcInv, TodoInv, SettledInv
<1>7. StartedMeansAccepted'
  BY <1>2, <1>4 DEF IInv, TypeOK, StartedMeansAccepted
<1>8. ClaimIsExclusive' /\ ResultIsFenced'
  BY <1>4 DEF IInv, ClaimIsExclusive, ResultIsFenced, Held
<1>9. TemporalInv'
  <2>1. ASSUME NEW q \in Procs, pc'[q] \in {"accepted", "already"}
        PROVE  executions'[target'[q]] # {}
    <3>1. CASE pc'[q] = pc[q]
      <4>1. executions[target[q]] # {} /\ target[q] \in Keys
        BY <2>1, <3>1 DEF IInv, TemporalInv, ProcInv
      <4>. QED  BY <4>1, <1>2, <1>4
    <3>2. CASE target[q] = m[1]
      BY <3>2, <1>2, <1>4
    <3>. QED  BY <1>3, <3>1, <3>2
  <2>2. \A k \in Keys : open'[k] => executions'[k] # {}
    BY <1>2 DEF IInv, TemporalInv
  <2>3. \A k \in Keys : executions'[k] # {} => intent'[k] # None
    BY <1>1, <1>2, <1>4 DEF IInv, TemporalInv
  <2>4. \A n \in wire' : intent'[n[1]] # None
    BY <1>4 DEF IInv, TemporalInv
  <2>. QED  BY <2>1, <2>2, <2>3, <2>4 DEF TemporalInv
<1>10. OneExecutionPerClaim'
  <2> SUFFICES ASSUME NEW k \in Keys
      PROVE  /\ executions'[k] \subseteq 1 .. attempts[k]
             /\ \A n \in wire \ {m} :
                   n[1] = k => n[2] \in (1 .. attempts[k]) \ executions'[k]
    BY <1>4 DEF OneExecutionPerClaim
  <2>1. /\ executions[k] \subseteq 1 .. attempts[k]
        /\ \A n \in wire : n[1] = k => n[2] \in (1 .. attempts[k]) \ executions[k]
    BY DEF IInv, OneExecutionPerClaim
  <2>2. CASE k # m[1]
    BY <1>2, <2>1, <2>2
  <2>3. CASE k = m[1]
    <3>1. ASSUME NEW n \in wire \ {m}, n[1] = k PROVE n[2] # m[2]
      BY <2>3, <3>1 DEF IInv, TypeOK
    <3>. QED  BY <1>2, <2>1, <2>3, <3>1
  <2>. QED  BY <2>2, <2>3
<1>11. CallInv'
  <2> SUFFICES ASSUME NEW q \in Procs, pc'[q] = "call"
      PROVE  <<target[q], token[q]>> \notin wire' /\ token[q] \notin executions'[target[q]]
    BY <1>4 DEF CallInv
  <2>1. pc[q] = "call" /\ target[q] \in Keys
    BY <1>3 DEF IInv, ProcInv
  <2>2. <<target[q], token[q]>> \notin wire /\ token[q] \notin executions[target[q]]
    BY <2>1 DEF IInv, CallInv
  <2>3. ~(target[q] = m[1] /\ token[q] = m[2])
    BY <1>1, <2>2
  <2>. QED  BY <1>2, <1>4, <2>1, <2>2, <2>3
<1>. QED  BY <1>5, <1>6, <1>7, <1>8, <1>9, <1>10, <1>11 DEF IInv

\* Losing a request and closing an execution forget nothing that was accepted.
LEMMA LoseIInv ==
    ASSUME NEW m \in wire, IInv, Lose(m)
    PROVE  IInv'
<1>1. UNCHANGED <<intent, created, status, attempts, lease, pc, target, token,
                  todo, scanned, unavailable, exit, executions, open>>
      /\ wire' \subseteq wire /\ faults' \in Nat
  BY DEF Lose, Fault, dbVars, procVars, recoverVars, IInv, TypeOK
<1>2. TypeOK'
  BY <1>1 DEF IInv, TypeOK
<1>3. ProcInv' /\ TodoInv' /\ SettledInv' /\ StartedMeansAccepted' /\ CallInv' /\ TemporalInv'
  BY <1>1 DEF IInv, ProcInv, TodoInv, SettledInv, StartedMeansAccepted, CallInv, TemporalInv
<1>4. ClaimIsExclusive' /\ ResultIsFenced' /\ OneExecutionPerClaim'
  BY <1>1 DEF IInv, ClaimIsExclusive, ResultIsFenced, Held, OneExecutionPerClaim
<1>. QED  BY <1>2, <1>3, <1>4 DEF IInv

LEMMA CloseIInv ==
    ASSUME NEW k \in Keys, IInv, Close(k)
    PROVE  IInv'
<1>1. UNCHANGED <<intent, created, status, attempts, lease, pc, target, token,
                  todo, scanned, unavailable, exit, executions, wire, faults>>
  BY DEF Close, dbVars, procVars, recoverVars
<1>2. TypeOK' /\ TemporalInv'
  BY <1>1 DEF Close, IInv, TypeOK, TemporalInv
<1>3. ProcInv' /\ TodoInv' /\ SettledInv' /\ StartedMeansAccepted' /\ CallInv'
  BY <1>1 DEF IInv, ProcInv, TodoInv, SettledInv, StartedMeansAccepted, CallInv
<1>4. ClaimIsExclusive' /\ ResultIsFenced' /\ OneExecutionPerClaim'
  BY <1>1 DEF IInv, ClaimIsExclusive, ResultIsFenced, Held, OneExecutionPerClaim
<1>. QED  BY <1>2, <1>3, <1>4 DEF IInv

\* Every step keeps the invariant.
LEMMA NextIInv == IInv /\ [Next]_vars => IInv'
<1> SUFFICES ASSUME IInv, [Next]_vars PROVE IInv'
  OBVIOUS
<1>1. ASSUME NEW c \in Callers, NEW k \in Keys, NEW f \in Requests, Request(c, k, f)
      PROVE  IInv'
  BY <1>1, RequestIInv
<1>2. ASSUME NEW o \in Recoverers, Scan(o) PROVE IInv'
  BY <1>2, ScanIInv
<1>3. ASSUME NEW p \in Procs, Step(p) PROVE IInv'
  BY <1>3, SkipIInv, ClaimIInv, CallIInv, MarkStartedIInv, MarkFailedIInv DEF Step
<1>4. ASSUME NEW p \in Procs, HandoffFault(p) \/ CallFails(p) PROVE IInv'
  <2>1. faults' \in Nat
    BY <1>4 DEF HandoffFault, CallFails, Fault, IInv, TypeOK
  <2>. QED  BY <1>4, <2>1, ErrorIInv DEF HandoffFault, CallFails
<1>5. ASSUME NEW p \in Procs, Crash(p) PROVE IInv'
  BY <1>5, CrashIInv
<1>6. ASSUME NEW m \in wire, Lose(m) \/ \E lost \in BOOLEAN : Serve(m, lost) PROVE IInv'
  BY <1>6, LoseIInv, ServeIInv
<1>7. ASSUME NEW k \in Keys, LeaseExpires(k) \/ Close(k) PROVE IInv'
  BY <1>7, LeaseExpiresIInv, CloseIInv
<1>8. CASE UNCHANGED vars
  <2>1. UNCHANGED <<intent, created, status, attempts, lease, pc, target, token, todo,
                    scanned, unavailable, exit, wire, executions, open, faults>>
    BY <1>8 DEF vars, dbVars, procVars, recoverVars, temporalVars
  <2>2. TypeOK' /\ ProcInv' /\ TodoInv' /\ CallInv' /\ TemporalInv' /\ SettledInv'
    BY <2>1 DEF IInv, TypeOK, ProcInv, TodoInv, CallInv, TemporalInv, SettledInv
  <2>3. /\ ClaimIsExclusive' /\ ResultIsFenced' /\ OneExecutionPerClaim'
        /\ StartedMeansAccepted'
    BY <2>1 DEF IInv, ClaimIsExclusive, ResultIsFenced, Held, OneExecutionPerClaim,
                StartedMeansAccepted
  <2>. QED  BY <2>2, <2>3 DEF IInv
<1>. QED  BY <1>1, <1>2, <1>3, <1>4, <1>5, <1>6, <1>7, <1>8 DEF Next

LEMMA Invariance == Spec => []IInv
BY InitIInv, NextIInv, PTL DEF Spec

-----------------------------------------------------------------------------
\* Type correctness, for any number of runs, callers and faults.
THEOREM TypeCorrect == Spec => []TypeOK
BY Invariance, PTL DEF IInv

\* A start is recorded as done only if Temporal accepted it.
THEOREM StartedIsAccepted == Spec => []StartedMeansAccepted
BY Invariance, PTL DEF IInv

\* The token fences results: nobody records one under a lease that is over.
THEOREM TokensFence == Spec => []ResultIsFenced
BY Invariance, PTL DEF IInv

\* At most one process holds the current claim of a row, while it is claimed.
THEOREM ClaimsAreExclusive == Spec => []ClaimIsExclusive
BY Invariance, PTL DEF IInv

\* Executions are bounded by claims: each claim creates at most one.
THEOREM ExecutionsPerClaim == Spec => []OneExecutionPerClaim
BY Invariance, PTL DEF IInv

\* One step never reopens a settled start: the row can only be written by a
\* process that holds the current token, and there is none.
LEMMA NextStartedFinal ==
    ASSUME IInv, [Next]_vars, NEW k \in Keys, status[k] = "STARTED"
    PROVE  status'[k] = "STARTED"
<1>1. ~Held(k)
  BY DEF IInv, SettledInv, ResultIsFenced
<1>2. ASSUME NEW p \in Procs, Step(p) PROVE status'[k] = "STARTED"
  <2>1. CASE Skip(p) \/ Call(p)
    BY <2>1 DEF Skip, Call, dbVars
  <2>2. CASE Claim(p)
    BY <2>2 DEF Claim, Claimed, IInv, TypeOK
  <2>3. CASE MarkStarted(p) \/ MarkFailed(p)
    <3>0. target[p] \in Keys /\ token[p] \in 1 .. attempts[target[p]]
      BY <2>3 DEF MarkStarted, MarkFailed, Settle, IInv, ProcInv
    <3>1. token[p] # 0
      BY <3>0 DEF IInv, TypeOK
    <3>2. target[p] = k => token[p] # attempts[k]
      BY <1>1, <3>1 DEF Held
    <3>. QED  BY <2>3, <3>2 DEF MarkStarted, MarkFailed, Settle, IInv, TypeOK
  <2>. QED  BY <1>2, <2>1, <2>2, <2>3 DEF Step
<1>3. CASE \E c \in Callers, j \in Keys, f \in Requests : Request(c, j, f)
  BY <1>3 DEF Request
<1>4. CASE \E o \in Recoverers : Scan(o)
  BY <1>4 DEF Scan, dbVars
<1>5. CASE \E p \in Procs : HandoffFault(p) \/ CallFails(p) \/ Crash(p)
  BY <1>5 DEF HandoffFault, CallFails, Crash, dbVars
<1>6. CASE \E m \in wire : Lose(m) \/ \E lost \in BOOLEAN : Serve(m, lost)
  BY <1>6 DEF Lose, Serve, dbVars
<1>7. CASE \E j \in Keys : LeaseExpires(j) \/ Close(j)
  BY <1>7 DEF LeaseExpires, Close, dbVars
<1>8. CASE UNCHANGED vars
  BY <1>8 DEF vars, dbVars
<1>. QED  BY <1>2, <1>3, <1>4, <1>5, <1>6, <1>7, <1>8 DEF Next

\* A settled start is never reopened.
THEOREM StartedStays == Spec => StartedIsFinal
<1> DEFINE Stays == \A k \in Keys : status[k] = "STARTED" => status'[k] = "STARTED"
<1>1. IInv /\ [Next]_vars => [Stays]_vars
  BY NextStartedFinal
<1> HIDE DEF Stays
<1>2. Spec => [][Stays]_vars
  BY <1>1, Invariance, PTL DEF Spec
<1>. QED  BY <1>2 DEF Stays, StartedIsFinal

-----------------------------------------------------------------------------
\* The mapped variable of the refinement.
StageMap == [k \in Keys |-> Stage(k)]

\* A step that changes the stage of one key by one stage is a step of
\* StartHandoff.
LEMMA OneStage ==
    ASSUME NEW k \in Keys,
           \A j \in Keys : j # k => Stage(j)' = Stage(j),
           \/ Stage(k)' = Stage(k)
           \/ Stage(k) = "absent" /\ Stage(k)' = "intended"
           \/ Stage(k) = "intended" /\ Stage(k)' = "accepted"
           \/ Stage(k) = "accepted" /\ Stage(k)' = "started"
    PROVE  Handoff!Next \/ StageMap' = StageMap
<1>. DEFINE a == Stage(k)
            b == Stage(k)'
            m == StageMap
            n == StageMap'
<1>1. m \in [Keys -> {Stage(j) : j \in Keys}] /\ \A j \in Keys : m[j] = Stage(j)
  BY DEF StageMap
<1>2. n = [m EXCEPT ![k] = b]
  BY DEF StageMap
<1>3. CASE b = a
  BY <1>2, <1>3 DEF StageMap
<1>4. CASE a = "absent" /\ b = "intended"
  <2>1. Handoff!Intend(k)
    BY <1>1, <1>2, <1>4 DEF Handoff!Intend, StageMap
  <2>. QED  BY <2>1 DEF Handoff!Next
<1>5. CASE a = "intended" /\ b = "accepted"
  <2>1. Handoff!Accept(k)
    BY <1>1, <1>2, <1>5 DEF Handoff!Accept, StageMap
  <2>. QED  BY <2>1 DEF Handoff!Next
<1>6. CASE a = "accepted" /\ b = "started"
  <2>1. Handoff!Settle(k)
    BY <1>1, <1>2, <1>6 DEF Handoff!Settle, StageMap
  <2>. QED  BY <2>1 DEF Handoff!Next
<1>. QED  BY <1>3, <1>4, <1>5, <1>6

\* A step that leaves intents, results and executions alone is a stutter.
LEMMA NoStage ==
    ASSUME UNCHANGED <<intent, status, executions>>
    PROVE  StageMap' = StageMap
BY DEF StageMap, Stage

\* Every step of WorkflowStart is a step of StartHandoff or a stutter.
LEMMA NextHandoff ==
    ASSUME IInv, [Next]_vars
    PROVE  Handoff!Next \/ StageMap' = StageMap
<1>. USE ConstantsAssumption
<1>1. ASSUME NEW c \in Callers, NEW k \in Keys, NEW f \in Requests, Request(c, k, f)
      PROVE  Handoff!Next \/ StageMap' = StageMap
  <2>1. \A j \in Keys : j # k => Stage(j)' = Stage(j)
    BY <1>1 DEF Request, Stage, IInv, TypeOK, temporalVars
  <2>2. \/ Stage(k)' = Stage(k)
        \/ Stage(k) = "absent" /\ Stage(k)' = "intended"
    BY <1>1 DEF Request, Stage, IInv, TypeOK, TemporalInv, StartedMeansAccepted,
                temporalVars
  <2>. QED  BY <2>1, <2>2, OneStage
<1>2. ASSUME NEW p \in Procs, Claim(p)
      PROVE  Handoff!Next \/ StageMap' = StageMap
  <2>1. target[p] \in Keys
    BY <1>2 DEF Claim, Claimed, IInv, ProcInv
  <2>2. \A j \in Keys : Stage(j)' = Stage(j)
    BY <1>2, <2>1 DEF Claim, Claimed, Stage, IInv, TypeOK, temporalVars
  <2>. QED  BY <2>1, <2>2, OneStage
<1>3. ASSUME NEW p \in Procs, MarkStarted(p) \/ MarkFailed(p)
      PROVE  Handoff!Next \/ StageMap' = StageMap
  <2>0. target[p] \in Keys
    BY <1>3 DEF MarkStarted, MarkFailed, Settle, IInv, ProcInv
  <2>. PICK k \in Keys : k = target[p]
    BY <2>0
  <2>1. token[p] \in 1 .. attempts[k]
    BY <1>3 DEF MarkStarted, MarkFailed, Settle, IInv, ProcInv
  <2>2. status[k] = "STARTED" => status'[k] = "STARTED"
    BY NextStartedFinal
  <2>3. intent' = intent /\ executions' = executions
    BY <1>3 DEF MarkStarted, MarkFailed, Settle, temporalVars
  <2>4. \A j \in Keys : j # k => Stage(j)' = Stage(j)
    <3>0. \/ status' = status
          \/ status' = [status EXCEPT ![k] = "STARTED"]
          \/ status' = [status EXCEPT ![k] = "FAILED"]
      BY <1>3 DEF MarkStarted, MarkFailed, Settle
    <3>1. \A j \in Keys : j # k => status'[j] = status[j]
      BY <3>0 DEF IInv, TypeOK
    <3>. QED  BY <2>3, <3>1 DEF Stage
  <2>5. status'[k] = "STARTED" => executions[k] # {}
    BY <1>3 DEF MarkStarted, MarkFailed, Settle, IInv, TypeOK, TemporalInv,
                      StartedMeansAccepted
  <2>6. Stage(k)' = Stage(k) \/ (Stage(k) = "accepted" /\ Stage(k)' = "started")
    BY <2>2, <2>3, <2>5 DEF Stage
  <2>. QED  BY <2>4, <2>6, OneStage
<1>4. ASSUME NEW m \in wire, NEW lost \in BOOLEAN, Serve(m, lost)
      PROVE  Handoff!Next \/ StageMap' = StageMap
  <2>1. m[1] \in Keys /\ intent[m[1]] # None /\ executions' \in [Keys -> SUBSET Nat]
    BY <1>4 DEF Serve, IInv, TypeOK, TemporalInv
  <2>2. intent' = intent /\ status' = status
    BY <1>4 DEF Serve, dbVars
  <2>3. \A j \in Keys : j # m[1] => Stage(j)' = Stage(j)
    BY <1>4, <2>1, <2>2 DEF Serve, Stage, IInv, TypeOK
  <2>4. executions'[m[1]] # {}
    BY <1>4, <2>1 DEF Serve, IInv, TypeOK, TemporalInv
  <2>5. \/ Stage(m[1])' = Stage(m[1])
        \/ Stage(m[1]) = "intended" /\ Stage(m[1])' = "accepted"
    BY <2>1, <2>2, <2>4 DEF Stage
  <2>. QED  BY <2>1, <2>3, <2>5, OneStage
<1>5. CASE \E p \in Procs : Skip(p) \/ Call(p) \/ HandoffFault(p) \/ CallFails(p) \/ Crash(p)
  <2>1. UNCHANGED <<intent, status, executions>>
    BY <1>5 DEF Skip, Call, HandoffFault, CallFails, Crash, dbVars, temporalVars
  <2>. QED  BY <2>1, NoStage
<1>6. CASE \/ \E o \in Recoverers : Scan(o)
           \/ \E m \in wire : Lose(m)
           \/ \E k \in Keys : LeaseExpires(k) \/ Close(k)
  <2>1. UNCHANGED <<intent, status, executions>>
    BY <1>6 DEF Scan, Lose, LeaseExpires, Close, dbVars, temporalVars
  <2>. QED  BY <2>1, NoStage
<1>7. CASE UNCHANGED vars
  <2>1. UNCHANGED <<intent, status, executions>>
    BY <1>7 DEF vars, dbVars, temporalVars
  <2>. QED  BY <2>1, NoStage
<1>. QED  BY <1>1, <1>2, <1>3, <1>4, <1>5, <1>6, <1>7 DEF Next, Step

\* The lease-and-token protocol implements the three-stage hand-off.
THEOREM HandoffImplemented == Spec => ImplementsHandoff
<1>1. Init => Handoff!Init
  BY DEF Init, Handoff!Init, Stage
<1>2. IInv /\ [Next]_vars => [Handoff!Next]_StageMap
  BY NextHandoff
<1>3. Spec => Handoff!Init /\ [][Handoff!Next]_StageMap
  BY <1>1, <1>2, Invariance, PTL DEF Spec
<1>. QED  BY <1>3, PTL DEF ImplementsHandoff, Handoff!Spec, StageMap
=============================================================================
