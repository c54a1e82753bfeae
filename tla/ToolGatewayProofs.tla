------------------------- MODULE ToolGatewayProofs -------------------------
(***************************************************************************)
(* Proofs about governed tool calls, for any number of tools, runs, keys   *)
(* and callers and any size of the pool.  Two unique keys do the work.  A  *)
(* row that a caller has inserted under a key has no committed row beside  *)
(* it, and no other caller has one; the same holds of a binding that a     *)
(* caller has inserted under a name.  So what a caller commits changes     *)
(* nothing that is there, and what it was authorised by is still so: the   *)
(* commit is the one step in which GovernedCall has the call happen.       *)
(***************************************************************************)
EXTENDS ToolGateway, AgentRegistryProofs

AskOrNone == Asks \cup {None}
RowOrNone == Rows \cup {None}
Refused == [row : Rows, answer : Answers]
RefusedOrNone == Refused \cup {None}

CallState ==
    [step : CallSteps, ask : AskOrNone, tries : Nat, enabled : BOOLEAN, pinned : BOOLEAN,
     row : RowOrNone, refusal : RefusedOrNone, answer : Answers]

CallType == call \in [Calls -> CallState]

RowType ==
    /\ runAgent \in [Runs -> Versions \cup {None}]
    /\ snapshot \in [Runs -> SUBSET Tools]
    /\ approved \in [Runs -> BOOLEAN]
    /\ binding \in [Runs -> [Names -> Tools \cup {None}]]
    /\ invocation \in [Runs -> [Keys -> RowOrNone]]

\* What authorises the call's effect, as the database says it.
Cleared(c) ==
    /\ ToolOf(c) \in Defined \cap snapshot[RunOf(c)]
    /\ ToolOf(c) \in Sensitive => approved[RunOf(c)]
    /\ call[c].ask.args \in ValidArgs

\* What a call asks for, and what it has read and written of it.
AskOK(c) ==
    /\ Open(c) => call[c].ask \in Asks /\ runAgent[RunOf(c)] # None
    /\ ~Open(c) => ~call[c].pinned /\ call[c].row = None
    /\ call[c].enabled => ToolOf(c) \in Defined
    /\ call[c].step \in {"pin", "insert", "handle"} => Cleared(c)

InsertedOK(c) ==
    /\ call[c].row # None =>
          /\ call[c].step \in {"handle", "done"}
          /\ call[c].row.tool = ToolOf(c) /\ call[c].row.args = call[c].ask.args
          /\ Cleared(c)
          /\ Existing(c) = None
    /\ call[c].step = "handle" => call[c].row # None
    /\ call[c].pinned => Bound(c) = None
    /\ call[c].step \in {"insert", "handle"} \/ call[c].row # None =>
          call[c].pinned \/ Bound(c) = ToolOf(c)

\* A refusal that is to be written is one, and when one is answered its key has a
\* record.
RefusalOK(c) ==
    /\ call[c].step \in {"record", "write"} =>
          call[c].refusal \in Refused /\ call[c].refusal.row.status # "SUCCEEDED"
    /\ call[c].step = "done" /\ call[c].answer \in Refusals => Existing(c) # None

CallOK(c) == AskOK(c) /\ InsertedOK(c) /\ RefusalOK(c)

\* The unique keys: of two callers, one waits.
KeysApart ==
    \A c, d \in Calls :
        /\ call[c].row # None /\ call[d].row # None /\ SameSlot(c, d) => c = d
        /\ call[c].pinned /\ call[d].pinned /\ SameName(c, d) => c = d

RunsExist == \A r \in Runs, k \in Keys : invocation[r][k] # None => runAgent[r] # None

IInv ==
    /\ RegistryIInv /\ CallType /\ RowType
    /\ \A c \in Calls : CallOK(c)
    /\ KeysApart /\ RunsExist /\ EffectIsAuthorised

LEMMA AskType ==
    ASSUME NEW a \in Asks
    PROVE  a.run \in Runs /\ a.key \in Keys /\ a.tool \in Tools /\ NameOf[a.tool] \in Names
BY GatewayAssumption

LEMMA OpenType ==
    ASSUME IInv, NEW c \in Calls, Open(c)
    PROVE  /\ call[c].ask \in Asks
           /\ RunOf(c) \in Runs /\ KeyOf(c) \in Keys /\ ToolOf(c) \in Tools
           /\ NameOf[ToolOf(c)] \in Names
<1>1. call[c].ask \in Asks
  BY DEF IInv, CallOK, AskOK
<1>. QED  BY <1>1, AskType DEF RunOf, KeyOf, ToolOf

-----------------------------------------------------------------------------
(***************************************************************************)
(* What a step does to the call that takes it.                             *)
(***************************************************************************)
CallersSame(c) == \A d \in Calls \ {c} : call'[d] = call[d]

LEMMA MovesEffect ==
    ASSUME CallType, NEW c \in Calls, NEW step \in CallSteps, Moves(c, step)
    PROVE  /\ CallType' /\ CallersSame(c)
           /\ call'[c].step = step
           /\ call'[c].ask = call[c].ask
           /\ call'[c].enabled = call[c].enabled /\ call'[c].pinned = call[c].pinned
           /\ call'[c].row = call[c].row /\ call'[c].refusal = call[c].refusal
           /\ call'[c].answer = call[c].answer
<1>1. call' = [call EXCEPT ![c].step = step]
  BY DEF Moves
<1>2. CallType'
  BY <1>1 DEF CallType, CallState
<1>. QED  BY <1>1, <1>2 DEF CallType, CallState, CallersSame

LEMMA AnswerEffect ==
    ASSUME CallType, NEW c \in Calls, NEW answer \in Answers, Answer(c, answer)
    PROVE  /\ CallType' /\ CallersSame(c)
           /\ call'[c].step = "done"
           /\ call'[c].ask = call[c].ask
           /\ call'[c].enabled = call[c].enabled /\ call'[c].pinned = call[c].pinned
           /\ call'[c].row = call[c].row /\ call'[c].refusal = call[c].refusal
           /\ call'[c].answer = answer
<1>0. PICK step \in CallSteps : step = "done"
  BY DEF CallSteps
<1>1. call' = [call EXCEPT ![c].step = step, ![c].answer = answer]
  BY <1>0 DEF Answer
<1>2. CallType'
  BY <1>1 DEF CallType, CallState
<1>. QED  BY <1>0, <1>1, <1>2 DEF CallType, CallState, CallersSame

LEMMA RowFacts ==
    ASSUME NEW c \in Calls, call[c].ask \in Asks,
           NEW status \in Statuses, NEW category \in Categories
    PROVE  /\ Row(c, status, category) \in Rows
           /\ Row(c, status, category).status = status
           /\ Row(c, status, category).tool = ToolOf(c)
           /\ Row(c, status, category).args = call[c].ask.args
           /\ Row(c, status, category) # None
<1> DEFINE args == call[c].ask.args
           tool == call[c].ask.tool
           Args == {a.args : a \in Asks}
<1>1. args \in Args /\ tool \in Tools
  BY AskType
<1>2. Row(c, status, category)
        = [status |-> status, category |-> category, tool |-> tool, args |-> args]
  BY DEF Row
<1>3. Rows = [status : Statuses, category : Categories, tool : Tools, args : Args]
  BY DEF Rows
<1>4. tool = ToolOf(c)
  BY DEF ToolOf
<1> HIDE DEF args, tool, Args
<1>5. Row(c, status, category) \in Rows
  BY <1>1, <1>2, <1>3
<1>6. Row(c, status, category) # None
  BY <1>5, RowAssumption
<1>7. /\ Row(c, status, category).status = status
      /\ Row(c, status, category).tool = tool
      /\ Row(c, status, category).args = args
  BY <1>2
<1>. QED  BY <1>4, <1>5, <1>6, <1>7 DEF args

LEMMA RefusalFacts ==
    ASSUME NEW c, NEW row \in Rows, NEW answer \in Answers
    PROVE  /\ Refusal(c, row, answer) \in Refused
           /\ Refusal(c, row, answer).row = row
           /\ Refusal(c, row, answer).answer = answer
BY DEF Refusal, Refused

LEMMA RecordEffect ==
    ASSUME CallType, NEW c \in Calls, call[c].ask \in Asks,
           NEW status \in Statuses, NEW category \in Categories, NEW answer \in Answers,
           Record(c, status, category, answer)
    PROVE  /\ CallType' /\ CallersSame(c)
           /\ call'[c].step = "record"
           /\ call'[c].ask = call[c].ask
           /\ call'[c].enabled = call[c].enabled /\ call'[c].pinned = call[c].pinned
           /\ call'[c].row = call[c].row
           /\ call'[c].refusal \in Refused /\ call'[c].refusal.row.status = status
           /\ call'[c].answer = call[c].answer
<1>0. PICK step \in CallSteps : step = "record"
  BY DEF CallSteps
<1>1. Row(c, status, category) \in Rows /\ Row(c, status, category).status = status
  BY RowFacts
<1>2. PICK refusal \in Refused : /\ refusal = Refusal(c, Row(c, status, category), answer)
                                 /\ refusal.row.status = status
  BY <1>1, RefusalFacts
<1>3. refusal \in RefusedOrNone
  BY DEF RefusedOrNone
<1>4. call' = [call EXCEPT ![c].step = step, ![c].refusal = refusal]
  BY <1>0, <1>2 DEF Record
<1>5. CallType'
  BY <1>3, <1>4 DEF CallType, CallState
<1>6. /\ CallersSame(c) /\ call'[c].step = step /\ call'[c].ask = call[c].ask
      /\ call'[c].enabled = call[c].enabled /\ call'[c].pinned = call[c].pinned
      /\ call'[c].row = call[c].row /\ call'[c].refusal = refusal
      /\ call'[c].answer = call[c].answer
  BY <1>4 DEF CallType, CallState, CallersSame
<1>. QED  BY <1>0, <1>2, <1>5, <1>6

LEMMA NewCallEffect ==
    ASSUME CallType, NEW c \in Calls, NEW step \in CallSteps, NEW a \in AskOrNone,
           NEW tries \in Nat, call' = [call EXCEPT ![c] = NewCall(step, a, tries)]
    PROVE  /\ CallType' /\ CallersSame(c)
           /\ call'[c].step = step
           /\ call'[c].ask = a
           /\ call'[c].enabled = FALSE /\ call'[c].pinned = FALSE
           /\ call'[c].row = None /\ call'[c].refusal = None
           /\ call'[c].answer = "none"
<1>1. PICK new \in CallState : new = NewCall(step, a, tries)
  <2>1. None \in RowOrNone /\ None \in RefusedOrNone /\ "none" \in Answers
    BY DEF RowOrNone, RefusedOrNone, Answers
  <2>. QED  BY <2>1 DEF NewCall, CallState
<1>2. call' = [call EXCEPT ![c] = new]
  BY <1>1
<1>3. call' \in [Calls -> CallState] /\ call'[c] = new /\ CallersSame(c)
  BY <1>2 DEF CallType, CallersSame
<1>. QED  BY <1>1, <1>3 DEF NewCall, CallType

LEMMA ReadEffect ==
    ASSUME CallType, NEW c \in Calls, NEW is \in BOOLEAN,
           call' = [call EXCEPT ![c].step = "lookup", ![c].enabled = is]
    PROVE  /\ CallType' /\ CallersSame(c)
           /\ call'[c].step = "lookup"
           /\ call'[c].ask = call[c].ask
           /\ call'[c].enabled = is /\ call'[c].pinned = call[c].pinned
           /\ call'[c].row = call[c].row /\ call'[c].refusal = call[c].refusal
           /\ call'[c].answer = call[c].answer
<1>0. PICK step \in CallSteps : step = "lookup"
  BY DEF CallSteps
<1>1. call' = [call EXCEPT ![c].step = step, ![c].enabled = is]
  BY <1>0
<1>2. PICK mid \in [Calls -> CallState] : mid = [call EXCEPT ![c].step = step]
  BY DEF CallType, CallState
<1>3. [mid EXCEPT ![c].enabled = is] \in [Calls -> CallState]
  BY DEF CallState
<1>4. call' = [mid EXCEPT ![c].enabled = is]
  BY <1>1, <1>2 DEF CallType, CallState
<1>5. CallType'
  BY <1>3, <1>4 DEF CallType
<1>. QED  BY <1>0, <1>1, <1>5 DEF CallType, CallState, CallersSame

LEMMA BindEffect ==
    ASSUME CallType, NEW c \in Calls, NEW is \in BOOLEAN,
           call' = [call EXCEPT ![c].step = "insert", ![c].pinned = is]
    PROVE  /\ CallType' /\ CallersSame(c)
           /\ call'[c].step = "insert"
           /\ call'[c].ask = call[c].ask
           /\ call'[c].enabled = call[c].enabled /\ call'[c].pinned = is
           /\ call'[c].row = call[c].row /\ call'[c].refusal = call[c].refusal
           /\ call'[c].answer = call[c].answer
<1>0. PICK step \in CallSteps : step = "insert"
  BY DEF CallSteps
<1>1. call' = [call EXCEPT ![c].step = step, ![c].pinned = is]
  BY <1>0
<1>2. PICK mid \in [Calls -> CallState] : mid = [call EXCEPT ![c].step = step]
  BY DEF CallType, CallState
<1>3. [mid EXCEPT ![c].pinned = is] \in [Calls -> CallState]
  BY DEF CallState
<1>4. call' = [mid EXCEPT ![c].pinned = is]
  BY <1>1, <1>2 DEF CallType, CallState
<1>5. CallType'
  BY <1>3, <1>4 DEF CallType
<1>. QED  BY <1>0, <1>1, <1>5 DEF CallType, CallState, CallersSame

LEMMA InsertEffect ==
    ASSUME CallType, NEW c \in Calls, NEW row \in Rows,
           call' = [call EXCEPT ![c].step = "handle", ![c].row = row]
    PROVE  /\ CallType' /\ CallersSame(c)
           /\ call'[c].step = "handle"
           /\ call'[c].ask = call[c].ask
           /\ call'[c].enabled = call[c].enabled /\ call'[c].pinned = call[c].pinned
           /\ call'[c].row = row /\ call'[c].refusal = call[c].refusal
           /\ call'[c].answer = call[c].answer
<1>0. PICK step \in CallSteps, new \in RowOrNone : step = "handle" /\ new = row
  BY DEF CallSteps, RowOrNone
<1>1. call' = [call EXCEPT ![c].step = step, ![c].row = new]
  BY <1>0
<1>2. PICK mid \in [Calls -> CallState] : mid = [call EXCEPT ![c].step = step]
  BY DEF CallType, CallState
<1>3. [mid EXCEPT ![c].row = new] \in [Calls -> CallState]
  BY DEF CallState
<1>4. call' = [mid EXCEPT ![c].row = new]
  BY <1>1, <1>2 DEF CallType, CallState
<1>5. CallType'
  BY <1>3, <1>4 DEF CallType
<1>. QED  BY <1>0, <1>1, <1>5 DEF CallType, CallState, CallersSame

LEMMA HandleEffect ==
    ASSUME CallType, NEW c \in Calls, NEW row \in Rows, NEW answer \in Answers,
           call' = [call EXCEPT ![c].step = "done", ![c].answer = answer, ![c].row = row]
    PROVE  /\ CallType' /\ CallersSame(c)
           /\ call'[c].step = "done"
           /\ call'[c].ask = call[c].ask
           /\ call'[c].enabled = call[c].enabled /\ call'[c].pinned = call[c].pinned
           /\ call'[c].row = row /\ call'[c].refusal = call[c].refusal
           /\ call'[c].answer = answer
<1>0. PICK step \in CallSteps, new \in RowOrNone : step = "done" /\ new = row
  BY DEF CallSteps, RowOrNone
<1>1. call' = [call EXCEPT ![c].step = step, ![c].answer = answer, ![c].row = new]
  BY <1>0
<1>2. PICK mid \in [Calls -> CallState] :
         mid = [call EXCEPT ![c].step = step, ![c].answer = answer]
  BY DEF CallType, CallState
<1>3. [mid EXCEPT ![c].row = new] \in [Calls -> CallState]
  BY DEF CallState
<1>4. call' = [mid EXCEPT ![c].row = new]
  BY <1>1, <1>2 DEF CallType, CallState
<1>5. CallType'
  BY <1>3, <1>4 DEF CallType
<1>. QED  BY <1>0, <1>1, <1>5 DEF CallType, CallState, CallersSame

-----------------------------------------------------------------------------
(***************************************************************************)
(* Steps of one call that commit nothing.                                  *)
(***************************************************************************)
LEMMA CallLocalStep ==
    ASSUME IInv, NEW c \in Calls, CallOnly, CallType', CallersSame(c), CallOK(c)',
           call'[c].ask = call[c].ask \/ (call'[c].row = None /\ ~call'[c].pinned),
           call'[c].row # None => call[c].row # None \/ ~SlotIsHeld(c),
           call'[c].pinned => call[c].pinned \/ ~NameIsHeld(c)
    PROVE  IInv'
<1>1. /\ UNCHANGED registryVars /\ UNCHANGED <<runAgent, snapshot, approved>>
      /\ UNCHANGED <<binding, invocation>>
  BY DEF CallOnly
<1>2. RegistryIInv' /\ RowType' /\ RunsExist' /\ EffectIsAuthorised'
  <2>1. RegistryIInv'
    BY <1>1, RegistryNextIInv DEF IInv
  <2>. QED  BY <1>1, <2>1 DEF IInv, RowType, RunsExist, EffectIsAuthorised, Succeeded
<1>3. ASSUME NEW d \in Calls PROVE CallOK(d)'
  <2>1. CASE d = c
    BY <2>1
  <2>2. CASE d # c
    <3>1. call'[d] = call[d] /\ CallOK(d)
      BY <2>2 DEF CallersSame, IInv
    <3>2. /\ RunOf(d)' = RunOf(d) /\ KeyOf(d)' = KeyOf(d) /\ ToolOf(d)' = ToolOf(d)
          /\ Open(d)' = Open(d)
      BY <3>1 DEF RunOf, KeyOf, ToolOf, Open
    <3>3. Existing(d)' = Existing(d) /\ Bound(d)' = Bound(d) /\ Cleared(d)' = Cleared(d)
      BY <1>1, <3>1, <3>2 DEF Existing, Bound, Cleared
    <3>4. AskOK(d)'
      BY <1>1, <3>1, <3>2, <3>3 DEF CallOK, AskOK
    <3>5. InsertedOK(d)' /\ RefusalOK(d)'
      BY <1>1, <3>1, <3>2, <3>3 DEF CallOK, InsertedOK, RefusalOK
    <3>. QED  BY <3>4, <3>5 DEF CallOK
  <2>. QED  BY <2>1, <2>2
<1>4. KeysApart'
  <2>1. SUFFICES ASSUME NEW d \in Calls, NEW e \in Calls, d # e
                 PROVE  /\ ~(call'[d].row # None /\ call'[e].row # None /\ SameSlot(d, e)')
                        /\ ~(call'[d].pinned /\ call'[e].pinned /\ SameName(d, e)')
    BY DEF KeysApart
  <2>2. CASE d # c /\ e # c
    BY <2>1, <2>2 DEF CallersSame, IInv, KeysApart, SameSlot, SameName, RunOf, KeyOf, ToolOf
  <2>3. CASE d = c
    BY <2>1, <2>3 DEF CallersSame, IInv, KeysApart, SameSlot, SameName, RunOf, KeyOf, ToolOf,
                      SlotIsHeld, NameIsHeld
  <2>4. CASE e = c
    <3>1. /\ call'[d] = call[d] /\ RunOf(d)' = RunOf(d) /\ KeyOf(d)' = KeyOf(d)
          /\ ToolOf(d)' = ToolOf(d) /\ d \in Calls \ {c}
      BY <2>1, <2>4 DEF CallersSame, RunOf, KeyOf, ToolOf
    <3>2. ASSUME call'[c].ask = call[c].ask
          PROVE  (SameSlot(d, e)' => SameSlot(c, d)) /\ (SameName(d, e)' => SameName(c, d))
      BY <2>4, <3>1, <3>2 DEF SameSlot, SameName, RunOf, KeyOf, ToolOf
    <3>3. ~(call'[d].row # None /\ call'[e].row # None /\ SameSlot(d, e)')
      BY <2>1, <2>4, <3>1, <3>2 DEF IInv, KeysApart, SlotIsHeld
    <3>4. ~(call'[d].pinned /\ call'[e].pinned /\ SameName(d, e)')
      BY <2>1, <2>4, <3>1, <3>2 DEF IInv, KeysApart, NameIsHeld
    <3>. QED  BY <3>3, <3>4
  <2>. QED  BY <2>2, <2>3, <2>4
<1>. QED  BY <1>2, <1>3, <1>4 DEF IInv

\* What a call says of itself and of the database, when the step keeps its ask.
LEMMA KeptFacts ==
    ASSUME NEW c, CallOnly, call'[c].ask = call[c].ask
    PROVE  /\ RunOf(c)' = RunOf(c) /\ KeyOf(c)' = KeyOf(c) /\ ToolOf(c)' = ToolOf(c)
           /\ Existing(c)' = Existing(c) /\ Bound(c)' = Bound(c) /\ Cleared(c)' = Cleared(c)
<1>1. RunOf(c)' = RunOf(c) /\ KeyOf(c)' = KeyOf(c) /\ ToolOf(c)' = ToolOf(c)
  BY DEF RunOf, KeyOf, ToolOf
<1>. QED  BY <1>1 DEF CallOnly, Existing, Bound, Cleared

\* A call that goes on, or ends with an answer, without a write.
LEMMA MovesIInv ==
    ASSUME IInv, NEW c \in Calls, NEW step \in {"authorise", "pin", "write"}, Open(c),
           CallOnly, Moves(c, step), call[c].row = None,
           step = "pin" => Cleared(c),
           step = "write" => call[c].step = "record"
    PROVE  IInv'
<1>1. step \in CallSteps /\ CallType /\ CallOK(c)
  BY DEF CallSteps, IInv
<1>2. /\ CallType' /\ CallersSame(c) /\ call'[c].step = step /\ call'[c].ask = call[c].ask
      /\ call'[c].enabled = call[c].enabled /\ call'[c].pinned = call[c].pinned
      /\ call'[c].row = call[c].row /\ call'[c].refusal = call[c].refusal
      /\ call'[c].answer = call[c].answer
  BY <1>1, MovesEffect
<1>3. CallOK(c)'
  <2>1. AskOK(c)'
    BY <1>1, <1>2, KeptFacts DEF CallOK, AskOK, Open, CallOnly
  <2>2. InsertedOK(c)' /\ RefusalOK(c)'
    BY <1>1, <1>2, KeptFacts DEF CallOK, InsertedOK, RefusalOK
  <2>. QED  BY <2>1, <2>2 DEF CallOK
<1>. QED  BY <1>2, <1>3, CallLocalStep

LEMMA AnswerIInv ==
    ASSUME IInv, NEW c \in Calls, NEW answer \in Answers, Open(c),
           CallOnly, Answer(c, answer), call[c].row = None,
           answer \in Refusals => Existing(c) # None
    PROVE  IInv'
<1>1. CallType /\ CallOK(c)
  BY DEF IInv
<1>2. /\ CallType' /\ CallersSame(c) /\ call'[c].step = "done" /\ call'[c].ask = call[c].ask
      /\ call'[c].enabled = call[c].enabled /\ call'[c].pinned = call[c].pinned
      /\ call'[c].row = call[c].row /\ call'[c].refusal = call[c].refusal
      /\ call'[c].answer = answer
  BY <1>1, AnswerEffect
<1>3. CallOK(c)'
  <2>1. AskOK(c)'
    BY <1>1, <1>2, KeptFacts DEF CallOK, AskOK, Open, CallOnly
  <2>2. InsertedOK(c)' /\ RefusalOK(c)'
    BY <1>1, <1>2, KeptFacts DEF CallOK, InsertedOK, RefusalOK
  <2>. QED  BY <2>1, <2>2 DEF CallOK
<1>. QED  BY <1>2, <1>3, CallLocalStep

LEMMA RecordIInv ==
    ASSUME IInv, NEW c \in Calls, NEW status \in Statuses \ {"SUCCEEDED"},
           NEW category \in Categories, NEW answer \in Answers, Open(c),
           CallOnly, Record(c, status, category, answer), call[c].row = None
    PROVE  IInv'
<1>1. CallType /\ CallOK(c) /\ call[c].ask \in Asks
  BY OpenType DEF IInv
<1>2. /\ CallType' /\ CallersSame(c) /\ call'[c].step = "record" /\ call'[c].ask = call[c].ask
      /\ call'[c].enabled = call[c].enabled /\ call'[c].pinned = call[c].pinned
      /\ call'[c].row = call[c].row
      /\ call'[c].refusal \in Refused /\ call'[c].refusal.row.status = status
      /\ call'[c].answer = call[c].answer
  BY <1>1, RecordEffect
<1>3. CallOK(c)'
  <2>1. AskOK(c)'
    BY <1>1, <1>2, KeptFacts DEF CallOK, AskOK, Open, CallOnly
  <2>2. InsertedOK(c)' /\ RefusalOK(c)'
    BY <1>1, <1>2, KeptFacts DEF CallOK, InsertedOK, RefusalOK
  <2>. QED  BY <2>1, <2>2 DEF CallOK
<1>. QED  BY <1>2, <1>3, CallLocalStep

Askable(a) == a \in Asks /\ runAgent[a.run] # None

\* A call that starts, or that is over: nothing of it is left uncommitted.
LEMMA NewCallIInv ==
    ASSUME IInv, NEW c \in Calls, NEW step \in CallSteps, NEW a \in AskOrNone,
           NEW tries \in Nat, call' = [call EXCEPT ![c] = NewCall(step, a, tries)],
           CallOnly, step \in {"idle", "resolve"}, step = "resolve" => Askable(a)
    PROVE  IInv'
<1>1. CallType
  BY DEF IInv
<1>2. /\ CallType' /\ CallersSame(c) /\ call'[c].step = step /\ call'[c].ask = a
      /\ call'[c].enabled = FALSE /\ call'[c].pinned = FALSE
      /\ call'[c].row = None /\ call'[c].answer = "none"
  BY <1>1, NewCallEffect
<1>3. CallOK(c)'
  <2>1. AskOK(c)'
    BY <1>2 DEF AskOK, Open, CallOnly, RunOf, Askable
  <2>2. InsertedOK(c)' /\ RefusalOK(c)'
    BY <1>2 DEF InsertedOK, RefusalOK
  <2>. QED  BY <2>1, <2>2 DEF CallOK
<1>. QED  BY <1>2, <1>3, CallLocalStep

-----------------------------------------------------------------------------
(***************************************************************************)
(* The steps of a call, up to the end of its transaction.                  *)
(***************************************************************************)
LEMMA StepFacts ==
    ASSUME IInv, NEW c \in Calls
    PROVE  /\ call[c].tries \in Nat /\ CallOK(c)
           /\ call[c].step \notin {"idle", "handle", "done"} => Open(c) /\ call[c].row = None
BY DEF IInv, CallType, CallState, CallOK, InsertedOK, Open

LEMMA BeginIInv ==
    ASSUME IInv, NEW c \in Calls, NEW ask \in Asks, Begin(c, ask)
    PROVE  IInv'
<1>1. call[c].tries + 1 \in Nat /\ ask \in AskOrNone
  BY StepFacts DEF AskOrNone
<1>2. /\ CallOnly /\ Askable(ask)
      /\ call' = [call EXCEPT ![c] = NewCall("resolve", ask, call[c].tries + 1)]
  BY DEF Begin, IInv, CallType, Askable
<1>. QED  BY <1>1, <1>2, NewCallIInv DEF CallSteps

LEMMA OverIInv ==
    ASSUME IInv, NEW c \in Calls, Rollback(c) \/ Crash(c)
    PROVE  IInv'
<1>1. call[c].tries \in Nat /\ None \in AskOrNone
  BY StepFacts DEF AskOrNone
<1>2. CallOnly /\ call' = [call EXCEPT ![c] = NewCall("idle", None, call[c].tries)]
  BY DEF Rollback, Crash, IInv, CallType
<1>. QED  BY <1>1, <1>2, NewCallIInv DEF CallSteps

LEMMA ResolveIInv ==
    ASSUME IInv, NEW c \in Calls, Resolve(c)
    PROVE  IInv'
<1>1. At(c, "resolve") /\ CallOnly
  BY DEF Resolve
<1>2. Open(c) /\ call[c].row = None /\ CallOK(c) /\ CallType
  BY <1>1, StepFacts DEF At, IInv
<1>3. CASE Record(c, "DENIED", "unregistered_tool", "unavailable")
  BY <1>1, <1>2, <1>3, RecordIInv DEF Statuses, Categories, Answers
<1>4. CASE /\ ToolOf(c) \in Defined
           /\ call' = [call EXCEPT ![c].step = "lookup",
                                   ![c].enabled = ToolOf(c) \in enabled]
  <2>1. PICK is \in BOOLEAN : is <=> ToolOf(c) \in enabled
    BY Zenon
  <2>2. /\ CallType' /\ CallersSame(c) /\ call'[c].step = "lookup"
        /\ call'[c].ask = call[c].ask
        /\ call'[c].pinned = call[c].pinned
        /\ call'[c].row = call[c].row /\ call'[c].refusal = call[c].refusal
    <3>1. call' = [call EXCEPT ![c].step = "lookup", ![c].enabled = is]
      <4>1. CASE ToolOf(c) \in enabled
        BY <1>4, <2>1, <4>1
      <4>2. CASE ToolOf(c) \notin enabled
        BY <1>4, <2>1, <4>2
      <4>. QED  BY <4>1, <4>2
    <3>. QED  BY <1>2, <3>1, ReadEffect
  <2>3. AskOK(c)'
    BY <1>1, <1>2, <1>4, <2>2, KeptFacts DEF CallOK, AskOK, Open, CallOnly
  <2>4. InsertedOK(c)' /\ RefusalOK(c)'
    BY <1>1, <1>2, <2>2, KeptFacts DEF CallOK, InsertedOK, RefusalOK
  <2>. QED  BY <1>1, <2>2, <2>3, <2>4, CallLocalStep DEF CallOK
<1>. QED  BY <1>3, <1>4 DEF Resolve

LEMMA InjectFailureIInv ==
    ASSUME IInv, NEW c \in Calls, InjectFailure(c)
    PROVE  IInv'
<1>1. At(c, "resolve") /\ CallOnly
  BY DEF InjectFailure
<1>2. Open(c) /\ call[c].row = None
  BY <1>1, StepFacts DEF At
<1>3. CASE Answer(c, "unavailable")
  BY <1>1, <1>2, <1>3, AnswerIInv DEF Answers, Refusals
<1>4. CASE Record(c, "FAILED", "execution_failed", "unavailable")
  BY <1>1, <1>2, <1>4, RecordIInv DEF Statuses, Categories, Answers
<1>. QED  BY <1>3, <1>4 DEF InjectFailure

LEMMA LookupInvocationIInv ==
    ASSUME IInv, NEW c \in Calls, LookupInvocation(c)
    PROVE  IInv'
<1>1. At(c, "lookup") /\ CallOnly
  BY DEF LookupInvocation
<1>2. Open(c) /\ call[c].row = None
  BY <1>1, StepFacts DEF At
<1>3. CASE Moves(c, "authorise")
  BY <1>1, <1>2, <1>3, MovesIInv
<1>4. ASSUME NEW answer \in {"conflict", "ok", "denied", "unavailable"},
             Existing(c) # None, Answer(c, answer)
      PROVE  IInv'
  <2>1. answer \in Answers
    BY DEF Answers
  <2>. QED  BY <1>1, <1>2, <1>4, <2>1, AnswerIInv
<1>. QED  BY <1>3, <1>4 DEF LookupInvocation

\* What was permitted and approved is cleared: `enabled` was read of a tool that
\* is defined.
LEMMA AuthoriseIInv ==
    ASSUME IInv, NEW c \in Calls, Authorise(c)
    PROVE  IInv'
<1>1. At(c, "authorise") /\ CallOnly
  BY DEF Authorise
<1>2. Open(c) /\ call[c].row = None /\ CallOK(c)
  BY <1>1, StepFacts DEF At
<1>3. ASSUME NEW status \in Statuses \ {"SUCCEEDED"}, NEW category \in Categories,
             NEW answer \in Answers, Record(c, status, category, answer)
      PROVE  IInv'
  BY <1>1, <1>2, <1>3, RecordIInv
<1>4. CASE Authorised(c) /\ Validates(c) /\ Moves(c, "pin")
  <2>1. Cleared(c)
    BY <1>2, <1>4 DEF Authorised, Permitted, Validates, CallOK, AskOK, Cleared
  <2>. QED  BY <1>1, <1>2, <1>4, <2>1, MovesIInv
<1>5. CASE Record(c, "DENIED", "policy_denied", "denied")
  BY <1>3, <1>5 DEF Statuses, Categories, Answers
<1>6. CASE Record(c, "DENIED", "approval_required", "approval_required")
  BY <1>3, <1>6 DEF Statuses, Categories, Answers
<1>7. CASE Record(c, "FAILED", "handler_unavailable", "unavailable")
  BY <1>3, <1>7 DEF Statuses, Categories, Answers
<1>8. CASE Record(c, "FAILED", "invalid_arguments", "invalid")
  BY <1>3, <1>8 DEF Statuses, Categories, Answers
<1>. QED  BY <1>4, <1>5, <1>6, <1>7, <1>8 DEF Authorise

LEMMA PinIInv ==
    ASSUME IInv, NEW c \in Calls, Pin(c)
    PROVE  IInv'
<1>1. At(c, "pin") /\ ~NameIsHeld(c) /\ CallOnly
  BY DEF Pin
<1>2. Open(c) /\ call[c].row = None /\ CallOK(c) /\ CallType /\ Cleared(c)
  BY <1>1, StepFacts DEF At, IInv, CallOK, AskOK
<1>3. CASE Record(c, "FAILED", "version_mismatch", "mismatch")
  BY <1>1, <1>2, <1>3, RecordIInv DEF Statuses, Categories, Answers
<1>4. CASE /\ Bound(c) \in {None, ToolOf(c)}
           /\ call' = [call EXCEPT ![c].step = "insert", ![c].pinned = Bound(c) = None]
  <2>1. PICK is \in BOOLEAN : is <=> Bound(c) = None
    BY Zenon
  <2>2. call' = [call EXCEPT ![c].step = "insert", ![c].pinned = is]
    <3>1. CASE Bound(c) = None
      BY <1>4, <2>1, <3>1
    <3>2. CASE Bound(c) # None
      BY <1>4, <2>1, <3>2
    <3>. QED  BY <3>1, <3>2
  <2>3. /\ CallType' /\ CallersSame(c) /\ call'[c].step = "insert"
        /\ call'[c].ask = call[c].ask /\ call'[c].enabled = call[c].enabled
        /\ call'[c].pinned = is
        /\ call'[c].row = call[c].row /\ call'[c].refusal = call[c].refusal
    BY <1>2, <2>2, BindEffect
  <2>4. AskOK(c)'
    BY <1>1, <1>2, <2>3, KeptFacts DEF CallOK, AskOK, Open, CallOnly
  <2>5. InsertedOK(c)'
    BY <1>1, <1>2, <1>4, <2>1, <2>3, KeptFacts DEF CallOK, InsertedOK
  <2>6. RefusalOK(c)'
    BY <2>3 DEF RefusalOK
  <2>. QED  BY <1>1, <2>3, <2>4, <2>5, <2>6, CallLocalStep DEF CallOK
<1>. QED  BY <1>3, <1>4 DEF Pin

LEMMA InsertInvocationIInv ==
    ASSUME IInv, NEW c \in Calls, InsertInvocation(c)
    PROVE  IInv'
<1>1. At(c, "insert") /\ ~SlotIsHeld(c) /\ CallOnly
  BY DEF InsertInvocation
<1>2. Open(c) /\ call[c].row = None /\ CallOK(c) /\ CallType /\ Cleared(c)
  BY <1>1, StepFacts DEF At, IInv, CallOK, AskOK
<1>3. CASE Answer(c, "broken")
  BY <1>1, <1>2, <1>3, AnswerIInv DEF Answers, Refusals
<1>4. CASE /\ Existing(c) = None
           /\ call' = [call EXCEPT ![c].step = "handle",
                                   ![c].row = Row(c, "FAILED", "running")]
  <2>1. PICK row \in Rows : /\ row = Row(c, "FAILED", "running") /\ row # None
                            /\ row.status = "FAILED" /\ row.tool = ToolOf(c)
                            /\ row.args = call[c].ask.args
    BY <1>2, OpenType, RowFacts DEF Statuses, Categories
  <2>2. /\ CallType' /\ CallersSame(c) /\ call'[c].step = "handle"
        /\ call'[c].ask = call[c].ask /\ call'[c].enabled = call[c].enabled
        /\ call'[c].pinned = call[c].pinned /\ call'[c].row = row
    BY <1>2, <1>4, <2>1, InsertEffect
  <2>3. AskOK(c)'
    BY <1>1, <1>2, <2>2, KeptFacts DEF CallOK, AskOK, Open, CallOnly
  <2>4. InsertedOK(c)'
    BY <1>1, <1>2, <1>4, <2>1, <2>2, KeptFacts DEF CallOK, InsertedOK, At
  <2>5. RefusalOK(c)'
    BY <2>2 DEF RefusalOK
  <2>. QED  BY <1>1, <2>2, <2>3, <2>4, <2>5, CallLocalStep DEF CallOK
<1>. QED  BY <1>3, <1>4 DEF InsertInvocation

LEMMA HandleIInv ==
    ASSUME IInv, NEW c \in Calls, Handle(c)
    PROVE  IInv'
<1> DEFINE Ends(status, category, answer) ==
             call' = [call EXCEPT ![c].step = "done", ![c].answer = answer,
                                  ![c].row = Row(c, status, category)]
<1>1. At(c, "handle") /\ CallOnly
  BY DEF Handle
<1>2. /\ Open(c) /\ CallOK(c) /\ CallType /\ Cleared(c) /\ call[c].ask \in Asks
      /\ call[c].row # None
  BY <1>1, StepFacts DEF At, Open, IInv, CallOK, AskOK, InsertedOK
<1>3. ASSUME NEW status \in Statuses, NEW category \in Categories,
             NEW answer \in Answers \ Refusals,
             Ends(status, category, answer)
      PROVE  IInv'
  <2>1. PICK row \in Rows : /\ row = Row(c, status, category) /\ row # None
                            /\ row.status = status /\ row.tool = ToolOf(c)
                            /\ row.args = call[c].ask.args
    BY <1>2, RowFacts
  <2>2. /\ CallType' /\ CallersSame(c) /\ call'[c].step = "done"
        /\ call'[c].ask = call[c].ask /\ call'[c].enabled = call[c].enabled
        /\ call'[c].pinned = call[c].pinned /\ call'[c].row = row
        /\ call'[c].answer = answer
    BY <1>2, <1>3, <2>1, HandleEffect
  <2>3. AskOK(c)'
    BY <1>1, <1>2, <2>2, KeptFacts DEF CallOK, AskOK, Open, CallOnly
  <2>4. InsertedOK(c)'
    BY <1>1, <1>2, <2>1, <2>2, KeptFacts DEF CallOK, InsertedOK, At
  <2>5. RefusalOK(c)'
    BY <2>2 DEF RefusalOK
  <2>. QED  BY <1>1, <1>2, <2>2, <2>3, <2>4, <2>5, CallLocalStep DEF CallOK
<1>4. Ends("SUCCEEDED", "none", "ok") \/ Ends("FAILED", "execution_failed", "unavailable")
  BY DEF Handle
<1> HIDE DEF Ends
<1>. QED  BY <1>3, <1>4 DEF Statuses, Categories, Answers, Refusals

LEMMA SelectRecordIInv ==
    ASSUME IInv, NEW c \in Calls, SelectRecord(c)
    PROVE  IInv'
<1>1. At(c, "record") /\ CallOnly
  BY DEF SelectRecord
<1>2. Open(c) /\ call[c].row = None /\ call[c].refusal \in Refused
  BY <1>1, StepFacts DEF At, CallOK, RefusalOK
<1>3. CASE Existing(c) # None /\ Answer(c, call[c].refusal.answer)
  <2>1. call[c].refusal.answer \in Answers
    BY <1>2 DEF Refused
  <2>. QED  BY <1>1, <1>2, <1>3, <2>1, AnswerIInv
<1>4. CASE Moves(c, "write")
  BY <1>1, <1>2, <1>4, MovesIInv DEF At
<1>. QED  BY <1>3, <1>4 DEF SelectRecord

LEMMA PoolTimeoutIInv ==
    ASSUME IInv, NEW c \in Calls, PoolTimeout(c)
    PROVE  IInv'
<1>1. At(c, "record") /\ CallOnly /\ Answer(c, "error")
  BY DEF PoolTimeout
<1>2. Open(c) /\ call[c].row = None
  BY <1>1, StepFacts DEF At
<1>. QED  BY <1>1, <1>2, AnswerIInv DEF Answers, Refusals

-----------------------------------------------------------------------------
(***************************************************************************)
(* Steps that commit a row or a binding: they only add.                    *)
(***************************************************************************)
RowsKept ==
    /\ \A r \in Runs, k \in Keys :
          invocation[r][k] # None => invocation'[r][k] = invocation[r][k]
    /\ \A r \in Runs, n \in Names : binding[r][n] # None => binding'[r][n] = binding[r][n]

LEMMA CommittingStep ==
    ASSUME IInv, NEW c \in Calls, UNCHANGED <<registryVars, runAgent, snapshot, approved>>,
           CallType', CallersSame(c), CallOK(c)', RowType', RowsKept,
           RunsExist', EffectIsAuthorised',
           call'[c].row = None,
           call'[c].pinned => call[c].pinned /\ call'[c].ask = call[c].ask,
           \A d \in Calls \ {c} : call[d].row # None => Existing(d)' = None,
           \A d \in Calls \ {c} : call[d].pinned => Bound(d)' = None
    PROVE  IInv'
<1>1. UNCHANGED registryVars /\ UNCHANGED <<runAgent, snapshot, approved>>
  OBVIOUS
<1>2. RegistryIInv'
  BY <1>1, RegistryNextIInv DEF IInv
<1>3. ASSUME NEW d \in Calls PROVE CallOK(d)'
  <2>1. CASE d = c
    BY <2>1
  <2>2. CASE d # c
    <3>1. call'[d] = call[d] /\ CallOK(d) /\ d \in Calls \ {c}
      BY <2>2 DEF CallersSame, IInv
    <3>2. /\ RunOf(d)' = RunOf(d) /\ KeyOf(d)' = KeyOf(d) /\ ToolOf(d)' = ToolOf(d)
          /\ Open(d)' = Open(d) /\ Cleared(d)' = Cleared(d)
      BY <1>1, <3>1 DEF RunOf, KeyOf, ToolOf, Open, Cleared
    <3>3. AskOK(d)'
      BY <1>1, <3>1, <3>2 DEF CallOK, AskOK
    <3>4. Open(d) => /\ Existing(d) # None => Existing(d)' = Existing(d)
                     /\ Bound(d) = ToolOf(d) => Bound(d)' = Bound(d)
      BY <3>2, OpenType, GatewayAssumption DEF RowsKept, Existing, Bound
    <3>5. InsertedOK(d)'
      BY <3>1, <3>2, <3>4 DEF CallOK, AskOK, InsertedOK, Open
    <3>6. RefusalOK(d)'
      BY <3>1, <3>2, <3>4 DEF CallOK, RefusalOK, Open
    <3>. QED  BY <3>3, <3>5, <3>6 DEF CallOK
  <2>. QED  BY <2>1, <2>2
<1>4. KeysApart'
  <2>1. SUFFICES ASSUME NEW d \in Calls, NEW e \in Calls, d # e
                 PROVE  /\ ~(call'[d].row # None /\ call'[e].row # None /\ SameSlot(d, e)')
                        /\ ~(call'[d].pinned /\ call'[e].pinned /\ SameName(d, e)')
    BY DEF KeysApart
  <2>2. ~(call'[d].row # None /\ call'[e].row # None /\ SameSlot(d, e)')
    BY <2>1 DEF CallersSame, IInv, KeysApart, SameSlot, RunOf, KeyOf
  <2>3. ASSUME NEW f \in {d, e}, call'[f].pinned
        PROVE  call[f].pinned /\ call'[f].ask = call[f].ask
    BY <2>1, <2>3 DEF CallersSame
  <2>4. ~(call'[d].pinned /\ call'[e].pinned /\ SameName(d, e)')
    BY <2>1, <2>3 DEF IInv, KeysApart, SameName, RunOf, ToolOf
  <2>. QED  BY <2>2, <2>4
<1>. QED  BY <1>2, <1>3, <1>4 DEF IInv

LEMMA WriteRecordEffect ==
    ASSUME IInv, NEW c \in Calls, WriteRecord(c), Existing(c) = None
    PROVE  /\ CallType' /\ CallersSame(c) /\ call'[c].step = "done"
           /\ call'[c].ask = call[c].ask
           /\ call'[c].enabled = call[c].enabled /\ call'[c].pinned = call[c].pinned
           /\ call'[c].row = None
           /\ RowType'
           /\ Existing(c)' # None
           /\ \A r \in Runs, k \in Keys :
                 IF r = RunOf(c) /\ k = KeyOf(c)
                 THEN invocation'[r][k] = call[c].refusal.row
                 ELSE invocation'[r][k] = invocation[r][k]
<1>1. At(c, "write") /\ UNCHANGED binding /\ UNCHANGED <<runAgent, snapshot, approved>>
  BY DEF WriteRecord
<1>2. Open(c) /\ call[c].row = None /\ call[c].refusal \in Refused /\ CallType
  BY <1>1, StepFacts DEF At, CallOK, RefusalOK, IInv
<1>3. RunOf(c) \in Runs /\ KeyOf(c) \in Keys
  BY <1>2, OpenType
<1>4. PICK row \in Rows, answer \in Answers :
         row = call[c].refusal.row /\ answer = call[c].refusal.answer
  BY <1>2 DEF Refused
<1>5. Answer(c, answer) /\ invocation' = [invocation EXCEPT ![RunOf(c)][KeyOf(c)] = row]
  BY <1>4 DEF WriteRecord
<1>6. /\ CallType' /\ CallersSame(c) /\ call'[c].step = "done" /\ call'[c].ask = call[c].ask
      /\ call'[c].enabled = call[c].enabled /\ call'[c].pinned = call[c].pinned
      /\ call'[c].row = call[c].row
  BY <1>2, <1>5, AnswerEffect
<1>7. row \in RowOrNone /\ row # None
  BY RowAssumption DEF RowOrNone
<1>8. invocation' \in [Runs -> [Keys -> RowOrNone]]
  BY <1>3, <1>5, <1>7 DEF IInv, RowType
<1>9. \A r \in Runs, k \in Keys :
         IF r = RunOf(c) /\ k = KeyOf(c)
         THEN invocation'[r][k] = row
         ELSE invocation'[r][k] = invocation[r][k]
  BY <1>3, <1>5 DEF IInv, RowType
<1>10. Existing(c)' = row
  <2>1. RunOf(c)' = RunOf(c) /\ KeyOf(c)' = KeyOf(c)
    BY <1>6 DEF RunOf, KeyOf
  <2>. QED  BY <1>3, <1>9, <2>1 DEF Existing
<1>11. RowType'
  BY <1>1, <1>8 DEF IInv, RowType
<1>. QED  BY <1>2, <1>4, <1>6, <1>7, <1>9, <1>10, <1>11

LEMMA WriteRecordIInv ==
    ASSUME IInv, NEW c \in Calls, WriteRecord(c)
    PROVE  IInv'
<1>1. /\ At(c, "write") /\ ~SlotIsHeld(c) /\ UNCHANGED binding
      /\ UNCHANGED <<registryVars, runAgent, snapshot, approved>>
  BY DEF WriteRecord
<1>2. /\ Open(c) /\ call[c].row = None /\ CallOK(c)
      /\ call[c].refusal \in Refused /\ call[c].refusal.row.status # "SUCCEEDED"
  BY <1>1, StepFacts DEF At, CallOK, RefusalOK
<1>3. CASE Existing(c) # None
  <2>1. Answer(c, "error") /\ UNCHANGED invocation
    BY <1>3 DEF WriteRecord
  <2>. QED  BY <1>1, <1>2, <2>1, AnswerIInv DEF CallOnly, Answers, Refusals
<1>4. CASE Existing(c) = None
  <2>1. /\ CallType' /\ CallersSame(c) /\ call'[c].step = "done"
        /\ call'[c].ask = call[c].ask
        /\ call'[c].enabled = call[c].enabled /\ call'[c].pinned = call[c].pinned
        /\ call'[c].row = None /\ RowType' /\ Existing(c)' # None
    BY <1>4, WriteRecordEffect
  <2>2. \A r \in Runs, k \in Keys :
           IF r = RunOf(c) /\ k = KeyOf(c)
           THEN invocation'[r][k] = call[c].refusal.row
           ELSE invocation'[r][k] = invocation[r][k]
    BY <1>4, WriteRecordEffect
  <2>3. RunOf(c)' = RunOf(c) /\ ToolOf(c)' = ToolOf(c) /\ Cleared(c)' = Cleared(c)
    BY <1>1, <2>1 DEF RunOf, ToolOf, Cleared
  <2>4. CallOK(c)'
    <3>1. AskOK(c)'
      BY <1>1, <1>2, <2>1, <2>3 DEF CallOK, AskOK, Open
    <3>2. InsertedOK(c)' /\ RefusalOK(c)'
      BY <1>1, <1>2, <2>1, <2>3 DEF CallOK, InsertedOK, RefusalOK, Bound
    <3>. QED  BY <3>1, <3>2 DEF CallOK
  <2>5. RowsKept
    BY <1>1, <1>4, <2>2 DEF RowsKept, Existing
  <2>6. RunsExist'
    BY <1>1, <1>2, <2>2 DEF IInv, RunsExist, CallOK, AskOK
  <2>7. EffectIsAuthorised'
    <3>1. SUFFICES ASSUME NEW r \in Runs, NEW k \in Keys, Succeeded(r, k)'
                   PROVE  Succeeded(r, k) /\ invocation'[r][k] = invocation[r][k]
      BY <1>1 DEF IInv, EffectIsAuthorised
    <3>. QED  BY <1>2, <2>2, <3>1 DEF Succeeded
  <2>8. ASSUME NEW d \in Calls \ {c}, call[d].row # None PROVE Existing(d)' = None
    <3>1. /\ RunOf(d)' = RunOf(d) /\ KeyOf(d)' = KeyOf(d)
          /\ Existing(d) = None /\ Open(d) /\ ~SameSlot(c, d)
      BY <1>1, <2>1, <2>8, StepFacts DEF CallersSame, RunOf, KeyOf, CallOK, AskOK, InsertedOK,
                                         SlotIsHeld
    <3>2. RunOf(d) \in Runs /\ KeyOf(d) \in Keys
      BY <3>1, OpenType
    <3>. QED  BY <2>2, <3>1, <3>2 DEF Existing, SameSlot
  <2>9. ASSUME NEW d \in Calls \ {c}, call[d].pinned PROVE Bound(d)' = None
    BY <1>1, <2>1, <2>9, StepFacts DEF CallersSame, RunOf, ToolOf, CallOK, InsertedOK, Bound
  <2>. QED  BY <1>1, <2>1, <2>4, <2>5, <2>6, <2>7, <2>8, <2>9, CommittingStep
<1>. QED  BY <1>3, <1>4

RowCommitted(c) ==
    \A r \in Runs, k \in Keys :
        IF call[c].row # None /\ r = RunOf(c) /\ k = KeyOf(c)
        THEN invocation'[r][k] = call[c].row
        ELSE invocation'[r][k] = invocation[r][k]

BindingCommitted(c) ==
    \A r \in Runs, n \in Names :
        IF call[c].pinned /\ r = RunOf(c) /\ n = NameOf[ToolOf(c)]
        THEN binding'[r][n] = ToolOf(c)
        ELSE binding'[r][n] = binding[r][n]

LEMMA CommitCallEffect ==
    ASSUME IInv, NEW c \in Calls, Commit(c)
    PROVE  /\ CallType' /\ CallersSame(c) /\ call'[c].step = "idle"
           /\ call'[c].enabled = FALSE /\ call'[c].pinned = FALSE
           /\ call'[c].row = None
           /\ RowType'
           /\ RowCommitted(c)
           /\ BindingCommitted(c)
<1>1. At(c, "done") /\ UNCHANGED <<runAgent, snapshot, approved>>
  BY DEF Commit
<1>2. Open(c) /\ CallType /\ call[c].tries \in Nat /\ None \in AskOrNone /\ "idle" \in CallSteps
  BY <1>1, StepFacts DEF At, Open, IInv, AskOrNone, CallSteps
<1>3. /\ RunOf(c) \in Runs /\ KeyOf(c) \in Keys /\ ToolOf(c) \in Tools
      /\ NameOf[ToolOf(c)] \in Names
  BY <1>2, OpenType
<1>4. call[c].row \in RowOrNone
  BY <1>2 DEF CallType, CallState
<1>5. call' = [call EXCEPT ![c] = NewCall("idle", None, call[c].tries)]
  BY <1>2 DEF Commit, CallType
<1>6. /\ CallType' /\ CallersSame(c) /\ call'[c].step = "idle"
      /\ call'[c].enabled = FALSE /\ call'[c].pinned = FALSE /\ call'[c].row = None
  BY <1>2, <1>5, NewCallEffect
<1>7. /\ invocation' \in [Runs -> [Keys -> RowOrNone]]
      /\ RowCommitted(c)
  <2>1. invocation' = IF call[c].row # None
                      THEN [invocation EXCEPT ![RunOf(c)][KeyOf(c)] = call[c].row]
                      ELSE invocation
    BY DEF Commit
  <2>2. CASE call[c].row # None
    BY <1>3, <1>4, <2>1, <2>2 DEF IInv, RowType, RowCommitted
  <2>3. CASE call[c].row = None
    BY <2>1, <2>3 DEF IInv, RowType, RowCommitted
  <2>. QED  BY <2>2, <2>3
<1>8. /\ binding' \in [Runs -> [Names -> Tools \cup {None}]]
      /\ BindingCommitted(c)
  <2>1. binding' = IF call[c].pinned
                   THEN [binding EXCEPT ![RunOf(c)][NameOf[ToolOf(c)]] = ToolOf(c)]
                   ELSE binding
    BY DEF Commit
  <2>2. CASE call[c].pinned
    BY <1>3, <2>1, <2>2 DEF IInv, RowType, BindingCommitted
  <2>3. CASE ~call[c].pinned
    BY <2>1, <2>3 DEF IInv, RowType, BindingCommitted
  <2>. QED  BY <2>2, <2>3
<1>9. RowType'
  BY <1>1, <1>7, <1>8 DEF IInv, RowType
<1>. QED  BY <1>6, <1>7, <1>8, <1>9

\* The effect that becomes durable is still cleared, and its version is bound.
LEMMA CommitCallIInv ==
    ASSUME IInv, NEW c \in Calls, Commit(c)
    PROVE  IInv'
<1>1. At(c, "done") /\ UNCHANGED <<registryVars, runAgent, snapshot, approved>>
  BY DEF Commit
<1>2. Open(c) /\ CallOK(c) /\ call[c].ask \in Asks /\ runAgent[RunOf(c)] # None
  BY <1>1, StepFacts DEF At, Open, CallOK, AskOK
<1>3. /\ RunOf(c) \in Runs /\ KeyOf(c) \in Keys /\ ToolOf(c) \in Tools
      /\ NameOf[ToolOf(c)] \in Names
  BY <1>2, OpenType
<1>4. /\ CallType' /\ CallersSame(c) /\ call'[c].step = "idle"
      /\ call'[c].enabled = FALSE /\ call'[c].pinned = FALSE
      /\ call'[c].row = None /\ RowType'
  BY CommitCallEffect
<1>5. RowCommitted(c) /\ BindingCommitted(c)
  BY CommitCallEffect
<1>7. CallOK(c)'
  <2>1. AskOK(c)'
    BY <1>4 DEF AskOK, Open
  <2>2. InsertedOK(c)' /\ RefusalOK(c)'
    BY <1>4 DEF InsertedOK, RefusalOK
  <2>. QED  BY <2>1, <2>2 DEF CallOK
<1>8. RowsKept
  BY <1>2, <1>5 DEF RowCommitted, BindingCommitted, RowsKept, CallOK, InsertedOK, Existing, Bound
<1>9. RunsExist'
  BY <1>1, <1>2, <1>5 DEF IInv, RunsExist, RowCommitted
<1>10. ASSUME NEW r \in Runs, NEW k \in Keys, Succeeded(r, k)'
       PROVE  /\ invocation'[r][k].tool \in Defined \cap snapshot[r]
              /\ invocation'[r][k].tool \in Sensitive => approved[r]
              /\ invocation'[r][k].args \in ValidArgs
              /\ binding'[r][NameOf[invocation'[r][k].tool]] = invocation'[r][k].tool
  <2>1. CASE call[c].row # None /\ r = RunOf(c) /\ k = KeyOf(c)
    <3>1. invocation'[r][k] = call[c].row /\ call[c].row.status = "SUCCEEDED"
      BY <1>5, <1>10, <2>1 DEF Succeeded, RowCommitted
    <3>2. /\ call[c].row.tool = ToolOf(c) /\ call[c].row.args = call[c].ask.args
          /\ Cleared(c) /\ (call[c].pinned \/ Bound(c) = ToolOf(c))
      BY <1>2, <2>1, <3>1 DEF CallOK, InsertedOK
    <3>3. binding'[r][NameOf[ToolOf(c)]] = ToolOf(c)
      BY <1>3, <1>5, <2>1, <3>2 DEF Bound, BindingCommitted
    <3>. QED  BY <2>1, <3>1, <3>2, <3>3 DEF Cleared
  <2>2. CASE ~(call[c].row # None /\ r = RunOf(c) /\ k = KeyOf(c))
    <3>1. invocation'[r][k] = invocation[r][k] /\ Succeeded(r, k)
      BY <1>5, <1>10, <2>2 DEF Succeeded, RowCommitted
    <3>2. /\ invocation[r][k].tool \in Defined \cap snapshot[r]
          /\ invocation[r][k].tool \in Sensitive => approved[r]
          /\ invocation[r][k].args \in ValidArgs
          /\ binding[r][NameOf[invocation[r][k].tool]] = invocation[r][k].tool
      BY <3>1 DEF IInv, EffectIsAuthorised
    <3>3. invocation[r][k].tool \in Tools
      BY <3>2, RegistryAssumption
    <3>4. NameOf[invocation[r][k].tool] \in Names /\ invocation[r][k].tool # None
      BY <3>3, GatewayAssumption
    <3>5. binding'[r][NameOf[invocation[r][k].tool]] = invocation[r][k].tool
      BY <1>8, <3>2, <3>4 DEF RowsKept
    <3>. QED  BY <3>1, <3>2, <3>5
  <2>. QED  BY <2>1, <2>2
<1>11. EffectIsAuthorised'
  BY <1>1, <1>10 DEF EffectIsAuthorised
<1>12. ASSUME NEW d \in Calls \ {c}, call[d].row # None PROVE Existing(d)' = None
  <2>1. /\ RunOf(d)' = RunOf(d) /\ KeyOf(d)' = KeyOf(d)
        /\ Existing(d) = None /\ Open(d)
    BY <1>4, <1>12, StepFacts DEF CallersSame, RunOf, KeyOf, CallOK, AskOK, InsertedOK
  <2>2. RunOf(d) \in Runs /\ KeyOf(d) \in Keys
    BY <2>1, OpenType
  <2>3. call[c].row # None => ~(RunOf(c) = RunOf(d) /\ KeyOf(c) = KeyOf(d))
    BY <1>12 DEF IInv, KeysApart, SameSlot
  <2>. QED  BY <1>5, <2>1, <2>2, <2>3 DEF Existing, RowCommitted
<1>13. ASSUME NEW d \in Calls \ {c}, call[d].pinned PROVE Bound(d)' = None
  <2>1. /\ RunOf(d)' = RunOf(d) /\ ToolOf(d)' = ToolOf(d)
        /\ Bound(d) = None /\ Open(d)
    BY <1>4, <1>13, StepFacts DEF CallersSame, RunOf, ToolOf, CallOK, AskOK, InsertedOK
  <2>2. RunOf(d) \in Runs /\ NameOf[ToolOf(d)] \in Names
    BY <2>1, OpenType
  <2>3. call[c].pinned => ~(RunOf(c) = RunOf(d) /\ NameOf[ToolOf(c)] = NameOf[ToolOf(d)])
    BY <1>13 DEF IInv, KeysApart, SameName
  <2>. QED  BY <1>5, <2>1, <2>2, <2>3 DEF Bound, BindingCommitted
<1>. QED  BY <1>1, <1>4, <1>7, <1>8, <1>9, <1>11, <1>12, <1>13, CommittingStep

-----------------------------------------------------------------------------
(***************************************************************************)
(* Steps of others: the registry, an approver, the creation of a run.      *)
(***************************************************************************)
LEMMA OutsideStep ==
    ASSUME IInv, UNCHANGED binding, UNCHANGED invocation, UNCHANGED call,
           RegistryIInv', RowType',
           \A r \in Runs : runAgent[r] # None =>
               runAgent'[r] # None /\ snapshot'[r] = snapshot[r] /\ (approved[r] => approved'[r])
    PROVE  IInv'
<1>1. RunsExist'
  BY DEF IInv, RunsExist
<1>2. EffectIsAuthorised'
  BY DEF IInv, RunsExist, EffectIsAuthorised, Succeeded
<1>3. ASSUME NEW c \in Calls PROVE CallOK(c)'
  <2>1. CallOK(c)
    BY DEF IInv
  <2>2. /\ RunOf(c)' = RunOf(c) /\ ToolOf(c)' = ToolOf(c) /\ Open(c)' = Open(c)
        /\ Existing(c)' = Existing(c) /\ Bound(c)' = Bound(c)
    BY DEF RunOf, KeyOf, ToolOf, Open, Existing, Bound
  <2>3. Open(c) => /\ runAgent'[RunOf(c)] # None
                   /\ Cleared(c) => Cleared(c)'
    BY <2>1, <2>2, OpenType DEF CallOK, AskOK, Cleared
  <2>4. AskOK(c)'
    BY <2>1, <2>2, <2>3 DEF CallOK, AskOK, Open
  <2>5. InsertedOK(c)'
    BY <2>1, <2>2, <2>3 DEF CallOK, AskOK, InsertedOK
  <2>6. RefusalOK(c)'
    BY <2>1, <2>2 DEF CallOK, RefusalOK
  <2>. QED  BY <2>4, <2>5, <2>6 DEF CallOK
<1>4. CallType' /\ KeysApart'
  BY DEF IInv, CallType, KeysApart, SameSlot, SameName, RunOf, KeyOf, ToolOf
<1>. QED  BY <1>1, <1>2, <1>3, <1>4 DEF IInv

LEMMA RegistryPart ==
    ASSUME IInv, [RegistryNext]_registryVars, UNCHANGED gatewayVars
    PROVE  IInv'
<1>1. RegistryIInv'
  BY RegistryNextIInv DEF IInv
<1>2. RowType'
  BY DEF gatewayVars, IInv, RowType
<1>. QED  BY <1>1, <1>2, OutsideStep DEF gatewayVars

LEMMA CreateRunIInv ==
    ASSUME IInv, NEW r \in Runs, NEW v \in Versions, CreateRun(r, v)
    PROVE  IInv'
<1>1. /\ runAgent[r] = None /\ UNCHANGED registryVars /\ UNCHANGED approved
      /\ runAgent' = [runAgent EXCEPT ![r] = v]
      /\ snapshot' = [snapshot EXCEPT ![r] = grants[v]]
      /\ UNCHANGED binding /\ UNCHANGED invocation /\ UNCHANGED call
  BY DEF CreateRun
<1>2. RegistryIInv' /\ grants[v] \in SUBSET Tools
  BY <1>1, RegistryNextIInv DEF IInv, RegistryIInv, RegistryTypeOK
<1>3. RowType'
  BY <1>1, <1>2 DEF IInv, RowType
<1>4. \A s \in Runs : runAgent[s] # None =>
          runAgent'[s] # None /\ snapshot'[s] = snapshot[s] /\ (approved[s] => approved'[s])
  BY <1>1 DEF IInv, RowType
<1>. QED  BY <1>1, <1>2, <1>3, <1>4, OutsideStep

LEMMA ApproveIInv ==
    ASSUME IInv, NEW r \in Runs, Approve(r)
    PROVE  IInv'
<1>1. /\ UNCHANGED registryVars /\ UNCHANGED <<runAgent, snapshot>>
      /\ approved' = [approved EXCEPT ![r] = TRUE]
      /\ UNCHANGED binding /\ UNCHANGED invocation /\ UNCHANGED call
  BY DEF Approve
<1>2. RegistryIInv'
  BY <1>1, RegistryNextIInv DEF IInv
<1>3. RowType'
  BY <1>1 DEF IInv, RowType
<1>4. \A s \in Runs : approved[s] => approved'[s]
  BY <1>1 DEF IInv, RowType
<1>. QED  BY <1>1, <1>2, <1>3, <1>4, OutsideStep

-----------------------------------------------------------------------------
LEMMA InitIInv == Init => IInv
<1> SUFFICES ASSUME Init PROVE IInv
  OBVIOUS
<1>1. RegistryIInv
  BY RegistryInitIInv DEF Init
<1>2. CallType
  <2>1. NewCall("idle", None, 0) \in CallState
    BY DEF NewCall, CallState, CallSteps, AskOrNone, RowOrNone, RefusedOrNone, Answers
  <2>. QED  BY <2>1 DEF Init, CallType
<1>3. RowType
  BY DEF Init, RowType, RowOrNone
<1>4. ASSUME NEW c \in Calls
      PROVE  /\ call[c].step = "idle" /\ ~call[c].enabled /\ ~call[c].pinned
             /\ call[c].row = None
  BY DEF Init, NewCall
<1>5. \A c \in Calls : CallOK(c)
  BY <1>4 DEF CallOK, AskOK, InsertedOK, RefusalOK, Open
<1>6. KeysApart
  BY <1>4 DEF KeysApart
<1>7. RunsExist /\ EffectIsAuthorised
  BY DEF Init, RunsExist, EffectIsAuthorised, Succeeded
<1>. QED  BY <1>1, <1>2, <1>3, <1>5, <1>6, <1>7 DEF IInv

LEMMA NextIInv == IInv /\ [Next]_vars => IInv'
<1> SUFFICES ASSUME IInv, [Next]_vars PROVE IInv'
  OBVIOUS
<1>1. CASE UNCHANGED vars
  BY <1>1, RegistryPart DEF vars
<1>2. CASE RegistryNext /\ UNCHANGED gatewayVars
  BY <1>2, RegistryPart
<1>3. ASSUME NEW c \in Calls, CallStep(c) PROVE IInv'
  BY <1>3, ResolveIInv, LookupInvocationIInv, AuthoriseIInv, PinIInv, InsertInvocationIInv,
     HandleIInv, SelectRecordIInv, PoolTimeoutIInv, WriteRecordIInv, CommitCallIInv, OverIInv
     DEF CallStep
<1>4. ASSUME NEW c \in Calls, InjectFailure(c) \/ Crash(c) PROVE IInv'
  BY <1>4, InjectFailureIInv, OverIInv
<1>. QED  BY <1>1, <1>2, <1>3, <1>4, CreateRunIInv, ApproveIInv, BeginIInv DEF Next

LEMMA Invariance == Spec => []IInv
BY InitIInv, NextIInv, PTL DEF Spec

-----------------------------------------------------------------------------
\* What was executed was defined, granted, approved, valid and of the bound
\* version.
THEOREM EffectsAreAuthorised == Spec => []EffectIsAuthorised
<1>1. IInv => EffectIsAuthorised
  BY DEF IInv
<1>. QED  BY <1>1, Invariance, PTL

\* A run that has executed one version of a tool executes no other one: its
\* name is bound to both (_pin_tool_version).
OneVersionPerRun ==
    \A r \in Runs, j, k \in Keys :
        Succeeded(r, j) /\ Succeeded(r, k)
        /\ NameOf[invocation[r][j].tool] = NameOf[invocation[r][k].tool]
        => invocation[r][j].tool = invocation[r][k].tool

\* A run executes one version of a tool.
THEOREM OneVersion == Spec => []OneVersionPerRun
<1>1. IInv => OneVersionPerRun
  BY DEF IInv, EffectIsAuthorised, OneVersionPerRun
<1>. QED  BY <1>1, Invariance, PTL

\* A caller that was told of a refusal finds a record under the call's key: the
\* refusal's, or that of another attempt.
THEOREM RefusalsAreRecorded == Spec => []RefusalIsRecorded
<1>1. IInv => RefusalIsRecorded
  BY DEF IInv, CallOK, RefusalOK, RefusalIsRecorded, At
<1>. QED  BY <1>1, Invariance, PTL

\* The record of a key never changes: only a call that found no row under the
\* key, and keeps every other one out of it, commits one.
THEOREM RowsAreFinal == Spec => RowIsFinal
<1> DEFINE Kept == \A r \in Runs, k \in Keys :
                      invocation[r][k] # None => invocation'[r][k] = invocation[r][k]
<1>1. IInv /\ [Next]_vars => Kept
  <2> SUFFICES ASSUME IInv, [Next]_vars PROVE Kept
    OBVIOUS
  <2>1. ASSUME NEW c \in Calls, Commit(c) PROVE Kept
    BY <2>1, CommitCallEffect, StepFacts DEF RowCommitted, CallOK, InsertedOK, Existing
  <2>2. ASSUME NEW c \in Calls, WriteRecord(c) PROVE Kept
    <3>1. CASE Existing(c) = None
      BY <2>2, <3>1, WriteRecordEffect DEF Existing
    <3>2. CASE Existing(c) # None
      BY <2>2, <3>2 DEF WriteRecord
    <3>. QED  BY <3>1, <3>2
  <2>3. ASSUME NEW c \in Calls, CallStep(c), ~Commit(c), ~WriteRecord(c)
        PROVE  UNCHANGED invocation
    BY <2>3 DEF CallStep, Resolve, LookupInvocation, Authorise, Pin, InsertInvocation, Handle,
                SelectRecord, PoolTimeout, Rollback, CallOnly
  <2>4. ASSUME NEW c \in Calls, InjectFailure(c) \/ Crash(c) PROVE UNCHANGED invocation
    BY <2>4 DEF InjectFailure, Crash, CallOnly
  <2>5. ASSUME \/ \E c \in Calls, ask \in Asks : Begin(c, ask)
               \/ \E r \in Runs, v \in Versions : CreateRun(r, v)
               \/ \E r \in Runs : Approve(r)
               \/ UNCHANGED gatewayVars
        PROVE  UNCHANGED invocation
    BY <2>5 DEF Begin, CallOnly, CreateRun, Approve, gatewayVars
  <2>. QED  BY <2>1, <2>2, <2>3, <2>4, <2>5 DEF Next, vars
<1>2. RowIsFinal <=> [][Kept]_vars
  BY DEF RowIsFinal
<1> HIDE DEF Kept
<1>. QED  BY <1>1, <1>2, Invariance, PTL DEF Spec

-----------------------------------------------------------------------------
(***************************************************************************)
(* The refinement of GovernedCall.  A binding is inserted for the row that *)
(* follows it: without that row the transaction is broken, so a commit has *)
(* both or neither.                                                        *)
(***************************************************************************)
PinIsUsed(c) ==
    call[c].pinned => \/ call[c].step \in {"insert", "handle"}
                      \/ call[c].row # None
                      \/ call[c].step = "done" /\ call[c].answer = "broken"

PinsAreUsed == \A c \in Calls : PinIsUsed(c)

\* Before it pins, and once it is refused, a call has inserted no binding.
LEMMA Unpinned ==
    ASSUME IInv, PinsAreUsed, NEW c \in Calls,
           call[c].step \in {"resolve", "lookup", "authorise", "pin", "record", "write"}
    PROVE  call[c].ask \in Asks /\ call[c].row = None /\ call[c].pinned = FALSE /\ CallType
<1>1. Open(c) /\ call[c].row = None
  BY StepFacts
<1>. QED  BY <1>1, OpenType DEF PinsAreUsed, PinIsUsed, IInv, CallType, CallState

LEMMA PinKeptApart ==
    ASSUME PinsAreUsed, NEW c \in Calls, CallersSame(c), PinIsUsed(c)'
    PROVE  PinsAreUsed'
BY DEF PinsAreUsed, PinIsUsed, CallersSame

LEMMA ReadingPins ==
    ASSUME IInv, PinsAreUsed, NEW c \in Calls,
           \/ Resolve(c) \/ InjectFailure(c) \/ LookupInvocation(c) \/ Authorise(c)
           \/ SelectRecord(c) \/ PoolTimeout(c) \/ WriteRecord(c)
    PROVE  PinsAreUsed'
<1>1. call[c].step \in {"resolve", "lookup", "authorise", "pin", "record", "write"}
  BY DEF Resolve, InjectFailure, LookupInvocation, Authorise, SelectRecord, PoolTimeout,
         WriteRecord, At
<1>2. call[c].ask \in Asks /\ call[c].row = None /\ call[c].pinned = FALSE /\ CallType
  BY <1>1, Unpinned
<1>3. \/ \E step : Moves(c, step)
      \/ \E answer : Answer(c, answer)
      \/ \E status, category, answer : Record(c, status, category, answer)
      \/ \E is : call' = [call EXCEPT ![c].step = "lookup", ![c].enabled = is]
  BY DEF Resolve, InjectFailure, LookupInvocation, Authorise, SelectRecord, PoolTimeout,
         WriteRecord
<1>4. CallersSame(c) /\ call'[c].pinned = call[c].pinned
  BY <1>2, <1>3 DEF Moves, Answer, Record, CallType, CallState, CallersSame
<1>. QED  BY <1>2, <1>4, PinKeptApart DEF PinIsUsed

LEMMA PinningPins ==
    ASSUME IInv, PinsAreUsed, NEW c \in Calls, Pin(c)
    PROVE  PinsAreUsed'
<1>1. call[c].ask \in Asks /\ call[c].pinned = FALSE /\ CallType
  BY Unpinned DEF Pin, At
<1>2. CASE Record(c, "FAILED", "version_mismatch", "mismatch")
  <2>1. CallersSame(c) /\ call'[c].pinned = FALSE
    BY <1>1, <1>2, RecordEffect DEF Statuses, Categories, Answers
  <2>. QED  BY <2>1, PinKeptApart DEF PinIsUsed
<1>3. CASE call' = [call EXCEPT ![c].step = "insert", ![c].pinned = Bound(c) = None]
  <2>1. CallersSame(c) /\ call'[c].step = "insert"
    BY <1>1, <1>3 DEF CallersSame, CallType, CallState
  <2>. QED  BY <2>1, PinKeptApart DEF PinIsUsed
<1>. QED  BY <1>2, <1>3 DEF Pin

LEMMA InsertingPins ==
    ASSUME IInv, PinsAreUsed, NEW c \in Calls, InsertInvocation(c) \/ Handle(c)
    PROVE  PinsAreUsed'
<1>1. CallType /\ call[c].ask \in Asks
  <2>1. Open(c)
    BY DEF InsertInvocation, Handle, At, Open
  <2>. QED  BY <2>1, OpenType DEF IInv
<1>2. CASE Answer(c, "broken")
  <2>1. CallersSame(c) /\ call'[c].step = "done" /\ call'[c].answer = "broken"
    BY <1>1, <1>2, AnswerEffect DEF Answers
  <2>. QED  BY <2>1, PinKeptApart DEF PinIsUsed
<1>3. CASE call' = [call EXCEPT ![c].step = "handle", ![c].row = Row(c, "FAILED", "running")]
  <2>1. CallersSame(c) /\ call'[c].step = "handle"
    BY <1>1, <1>3 DEF CallersSame, CallType, CallState
  <2>. QED  BY <2>1, PinKeptApart DEF PinIsUsed
<1>4. ASSUME NEW status \in Statuses, NEW category \in Categories, NEW answer \in Answers,
             call' = [call EXCEPT ![c].step = "done", ![c].answer = answer,
                                  ![c].row = Row(c, status, category)]
      PROVE  PinsAreUsed'
  <2>1. PICK row \in Rows : row = Row(c, status, category) /\ row # None
    BY <1>1, RowFacts
  <2>2. CallersSame(c) /\ call'[c].row = row
    BY <1>1, <1>4, <2>1, HandleEffect
  <2>. QED  BY <2>1, <2>2, PinKeptApart DEF PinIsUsed
<1>. QED  BY <1>2, <1>3, <1>4 DEF InsertInvocation, Handle, Statuses, Categories, Answers

LEMMA NewPins ==
    ASSUME IInv, PinsAreUsed, NEW c \in Calls,
           Commit(c) \/ Rollback(c) \/ Crash(c) \/ \E ask \in Asks : Begin(c, ask)
    PROVE  PinsAreUsed'
<1>1. CallType
  BY DEF IInv
<1>2. \E step, ask, tries : call' = [call EXCEPT ![c] = NewCall(step, ask, tries)]
  BY <1>1 DEF Commit, Rollback, Crash, Begin, CallType
<1>3. CallersSame(c) /\ call'[c].pinned = FALSE
  BY <1>1, <1>2 DEF CallersSame, CallType, NewCall
<1>. QED  BY <1>3, PinKeptApart DEF PinIsUsed

LEMMA PinsUsed == Spec => []PinsAreUsed
<1>1. Init => PinsAreUsed
  BY DEF Init, PinsAreUsed, PinIsUsed, NewCall
<1>2. IInv /\ PinsAreUsed /\ [Next]_vars => PinsAreUsed'
  <2> SUFFICES ASSUME IInv, PinsAreUsed, [Next]_vars PROVE PinsAreUsed'
    OBVIOUS
  <2>1. ASSUME NEW c \in Calls, CallStep(c) \/ InjectFailure(c) \/ Crash(c) PROVE PinsAreUsed'
    BY <2>1, ReadingPins, PinningPins, InsertingPins, NewPins DEF CallStep
  <2>2. ASSUME UNCHANGED call PROVE PinsAreUsed'
    BY <2>2 DEF PinsAreUsed, PinIsUsed
  <2>3. \/ \E c \in Calls : CallStep(c) \/ InjectFailure(c) \/ Crash(c)
        \/ \E c \in Calls : \E ask \in Asks : Begin(c, ask)
        \/ UNCHANGED call
    BY DEF Next, CreateRun, Approve, vars, gatewayVars
  <2>. QED  BY <2>1, <2>2, <2>3, NewPins
<1>. QED  BY <1>1, <1>2, Invariance, PTL DEF Spec

-----------------------------------------------------------------------------
\* The steps of a call before its commit, and those of the registry, are hidden.
LEMMA QuietImplementsCall ==
    ASSUME UNCHANGED <<runAgent, snapshot, approved, binding, invocation>>
    PROVE  UNCHANGED Governed!vars
BY DEF Governed!vars

LEMMA CreateRunImplementsCall ==
    ASSUME IInv, NEW r \in Runs, NEW v \in Versions, CreateRun(r, v)
    PROVE  Governed!Next
<1> DEFINE started == {s \in Runs : runAgent[s] # None}
<1>1. PICK tools \in SUBSET Tools : tools = grants[v]
  BY DEF CreateRun, IInv, RegistryIInv, RegistryTypeOK
<1>2. r \notin started /\ started' = started \cup {r}
  <2>1. v # None /\ runAgent[r] = None
    BY GatewayAssumption DEF CreateRun
  <2>2. \A s \in Runs : runAgent'[s] = IF s = r THEN v ELSE runAgent[s]
    BY DEF CreateRun, IInv, RowType
  <2>. QED  BY <2>1, <2>2
<1>3. Governed!Start(r, tools)
  BY <1>1, <1>2 DEF CreateRun, Governed!Start
<1> HIDE DEF started
<1>. QED  BY <1>3 DEF Governed!Next

LEMMA ApproveImplementsCall ==
    ASSUME NEW r \in Runs, Approve(r)
    PROVE  Governed!Next
<1>1. Governed!Approve(r)
  BY DEF Approve, Governed!Approve
<1>. QED  BY <1>1 DEF Governed!Next

\* The recorder's commit is the refusal.
LEMMA WriteRecordImplementsCall ==
    ASSUME IInv, NEW c \in Calls, WriteRecord(c)
    PROVE  [Governed!Next]_Governed!vars
<1>1. CASE Existing(c) # None
  BY <1>1, QuietImplementsCall DEF WriteRecord
<1>2. CASE Existing(c) = None
  <2>1. At(c, "write") /\ Open(c) /\ CallOK(c)
    BY StepFacts DEF WriteRecord, At, Open
  <2>2. /\ call[c].refusal.row \in Rows /\ call[c].refusal.row.status # "SUCCEEDED"
        /\ runAgent[RunOf(c)] # None
    BY <2>1 DEF CallOK, AskOK, RefusalOK, Refused, At
  <2>3. RunOf(c) \in Runs /\ KeyOf(c) \in Keys
    BY <2>1, OpenType
  <2>4. Governed!Refuse(RunOf(c), KeyOf(c), call[c].refusal.row)
    BY <1>2, <2>2, <2>3 DEF WriteRecord, Existing, Governed!Refuse, Governed!Writes
  <2>. QED  BY <2>2, <2>3, <2>4 DEF Governed!Next
<1>. QED  BY <1>1, <1>2

\* The caller's commit is the attempt, if there was one: its key is still free,
\* what permitted it still holds, and its version is bound with it or before.
LEMMA CommitImplementsCall ==
    ASSUME IInv, PinsAreUsed, NEW c \in Calls, Commit(c)
    PROVE  [Governed!Next]_Governed!vars
<1>1. /\ At(c, "done") /\ call[c].answer # "broken"
      /\ UNCHANGED <<runAgent, snapshot, approved>>
  BY DEF Commit
<1>2. Open(c) /\ CallOK(c) /\ PinIsUsed(c) /\ runAgent[RunOf(c)] # None
  BY <1>1, StepFacts DEF At, Open, CallOK, AskOK, PinsAreUsed
<1>3. CASE call[c].row = None
  <2>1. ~call[c].pinned
    BY <1>1, <1>2, <1>3 DEF PinIsUsed, At
  <2>. QED  BY <1>1, <1>3, <2>1, QuietImplementsCall DEF Commit
<1>4. CASE call[c].row # None
  <2>1. /\ RunOf(c) \in Runs /\ KeyOf(c) \in Keys /\ ToolOf(c) \in Tools
        /\ NameOf[ToolOf(c)] \in Names
    BY <1>2, OpenType
  <2>2. /\ call[c].row.tool = ToolOf(c) /\ call[c].row.args = call[c].ask.args
        /\ Cleared(c) /\ Existing(c) = None
        /\ call[c].pinned => Bound(c) = None
        /\ call[c].pinned \/ Bound(c) = ToolOf(c)
    BY <1>2, <1>4 DEF CallOK, InsertedOK
  <2>3. call[c].row \in Rows
    BY <1>4 DEF IInv, CallType, CallState, RowOrNone
  <2>4. binding' = [binding EXCEPT ![RunOf(c)][NameOf[ToolOf(c)]] = ToolOf(c)]
    <3>1. CASE call[c].pinned
      BY <3>1 DEF Commit
    <3>2. CASE ~call[c].pinned
      BY <2>1, <2>2, <3>2 DEF Commit, Bound, IInv, RowType
    <3>. QED  BY <3>1, <3>2
  <2>5. Governed!Permitted(RunOf(c), call[c].row)
    BY <2>2 DEF Cleared, Bound, Governed!Permitted
  <2>6. Governed!Writes(RunOf(c), KeyOf(c), call[c].row)
    BY <1>1, <1>2, <1>4, <2>1, <2>2 DEF Commit, Existing, Governed!Writes
  <2>7. Governed!Attempt(RunOf(c), KeyOf(c), call[c].row)
    BY <2>2, <2>4, <2>5, <2>6 DEF Governed!Attempt
  <2>. QED  BY <2>1, <2>3, <2>7 DEF Governed!Next
<1>. QED  BY <1>3, <1>4

LEMMA StepImplementsCall ==
    IInv /\ PinsAreUsed /\ [Next]_vars => [Governed!Next]_Governed!vars
<1> SUFFICES ASSUME IInv, PinsAreUsed, [Next]_vars PROVE [Governed!Next]_Governed!vars
  OBVIOUS
<1>1. ASSUME NEW c \in Calls, CallStep(c), ~Commit(c), ~WriteRecord(c)
      PROVE  CallOnly
  BY <1>1 DEF CallStep, Resolve, LookupInvocation, Authorise, Pin, InsertInvocation, Handle,
              SelectRecord, PoolTimeout, Rollback
<1>2. ASSUME NEW c \in Calls,
             InjectFailure(c) \/ Crash(c) \/ \E ask \in Asks : Begin(c, ask)
      PROVE  CallOnly
  BY <1>2 DEF InjectFailure, Crash, Begin
<1>3. ASSUME CallOnly \/ UNCHANGED gatewayVars PROVE UNCHANGED Governed!vars
  BY <1>3, QuietImplementsCall DEF CallOnly, gatewayVars
<1>. QED  BY <1>1, <1>2, <1>3, CreateRunImplementsCall, ApproveImplementsCall,
             WriteRecordImplementsCall, CommitImplementsCall DEF Next, vars

LEMMA InitCall == Init => Governed!Init
BY DEF Init, Governed!Init

\* Callers that race for keys, names and connections behave as if each call were
\* attempted or refused in one step, with what its run had by then.
THEOREM CallsAreGoverned == Spec => ImplementsCall
<1>1. Spec => [][Governed!Next]_Governed!vars
  BY StepImplementsCall, Invariance, PinsUsed, PTL DEF Spec
<1>. QED  BY <1>1, InitCall, PTL DEF Spec, ImplementsCall, Governed!Spec
=============================================================================
