----------------------------- MODULE WorkflowProofs -----------------------------
(***************************************************************************)
(* Proofs about ReminderWorkflow, for any number of concurrent requests,   *)
(* payloads and readings.                                                  *)
(*                                                                         *)
(* The properties rest on one ordering fact of the code: an approval row   *)
(* is written only after the draft it is about was committed.  Whoever     *)
(* holds an approval therefore finds a draft that awaits it or a completed *)
(* workflow, and what run reads before its transaction cannot be stale in  *)
(* a way that matters.  HandlerInv says this for every point of a request. *)
(***************************************************************************)
EXTENDS ReminderWorkflow, TLAPS

-----------------------------------------------------------------------------
(* The inductive invariant.                                                *)

\* A draft was shown to the user: it awaits approval or was carried out.
DraftShown == state.step \in {"approval_required", "completed"}

\* The rows a workflow state may be.
StateInv ==
  /\ state.status = "none" => state = NoState
  /\ state.status # "none" => state.payload \in Payloads
  /\ state.status = "none" <=> state.step = "none"
  /\ state.status = "running" <=> state.step = "classify"
  /\ state.status = "completed" <=> state.step = "completed"
  /\ DraftShown => state.draft \in ReminderDraft /\ state.draft.payload = state.payload
  /\ ~DraftShown => state.draft = NoDraft

\* An approval is about the draft that was shown.
ApprovalInv ==
  /\ approval.status = "none" => approval = NoApproval
  /\ approval.status # "none" => DraftShown /\ approval.payload = state.payload

\* The points of a request after approvals.get found the approval.
Approving == {"approve", "mark", "write", "read", "execute"}

\* What a request knows at each point is still true when it is used.
HandlerInv ==
  \A h \in Handlers :
    /\ handler[h].pc = "extract" =>
         state.status = "running" /\ handler[h].payload = state.payload
    /\ handler[h].pc = "ask" => DraftShown /\ handler[h].payload = state.payload
    /\ handler[h].pc \in Approving \cup {"cancel"} => approval.status # "none"
    /\ handler[h].pc \in Approving => handler[h].payload = approval.payload
    /\ handler[h].pc \in {"read", "execute"} =>
         approval.status \in {"approved", "cancelled"}
    /\ handler[h].pc = "execute" =>
         \/ handler[h].extraction = state.draft
         \/ state.status = "completed"

Inv ==
  /\ TypeOK
  /\ StateInv
  /\ ApprovalInv
  /\ HandlerInv
  /\ BuiltAsApproved
  /\ NoEffectUndecided
  /\ OneExecutor

-----------------------------------------------------------------------------
(* One lemma per action.                                                   *)

\* NoDraft is not a draft: its payload is no payload.
LEMMA NoDraftIsNone == NoDraft \notin ReminderDraft
BY WorkflowAssumption DEF NoDraft, ReminderDraft, NoPayload, NoReading

\* A thread that has answered holds nothing.
LEMMA IdleIsHandler == Idle \in HandlerState /\ Idle.pc = "idle"
BY DEF Idle, HandlerState, Pc

\* Only the first request of all finds no state, so nobody else is reading, asking
\* or deciding when it is elected.
LEMMA RegisterSafe ==
  ASSUME Inv, NEW h \in Handlers, NEW payload \in Payloads, Register(h, payload)
  PROVE  Inv'
<1> USE DEF Inv, Register, Elected, Asks, Answered
<1>1. TypeOK'
  BY DEF TypeOK, HandlerState, Pc, initial_state, WorkflowState, NoDraft
<1>2. StateInv' /\ ApprovalInv'
  BY WorkflowAssumption DEF StateInv, ApprovalInv, DraftShown, initial_state, NoState, NoApproval
<1>3. HandlerInv'
  BY DEF TypeOK, HandlerState, Pc, StateInv, ApprovalInv, HandlerInv, Approving, DraftShown, AwaitsApproval,
    Conflicts, initial_state, NoState, WorkflowState
<1>4. BuiltAsApproved' /\ NoEffectUndecided'
  BY DEF BuiltAsApproved, NoEffectUndecided, initial_state, NoState
<1>5. OneExecutor'
  BY DEF TypeOK, HandlerState, Pc, HandlerInv, OneExecutor, initial_state, NoState
<1>6. QED
  BY <1>1, <1>2, <1>3, <1>4, <1>5

\* The elected request is the only reader, so nobody else is left at "extract".
LEMMA ExtractSafe ==
  ASSUME Inv, NEW h \in Handlers, Extract(h)
  PROVE  Inv'
<1> USE DEF Inv, Extract
<1>1. PICK extraction \in Extractions(handler[h].payload) :
        \/ /\ extraction = NoDraft
           /\ state' = [state EXCEPT !.status = "waiting_approval",
                                     !.step   = "needs_clarification"]
           /\ Reply(h)
        \/ /\ extraction # NoDraft
           /\ state' = [state EXCEPT !.status = "waiting_approval",
                                     !.step   = "approval_required",
                                     !.draft  = extraction]
           /\ GoTo(h, "ask")
  OBVIOUS
<1>2. /\ state.status = "running" /\ state.step = "classify"
      /\ state.payload \in Payloads /\ state.draft = NoDraft
      /\ handler[h].payload = state.payload
  BY DEF StateInv, HandlerInv, DraftShown
<1>3. extraction # NoDraft =>
        extraction \in ReminderDraft /\ extraction.payload = state.payload
  BY <1>1, <1>2 DEF Extractions, ReminderDraft
<1>4. /\ state' \in WorkflowState
      /\ state'.status = "waiting_approval"
      /\ state'.payload = state.payload
      /\ \/ state'.step = "needs_clarification" /\ state'.draft = NoDraft
         \/ /\ state'.step = "approval_required"
            /\ state'.draft \in ReminderDraft
            /\ state'.draft.payload = state.payload
  BY <1>1, <1>2, <1>3 DEF TypeOK, WorkflowState
<1>5. /\ handler' \in [Handlers -> HandlerState]
      /\ \A g \in Handlers \ {h} : handler'[g] = handler[g]
      /\ handler'[h].pc \in {"idle", "ask"}
      /\ handler'[h].pc = "ask" =>
           /\ state'.step = "approval_required"
           /\ handler'[h].payload = handler[h].payload
  <2>1. CASE Reply(h)
    BY <2>1, IdleIsHandler DEF TypeOK, Reply, Idle
  <2>2. CASE GoTo(h, "ask") /\ state'.step = "approval_required"
    BY <2>2 DEF TypeOK, HandlerState, Pc, GoTo
  <2>3. QED
    BY <1>1, <2>1, <2>2 DEF TypeOK, WorkflowState
<1>6. TypeOK'
  BY <1>4, <1>5 DEF TypeOK
<1>7. StateInv' /\ ApprovalInv'
  BY <1>2, <1>4 DEF StateInv, ApprovalInv, DraftShown
<1>8. HandlerInv'
  BY <1>2, <1>4, <1>5 DEF HandlerInv, ApprovalInv, OneExecutor, DraftShown, Approving
<1>9. BuiltAsApproved' /\ NoEffectUndecided'
  BY <1>2, <1>4 DEF BuiltAsApproved, NoEffectUndecided
<1>10. OneExecutor'
  BY <1>4, <1>5 DEF OneExecutor
<1>11. QED
  BY <1>6, <1>7, <1>8, <1>9, <1>10

\* The approval is created only after its draft: whoever asks has seen it.
LEMMA AskApprovalSafe ==
  ASSUME Inv, NEW h \in Handlers, AskApproval(h)
  PROVE  Inv'
<1> USE DEF Inv, AskApproval, Reply
<1>1. TypeOK'
  BY DEF TypeOK, HandlerState, Pc, PendingApproval, Idle, NoDraft
<1>2. StateInv' /\ ApprovalInv'
  BY DEF StateInv, ApprovalInv, HandlerInv, DraftShown, NoApproval, TypeOK, PendingApproval
<1>3. HandlerInv'
  BY DEF TypeOK, HandlerState, Pc, HandlerInv, ApprovalInv, DraftShown, Approving, Idle, NoApproval
<1>4. BuiltAsApproved' /\ NoEffectUndecided'
  BY DEF BuiltAsApproved, NoEffectUndecided, NoApproval
<1>5. OneExecutor'
  BY DEF TypeOK, HandlerState, Pc, OneExecutor, Idle
<1>6. QED
  BY <1>1, <1>2, <1>3, <1>4, <1>5

\* The request is rebuilt from the approval, so it carries its payload.
LEMMA FindApprovalSafe ==
  ASSUME Inv, NEW h \in Handlers, FindApproval(h)
  PROVE  Inv'
<1> USE DEF Inv, FindApproval
<1>1. TypeOK'
  BY IdleIsHandler DEF TypeOK, HandlerState, Pc, PendingApproval
<1>2. StateInv' /\ ApprovalInv' /\ BuiltAsApproved' /\ NoEffectUndecided'
  BY DEF StateInv, ApprovalInv, BuiltAsApproved, NoEffectUndecided, DraftShown
<1>3. HandlerInv'
  BY DEF TypeOK, HandlerState, Pc, HandlerInv, ApprovalInv, DraftShown, Approving, Idle,
    PendingApproval, NoApproval
<1>4. OneExecutor'
  BY DEF TypeOK, HandlerState, Pc, OneExecutor, Idle
<1>5. QED
  BY <1>1, <1>2, <1>3, <1>4

\* Only a decided approval lets the request pass to "read".
LEMMA CheckApprovalSafe ==
  ASSUME Inv, NEW h \in Handlers, CheckApproval(h)
  PROVE  Inv'
<1> USE DEF Inv, CheckApproval, Reply, GoTo
<1>1. TypeOK'
  BY IdleIsHandler DEF TypeOK, HandlerState, Pc, PendingApproval
<1>2. StateInv' /\ ApprovalInv' /\ BuiltAsApproved' /\ NoEffectUndecided'
  BY DEF StateInv, ApprovalInv, BuiltAsApproved, NoEffectUndecided, DraftShown
<1>3. HandlerInv'
  BY DEF TypeOK, HandlerState, Pc, HandlerInv, ApprovalInv, DraftShown, Approving, Idle,
    PendingApproval, NoApproval
<1>4. OneExecutor'
  BY DEF TypeOK, HandlerState, Pc, OneExecutor, Idle
<1>5. QED
  BY <1>1, <1>2, <1>3, <1>4

\* An approval that is not pending any more is approved or cancelled.
LEMMA RecheckApprovalSafe ==
  ASSUME Inv, NEW h \in Handlers, RecheckApproval(h)
  PROVE  Inv'
<1> USE DEF Inv, RecheckApproval, GoTo
<1>1. TypeOK'
  BY IdleIsHandler DEF TypeOK, HandlerState, Pc, PendingApproval
<1>2. StateInv' /\ ApprovalInv' /\ BuiltAsApproved' /\ NoEffectUndecided'
  BY DEF StateInv, ApprovalInv, BuiltAsApproved, NoEffectUndecided, DraftShown
<1>3. HandlerInv'
  BY DEF TypeOK, HandlerState, Pc, HandlerInv, ApprovalInv, DraftShown, Approving, Idle,
    PendingApproval, NoApproval
<1>4. OneExecutor'
  BY DEF TypeOK, HandlerState, Pc, OneExecutor, Idle
<1>5. QED
  BY <1>1, <1>2, <1>3, <1>4

\* Approving leaves the approval decided, whatever it was before.
LEMMA MarkApprovedSafe ==
  ASSUME Inv, NEW h \in Handlers, MarkApproved(h)
  PROVE  Inv'
<1> USE DEF Inv, MarkApproved, GoTo
<1>1. TypeOK'
  BY DEF TypeOK, HandlerState, Pc, PendingApproval
<1>2. StateInv' /\ ApprovalInv'
  BY DEF StateInv, ApprovalInv, HandlerInv, DraftShown, TypeOK, PendingApproval, Approving
<1>3. HandlerInv'
  BY DEF TypeOK, HandlerState, Pc, HandlerInv, DraftShown, Approving, PendingApproval
<1>4. BuiltAsApproved' /\ NoEffectUndecided'
  BY DEF BuiltAsApproved, NoEffectUndecided, TypeOK, PendingApproval
<1>5. OneExecutor'
  BY DEF TypeOK, HandlerState, Pc, OneExecutor
<1>6. QED
  BY <1>1, <1>2, <1>3, <1>4, <1>5

\* Whoever holds a grant finds the draft that awaits it or a completed workflow.
LEMMA ReadStateSafe ==
  ASSUME Inv, NEW h \in Handlers, ReadState(h)
  PROVE  Inv'
<1> USE DEF Inv, ReadState
<1>1. PICK extraction \in IF AwaitsApproval THEN {state.draft}
                          ELSE IF state = NoState THEN Extractions(handler[h].payload)
                          ELSE {NoDraft} :
        handler' = [handler EXCEPT ![h].pc = "execute", ![h].extraction = extraction]
  OBVIOUS
<1>2. DraftShown /\ approval.status # "none"
  BY DEF HandlerInv, ApprovalInv, Approving
<1>3. /\ extraction \in ReminderDraft \cup {NoDraft}
      /\ extraction = state.draft \/ state.status = "completed"
  BY <1>1, <1>2 DEF StateInv, DraftShown, AwaitsApproval, NoState, TypeOK, WorkflowState
<1>4. /\ handler' \in [Handlers -> HandlerState]
      /\ \A g \in Handlers \ {h} : handler'[g] = handler[g]
      /\ handler'[h].pc = "execute"
      /\ handler'[h].payload = handler[h].payload
      /\ handler'[h].extraction = extraction
  BY <1>1, <1>3 DEF TypeOK, HandlerState, Pc
<1>5. TypeOK'
  BY <1>4 DEF TypeOK
<1>6. StateInv' /\ ApprovalInv' /\ BuiltAsApproved' /\ NoEffectUndecided'
  BY DEF StateInv, ApprovalInv, BuiltAsApproved, NoEffectUndecided, DraftShown
<1>7. HandlerInv'
  BY <1>2, <1>3, <1>4 DEF HandlerInv, DraftShown, Approving
<1>8. OneExecutor'
  BY <1>4 DEF OneExecutor
<1>9. QED
  BY <1>5, <1>6, <1>7, <1>8

\* A draft that awaits approval is carried out by the first transaction that
\* resumes it; for any other the workflow is completed and nothing changes.
LEMMA ExecuteSafe ==
  ASSUME Inv, NEW h \in Handlers, Execute(h)
  PROVE  Inv'
<1> USE DEF Inv, Execute
<1>1. /\ DraftShown /\ state # NoState
      /\ approval.status \in {"approved", "cancelled"}
      /\ handler[h].payload = state.payload /\ approval.payload = state.payload
  BY DEF HandlerInv, ApprovalInv, Approving, DraftShown, NoState
<1>2. /\ handler' \in [Handlers -> HandlerState]
      /\ \A g \in Handlers \ {h} : handler'[g] = handler[g]
      /\ handler'[h].pc = "idle"
  BY DEF TypeOK, HandlerState, Pc, Reply, Idle, NoDraft
<1>3. CASE ~AwaitsApproval
  <2>1. UNCHANGED <<state, reminder, approval, crashed, cancel_told>>
    BY <1>1, <1>3
  <2>2. TypeOK' /\ StateInv' /\ ApprovalInv' /\ BuiltAsApproved' /\ NoEffectUndecided'
    BY <1>2, <2>1 DEF TypeOK, StateInv, ApprovalInv, BuiltAsApproved,
      NoEffectUndecided, DraftShown
  <2>3. HandlerInv' /\ OneExecutor'
    BY <1>2, <2>1 DEF HandlerInv, OneExecutor, DraftShown, Approving
  <2>4. QED
    BY <2>2, <2>3
<1>4. CASE AwaitsApproval
  <2>1. /\ state.draft \in ReminderDraft /\ state.draft.payload = state.payload
        /\ handler[h].extraction = state.draft
        /\ state.draft # NoDraft
    BY <1>1, <1>4, NoDraftIsNone DEF StateInv, HandlerInv, AwaitsApproval, DraftShown
  <2>2. /\ reminder' = state.draft
        /\ state' = [status |-> "completed", step |-> "completed",
                     payload |-> state.payload, draft |-> state.draft]
        /\ UNCHANGED <<approval, crashed, cancel_told>>
    BY <1>1, <1>4, <2>1 DEF Upserted
  <2>3. TypeOK'
    BY <1>2, <2>1, <2>2 DEF TypeOK, WorkflowState
  <2>4. StateInv' /\ ApprovalInv'
    BY <1>1, <1>4, <2>1, <2>2 DEF StateInv, ApprovalInv, DraftShown, AwaitsApproval
  <2>5. HandlerInv'
    BY <1>2, <1>4, <2>2 DEF HandlerInv, DraftShown, Approving, AwaitsApproval
  <2>6. BuiltAsApproved' /\ NoEffectUndecided'
    BY <1>1, <2>1, <2>2 DEF BuiltAsApproved, NoEffectUndecided
  <2>7. OneExecutor'
    BY <1>2, <2>2 DEF OneExecutor
  <2>8. QED
    BY <2>3, <2>4, <2>5, <2>6, <2>7
<1>5. QED
  BY <1>3, <1>4

\* Looking at an approval in order to cancel it.
LEMMA FindForCancelSafe ==
  ASSUME Inv, NEW h \in Handlers, FindForCancel(h)
  PROVE  Inv'
<1> USE DEF Inv, FindForCancel
<1>1. /\ handler' \in [Handlers -> HandlerState]
      /\ \A g \in Handlers \ {h} : handler'[g] = handler[g]
      /\ handler'[h].pc \in {"idle", "cancel"}
      /\ approval.status # "none"
  <2>1. CASE Reply(h)
    BY <2>1, IdleIsHandler DEF TypeOK, Reply
  <2>2. CASE GoTo(h, "cancel")
    BY <2>2 DEF TypeOK, HandlerState, Pc, GoTo
  <2>3. QED
    BY <2>1, <2>2
<1>2. TypeOK'
  BY <1>1 DEF TypeOK
<1>3. StateInv' /\ ApprovalInv' /\ BuiltAsApproved' /\ NoEffectUndecided'
  BY DEF StateInv, ApprovalInv, BuiltAsApproved, NoEffectUndecided, DraftShown
<1>4. HandlerInv' /\ OneExecutor'
  BY <1>1 DEF TypeOK, HandlerInv, OneExecutor, DraftShown, Approving
<1>5. QED
  BY <1>2, <1>3, <1>4

\* Cancelling leaves the approval decided, whatever it was before.
LEMMA CancelSafe ==
  ASSUME Inv, NEW h \in Handlers, Cancel(h)
  PROVE  Inv'
<1> USE DEF Inv, Cancel, Reply
<1>1. TypeOK'
  BY DEF TypeOK, HandlerState, Pc, PendingApproval, Idle, NoDraft
<1>2. StateInv' /\ ApprovalInv'
  BY DEF StateInv, ApprovalInv, HandlerInv, DraftShown, TypeOK, PendingApproval
<1>3. HandlerInv'
  BY DEF TypeOK, HandlerState, Pc, HandlerInv, DraftShown, Approving, PendingApproval, Idle
<1>4. BuiltAsApproved' /\ NoEffectUndecided'
  BY DEF BuiltAsApproved, NoEffectUndecided, TypeOK, PendingApproval
<1>5. OneExecutor'
  BY DEF TypeOK, HandlerState, Pc, OneExecutor, Idle
<1>6. QED
  BY <1>1, <1>2, <1>3, <1>4, <1>5

\* A request that dies while reading is remembered in crashed.
LEMMA AbortSafe ==
  ASSUME Inv, NEW h \in Handlers, Abort(h)
  PROVE  Inv'
<1> USE DEF Inv, Abort, Reply
<1>1. TypeOK'
  BY DEF TypeOK, HandlerState, Pc, Idle, NoDraft
<1>2. StateInv' /\ ApprovalInv' /\ BuiltAsApproved' /\ NoEffectUndecided'
  BY DEF StateInv, ApprovalInv, BuiltAsApproved, NoEffectUndecided, DraftShown
<1>3. HandlerInv'
  BY DEF TypeOK, HandlerState, Pc, HandlerInv, DraftShown, Approving, Idle
<1>4. OneExecutor'
  BY DEF TypeOK, HandlerState, Pc, OneExecutor, Idle
<1>5. QED
  BY <1>1, <1>2, <1>3, <1>4

-----------------------------------------------------------------------------
(* The theorems.                                                           *)

\* Init establishes the invariant and every step keeps it.
THEOREM WorkflowInvariant == Spec => []Inv
<1>1. Init => Inv
  <2> SUFFICES ASSUME Init
               PROVE  Inv
    OBVIOUS
  <2>1. TypeOK
    BY IdleIsHandler DEF Init, TypeOK, NoState, NoApproval, WorkflowState,
      PendingApproval
  <2>2. StateInv /\ ApprovalInv /\ BuiltAsApproved /\ NoEffectUndecided
    BY DEF Init, StateInv, ApprovalInv, BuiltAsApproved, NoEffectUndecided,
      DraftShown, NoState, NoApproval
  <2>3. HandlerInv /\ OneExecutor
    BY IdleIsHandler DEF Init, HandlerInv, OneExecutor, Approving, NoState
  <2>4. QED
    BY <2>1, <2>2, <2>3 DEF Inv
<1>2. Inv /\ [Next]_vars => Inv'
  <2> SUFFICES ASSUME Inv, [Next]_vars
               PROVE  Inv'
    OBVIOUS
  <2>1. CASE UNCHANGED vars
    BY <2>1 DEF Inv, vars, TypeOK, StateInv, ApprovalInv, HandlerInv,
      BuiltAsApproved, NoEffectUndecided, OneExecutor, DraftShown
  <2>2. ASSUME NEW h \in Handlers, NEW payload \in Payloads, Register(h, payload)
        PROVE  Inv'
    BY <2>2, RegisterSafe
  <2>3. ASSUME NEW h \in Handlers, FindApproval(h) \/ FindForCancel(h) \/ Abort(h)
        PROVE  Inv'
    BY <2>3, FindApprovalSafe, FindForCancelSafe, AbortSafe
  <2>4. ASSUME NEW h \in Handlers, Proceed(h)
        PROVE  Inv'
    BY <2>4, ExtractSafe, AskApprovalSafe, CheckApprovalSafe, RecheckApprovalSafe,
      MarkApprovedSafe, ReadStateSafe, ExecuteSafe, CancelSafe DEF Proceed
  <2>5. QED
    BY <2>1, <2>2, <2>3, <2>4 DEF Next
<1>3. QED
  BY <1>1, <1>2, PTL DEF Spec

\* The tables and the requests' local data keep their types.
THEOREM WorkflowTypeCorrect == Spec => []TypeOK
BY WorkflowInvariant, PTL DEF Inv

\* The reminder is the draft the user approved, and exists exactly when the
\* workflow is completed.
THEOREM ReminderBuiltAsApproved == Spec => []BuiltAsApproved
BY WorkflowInvariant, PTL DEF Inv

\* No effect of a reminder exists before its approval was decided.
THEOREM NothingBeforeDecision == Spec => []NoEffectUndecided
BY WorkflowInvariant, PTL DEF Inv

\* At most one request ever reads a message, and it is missing only if it died.
THEOREM ElectsOneExecutor == Spec => []OneExecutor
BY WorkflowInvariant, PTL DEF Inv

\* Payload, draft and completion of a workflow are never taken back.
THEOREM NothingTakenBack == Spec => NeverTakenBack
<1> DEFINE Kept ==
      /\ state # NoState => state'.payload = state.payload
      /\ state.draft # NoDraft => state'.draft = state.draft
      /\ AwaitsApproval => state'.step \in {"approval_required", "completed"}
      /\ state.status = "completed" => state' = state
<1>1. ASSUME Inv, [Next]_vars
      PROVE  [Kept]_vars
  <2>1. CASE UNCHANGED state
    BY <2>1 DEF AwaitsApproval
  <2>2. ASSUME NEW h \in Handlers, NEW payload \in Payloads, Register(h, payload)
        PROVE  Kept
    BY <2>2 DEF Register, Elected, Asks, Answered, NoState, AwaitsApproval
  <2>3. ASSUME NEW h \in Handlers, Extract(h)
        PROVE  Kept
    <3>1. state.status = "running" /\ state.step = "classify" /\ state.draft = NoDraft
      BY <1>1, <2>3 DEF Extract, Inv, StateInv, HandlerInv, DraftShown
    <3>2. state'.payload = state.payload
      BY <1>1, <2>3 DEF Extract, Inv, TypeOK, WorkflowState
    <3>3. QED
      BY <3>1, <3>2 DEF AwaitsApproval
  <2>4. ASSUME NEW h \in Handlers, Execute(h)
        PROVE  Kept
    <3>1. CASE ~AwaitsApproval
      BY <1>1, <2>4, <3>1 DEF Execute, Inv, HandlerInv, ApprovalInv, Approving,
        DraftShown, NoState
    <3>2. CASE AwaitsApproval
      <4>1. /\ handler[h].payload = state.payload
            /\ handler[h].extraction = state.draft
            /\ state.draft # NoDraft
        BY <1>1, <2>4, <3>2, NoDraftIsNone DEF Execute, Inv, StateInv, HandlerInv,
          ApprovalInv, Approving, AwaitsApproval, DraftShown
      <4>2. state' = [status |-> "completed", step |-> "completed",
                      payload |-> state.payload, draft |-> state.draft]
        BY <2>4, <3>2, <4>1 DEF Execute, Upserted
      <4>3. QED
        BY <3>2, <4>2 DEF AwaitsApproval
    <3>3. QED
      BY <3>1, <3>2
  <2>5. QED
    BY <1>1, <2>1, <2>2, <2>3, <2>4 DEF Next, Proceed, vars, AskApproval, FindApproval,
      CheckApproval, RecheckApproval, MarkApproved, ReadState, FindForCancel, Cancel,
      Abort
<1>2. QED
  BY <1>1, WorkflowInvariant, PTL DEF Spec, NeverTakenBack
=============================================================================
