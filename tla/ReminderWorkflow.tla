---------------------------- MODULE ReminderWorkflow ----------------------------
(***************************************************************************)
(* From a chat message to a stored reminder: ReminderWorkflow.run, the     *)
(* commands and routes that call it (create, approve, cancel) and the two  *)
(* tables they share, assistant_workflow_states and assistant_approvals.   *)
(*                                                                         *)
(* Everything is keyed by the idempotency identity of the message (tenant, *)
(* channel, principal, conversation, source event), and identities share   *)
(* no rows, so the module follows one of them.  The same message may be    *)
(* delivered again, with the same or with an edited payload, at any time.  *)
(*                                                                         *)
(* A request is served by a thread as a sequence of transactions; each is  *)
(* one action, and handler[h] is what the thread carries between two.      *)
(* Abort is a crash, a rolled-back or ambiguous commit, or an exception.   *)
(***************************************************************************)
CONSTANTS
  Handlers,   \* request threads, of any API process
  Payloads,   \* text, recipient and timezone sent under the identity
  Readings    \* what the parser or the LLM may make of one payload

NoPayload == "none"
NoReading == "none"

ASSUME WorkflowAssumption ==
  NoPayload \notin Payloads /\ NoReading \notin Readings

VARIABLES
  state,      \* the row of assistant_workflow_states
  approval,   \* the row of assistant_approvals
  reminder,   \* the calendar event, the scheduled reminder, the
              \* reminder.created event and the outbox message, which one
              \* transaction inserts: the draft they were made from
  handler,    \* what each request thread holds between two transactions
  crashed,    \* history: the points where a request was cut short
  cancel_told \* history: a user was told that the approval is cancelled

vars == <<state, approval, reminder, handler, crashed, cancel_told>>

-----------------------------------------------------------------------------
ReminderDraft == [payload : Payloads, reading : Readings]

NoDraft == [payload |-> NoPayload, reading |-> NoReading]

\* _resolve_extraction: a reading of this payload, or none.
Extractions(payload) ==
  [payload : {payload}, reading : Readings] \cup {NoDraft}

WorkflowState ==
  [status  : {"none", "running", "waiting_approval", "completed"},
   step    : {"none", "classify", "approval_required", "needs_clarification",
              "completed"},
   payload : Payloads \cup {NoPayload},      \* payload_fingerprint
   draft   : ReminderDraft \cup {NoDraft}]

NoState ==
  [status |-> "none", step |-> "none", payload |-> NoPayload, draft |-> NoDraft]

PendingApproval ==
  [status  : {"none", "pending", "approved", "cancelled"},
   payload : Payloads \cup {NoPayload}]

NoApproval == [status |-> "none", payload |-> NoPayload]

Pc == {"idle", "extract", "ask", "approve", "mark", "write", "read", "execute",
       "cancel"}

HandlerState ==
  [pc         : Pc,
   payload    : Payloads \cup {NoPayload},
   extraction : ReminderDraft \cup {NoDraft}]

Idle == [pc |-> "idle", payload |-> NoPayload, extraction |-> NoDraft]

TypeOK ==
  /\ state \in WorkflowState
  /\ approval \in PendingApproval
  /\ reminder \in ReminderDraft \cup {NoDraft}
  /\ handler \in [Handlers -> HandlerState]
  /\ crashed \in SUBSET Pc
  /\ cancel_told \in BOOLEAN

Init ==
  /\ state = NoState
  /\ approval = NoApproval
  /\ reminder = NoDraft
  /\ handler = [h \in Handlers |-> Idle]
  /\ crashed = {}
  /\ cancel_told = FALSE

-----------------------------------------------------------------------------
(* The workflow state store.                                               *)

initial_state(payload) ==
  [status |-> "running", step |-> "classify", payload |-> payload,
   draft |-> NoDraft]

\* register_or_replay has three outcomes: the identity is known with another
\* payload (ReminderIdempotencyConflict), it is known and replayed, or this
\* caller is elected to execute it.
Conflicts(payload) == state # NoState /\ state.payload # payload

AwaitsApproval == state.status = "waiting_approval" /\ state.step = "approval_required"

\* Terminal states are immutable: upsert raises.
Mutable == state.status # "completed"

GoTo(h, pc) == handler' = [handler EXCEPT ![h].pc = pc]

Reply(h) == handler' = [handler EXCEPT ![h] = Idle]

-----------------------------------------------------------------------------
(* Creating: _create_reminder and POST /v1/runtime/reminders.              *)

\* The caller is elected, answers with the approval, or just answers.
Elected(h, payload) ==
  /\ state' = initial_state(payload)
  /\ handler' = [handler EXCEPT ![h].pc = "extract", ![h].payload = payload]

Asks(h, payload) ==
  /\ handler' = [handler EXCEPT ![h].pc = "ask", ![h].payload = payload]
  /\ UNCHANGED state

Answered(h) == UNCHANGED <<state, handler>>

\* Mutant of Register: a request whose executor may have died is run again.
RegisterRetriesRunning(h, payload) ==
  /\ handler[h].pc = "idle"
  /\ \/ /\ state = NoState \/ (state.status = "running" /\ ~Conflicts(payload))
        /\ Elected(h, payload)
     \/ AwaitsApproval /\ ~Conflicts(payload) /\ Asks(h, payload)
     \/ state # NoState /\ (Conflicts(payload) \/ ~AwaitsApproval) /\ Answered(h)
  /\ UNCHANGED <<approval, reminder, crashed, cancel_told>>

\* Mutant of Register: any unfinished replay is answered with an approval.
RegisterAsksTooEarly(h, payload) ==
  /\ handler[h].pc = "idle"
  /\ \/ state = NoState /\ Elected(h, payload)
     \/ state # NoState /\ Mutable /\ ~Conflicts(payload) /\ Asks(h, payload)
     \/ state # NoState /\ (Conflicts(payload) \/ ~Mutable) /\ Answered(h)
  /\ UNCHANGED <<approval, reminder, crashed, cancel_told>>

\* run without an approval registers the message.  A conflict, and a replay of
\* anything that does not await approval, is answered and changes nothing.
Register(h, payload) ==
  /\ handler[h].pc = "idle"
  /\ \/ state = NoState /\ Elected(h, payload)
     \/ AwaitsApproval /\ ~Conflicts(payload) /\ Asks(h, payload)
     \/ state # NoState /\ (Conflicts(payload) \/ ~AwaitsApproval) /\ Answered(h)
  /\ UNCHANGED <<approval, reminder, crashed, cancel_told>>

\* Mutant of Extract: a message nobody could read is dropped.
ExtractGivesUp(h) ==
  /\ handler[h].pc = "extract"
  /\ Mutable
  /\ \E extraction \in Extractions(handler[h].payload) :
       \/ /\ extraction = NoDraft
          /\ UNCHANGED state
          /\ Reply(h)
       \/ /\ extraction # NoDraft
          /\ state' = [state EXCEPT !.status = "waiting_approval",
                                    !.step   = "approval_required",
                                    !.draft  = extraction]
          /\ GoTo(h, "ask")
  /\ UNCHANGED <<approval, reminder, crashed, cancel_told>>

\* The elected request reads the message and stores what it waits for.
Extract(h) ==
  /\ handler[h].pc = "extract"
  /\ Mutable
  /\ \E extraction \in Extractions(handler[h].payload) :
       \/ /\ extraction = NoDraft
          /\ state' = [state EXCEPT !.status = "waiting_approval",
                                    !.step   = "needs_clarification"]
          /\ Reply(h)
       \/ /\ extraction # NoDraft
          /\ state' = [state EXCEPT !.status = "waiting_approval",
                                    !.step   = "approval_required",
                                    !.draft  = extraction]
          /\ GoTo(h, "ask")
  /\ UNCHANGED <<approval, reminder, crashed, cancel_told>>

\* approvals.create: insert, or read the one already there.
AskApproval(h) ==
  /\ handler[h].pc = "ask"
  /\ approval' = IF approval = NoApproval
                 THEN [status |-> "pending", payload |-> handler[h].payload]
                 ELSE approval
  /\ Reply(h)
  /\ UNCHANGED <<state, reminder, crashed, cancel_told>>

-----------------------------------------------------------------------------
(* Approving: _approve and POST /v1/runtime/approvals/{id}/approve.        *)

\* approvals.get: the request is rebuilt from the stored approval.
FindApproval(h) ==
  /\ handler[h].pc = "idle"
  /\ approval # NoApproval
  /\ handler' = [handler EXCEPT ![h].pc = "approve", ![h].payload = approval.payload]
  /\ UNCHANGED <<state, approval, reminder, crashed, cancel_told>>

\* approve: a cancelled approval is denied, one approved before grants again.
CheckApproval(h) ==
  /\ handler[h].pc = "approve"
  /\ \/ approval.status = "cancelled" /\ Reply(h)
     \/ approval.status = "pending"   /\ GoTo(h, "mark")
     \/ approval.status = "approved"  /\ GoTo(h, "read")
  /\ UNCHANGED <<state, approval, reminder, crashed, cancel_told>>

\* mark_approved reads the approval again and returns one that is no longer
\* pending as it is; approve then issues the grant, cancelled or not.
RecheckApproval(h) ==
  /\ handler[h].pc = "mark"
  /\ GoTo(h, IF approval.status = "pending" THEN "write" ELSE "read")
  /\ UNCHANGED <<state, approval, reminder, crashed, cancel_told>>

\* _update_status overwrites whatever status the row has by now.
MarkApproved(h) ==
  /\ handler[h].pc = "write"
  /\ approval' = [approval EXCEPT !.status = "approved"]
  /\ GoTo(h, "read")
  /\ UNCHANGED <<state, reminder, crashed, cancel_told>>

\* Mutant of ReadState: the message is read afresh instead of the draft.
ReadStateExtractsAgain(h) ==
  /\ handler[h].pc = "read"
  /\ ~Conflicts(handler[h].payload)
  /\ \E extraction \in Extractions(handler[h].payload) \ {NoDraft} :
       handler' = [handler EXCEPT ![h].pc = "execute", ![h].extraction = extraction]
  /\ UNCHANGED <<state, approval, reminder, crashed, cancel_told>>

\* run with a grant looks at the state before the transaction: the draft that
\* awaits approval, a new reading if the message is unknown, else nothing.
ReadState(h) ==
  /\ handler[h].pc = "read"
  /\ ~Conflicts(handler[h].payload)
  /\ \E extraction \in IF AwaitsApproval THEN {state.draft}
                        ELSE IF state = NoState THEN Extractions(handler[h].payload)
                        ELSE {NoDraft} :
       handler' = [handler EXCEPT ![h].pc = "execute", ![h].extraction = extraction]
  /\ UNCHANGED <<state, approval, reminder, crashed, cancel_told>>

\* calendar.create_event, schedule_before_event, event_store.append and
\* outbox.add insert a row, or find the one an equal request inserted; a row of
\* another request is a conflict that rolls the transaction back.
Insertable(draft) == reminder \in {NoDraft, draft}

\* Mutant of Execute: the approval does not resume the waiting step.
ExecuteReplays(h) ==
  /\ handler[h].pc = "execute"
  /\ Reply(h)
  /\ UNCHANGED <<state, approval, reminder, crashed, cancel_told>>

\* The row of the transaction's last upsert: completed, or a question for the
\* user when there was nothing to create.
Upserted(payload, extraction) ==
  [status  |-> IF extraction = NoDraft THEN "waiting_approval" ELSE "completed",
   step    |-> IF extraction = NoDraft THEN "needs_clarification" ELSE "completed",
   payload |-> payload,
   draft   |-> state.draft]

\* The unit of work: the first approval of a waiting draft resumes it, any
\* other is a replay.  Effects and completed state commit together.
Execute(h) ==
  LET extraction == handler[h].extraction
  IN  /\ handler[h].pc = "execute"
      /\ \/ /\ state # NoState /\ ~AwaitsApproval
            /\ UNCHANGED <<state, reminder>>
         \/ /\ state = NoState \/ AwaitsApproval
            /\ Insertable(extraction)
            /\ reminder' = extraction
            /\ state' = Upserted(handler[h].payload, extraction)
      /\ Reply(h)
      /\ UNCHANGED <<approval, crashed, cancel_told>>

-----------------------------------------------------------------------------
(* Cancelling: _cancel and POST /v1/runtime/approvals/{id}/reject.         *)

\* cancel: an approved request is a conflict, a cancelled one stays so.
FindForCancel(h) ==
  /\ handler[h].pc = "idle"
  /\ \/ approval.status = "pending" /\ GoTo(h, "cancel") /\ UNCHANGED cancel_told
     \/ approval.status = "cancelled" /\ cancel_told' = TRUE /\ Reply(h)
  /\ UNCHANGED <<state, approval, reminder, crashed>>

\* _update_status again, and the reply.
Cancel(h) ==
  /\ handler[h].pc = "cancel"
  /\ approval' = [approval EXCEPT !.status = "cancelled"]
  /\ cancel_told' = TRUE
  /\ Reply(h)
  /\ UNCHANGED <<state, reminder, crashed>>

-----------------------------------------------------------------------------
\* A crash or an exception between two transactions loses the request.
Abort(h) ==
  /\ handler[h].pc # "idle"
  /\ crashed' = crashed \cup {handler[h].pc}
  /\ Reply(h)
  /\ UNCHANGED <<state, approval, reminder, cancel_told>>

\* The steps of a request that has started.
Proceed(h) ==
  \/ Extract(h) \/ AskApproval(h)
  \/ CheckApproval(h) \/ RecheckApproval(h) \/ MarkApproved(h)
  \/ ReadState(h) \/ Execute(h)
  \/ Cancel(h)

Next ==
  \E h \in Handlers :
    \/ \E payload \in Payloads : Register(h, payload)
    \/ FindApproval(h) \/ FindForCancel(h)
    \/ Proceed(h)
    \/ Abort(h)

Spec == Init /\ [][Next]_vars

\* A request thread that has started runs until it answers or dies; nobody has
\* to send, approve or cancel anything.
Fairness == \A h \in Handlers : WF_vars(Proceed(h))

FairSpec == Spec /\ Fairness

-----------------------------------------------------------------------------
(* Properties.                                                             *)

\* The reminder that exists is the draft the user was shown and approved, made
\* from the payload that was first registered, and it exists exactly when the
\* workflow says completed: no redelivery, edited message, second reading by
\* the LLM, concurrent approval or crash changes, doubles or half-creates it.
BuiltAsApproved ==
  /\ reminder # NoDraft <=> state.status = "completed"
  /\ reminder # NoDraft =>
       /\ reminder = state.draft
       /\ reminder.payload = state.payload
       /\ approval.payload = state.payload

\* Nothing is created while the approval is undecided (or not even asked for).
NoEffectUndecided ==
  reminder # NoDraft => approval.status \in {"approved", "cancelled"}

\* register_or_replay elects at most one request to read a message, and only a
\* request that died while reading leaves a workflow running with nobody on it.
OneExecutor ==
  /\ \A g, h \in Handlers :
       handler[g].pc = "extract" /\ handler[h].pc = "extract" => g = h
  /\ state.status = "running" =>
       "extract" \in crashed \/ \E h \in Handlers : handler[h].pc = "extract"

\* What is stored about a message is never taken back: its payload stays, its
\* draft stays, a draft that awaits approval is never turned into a request
\* for clarification, and a completed workflow is immutable.
NeverTakenBack ==
  [][/\ state # NoState => state'.payload = state.payload
     /\ state.draft # NoDraft => state'.draft = state.draft
     /\ AwaitsApproval => state'.step \in {"approval_required", "completed"}
     /\ state.status = "completed" => state' = state]_vars

\* A request that reads a message leaves something a user can act on.
RegistrationAnswered ==
  state.status = "running" ~> state.status # "running" \/ "extract" \in crashed

\* A request that got its grant comes to an end, and unless it is cut short the
\* reminder exists then, also when requests before it were cut short: approving
\* again after a crash works.
GrantHonoured ==
  /\ \A h \in Handlers : handler[h].pc = "read" ~> handler[h].pc = "idle"
  /\ [][\A h \in Handlers : Execute(h) => reminder' # NoDraft]_vars

\* "test_cancel_pending_approval_blocks_later_approval": after a cancellation
\* was reported, nothing is created.
CancelIsFinal == cancel_told => reminder = NoDraft
=============================================================================
