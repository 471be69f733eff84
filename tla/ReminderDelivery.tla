---------------------------- MODULE ReminderDelivery ----------------------------
(***************************************************************************)
(* One reminder from the chat message to the provider: the requests of     *)
(* ReminderWorkflow and the workers of DispatchDueReminders over the same  *)
(* database.  They meet in one transaction, the workflow's unit of work,   *)
(* which completes the workflow and inserts the outbox row and its         *)
(* scheduler job; from then on neither side reads what the other writes,   *)
(* and nothing but these properties says that they agree.                  *)
(*                                                                         *)
(* The workflow follows one message, whose outbox row is Own; the other    *)
(* rows in the queue come from requests that are not followed.             *)
(***************************************************************************)
EXTENDS Naturals, FiniteSets

CONSTANTS
  Handlers, Payloads, Readings,
  Workers, Messages, Kind, Approvers, MAX_DELIVERY_ATTEMPTS, RETRY_DELAYS,
  RetryAfter, LEASE_SECONDS, RELEASE_DELAY, APPROVAL_TTL, NotifyAt, MaxTime,
  MaxAborts,
  Own,          \* the outbox row of the message that is followed
  Notice,       \* the due time of the reminder each reading describes
  MaxCrashes    \* bound on the points where a request is cut short

DeliveryAssumption ==
  /\ Own \in Messages /\ Kind[Own] = "ok"
  /\ Notice \in [Readings -> NotifyAt]
  /\ MaxCrashes \in Nat

VARIABLES
  state, approval, reminder, handler, crashed, cancel_told,
  clock, outbox, reminders, worker, aborts, called, accepted, reopened, attested

Workflow == INSTANCE ReminderWorkflow
Dispatch == INSTANCE DispatchDueReminders

PartsAssumption == /\ Workflow!WorkflowAssumption
                   /\ Dispatch!TimeAssumption /\ Dispatch!DispatchAssumption

requests == <<state, approval, reminder, handler, crashed, cancel_told>>
delivery == <<clock, outbox, reminders, worker, aborts, called, accepted,
              reopened, attested>>
vars == <<requests, delivery>>

Init == Workflow!Init /\ Dispatch!Init

-----------------------------------------------------------------------------
(* The transaction that both sides share.                                  *)

\* Mutant of Requested: next_attempt_at is left to its default, created_at.
RequestedNow(draft) ==
  /\ outbox[Own].dispatch_status = "absent"
  /\ outbox' = [outbox EXCEPT ![Own] = Dispatch!add(clock)]
  /\ reminders' = [reminders EXCEPT ![Own] = Dispatch!scheduled]
  /\ UNCHANGED <<clock, worker, aborts, called, accepted, reopened, attested>>

\* schedule_before_event and outbox.add: the job and the row become due at the
\* time the draft names (_notice_minutes_before).
Requested(draft) ==
  /\ Dispatch!Enqueue(Own)
  /\ outbox'[Own].next_attempt_at = Notice[draft.reading]

\* Mutant of Commits: the workflow is completed, and the message is left to a
\* second transaction that never comes.
CommitsWorkflowOnly(h) == Workflow!Execute(h) /\ UNCHANGED delivery

\* What the unit of work commits: the workflow's rows, and the outbox row with
\* its job when this execution created the reminder.
Commits(h) ==
  /\ Workflow!Execute(h)
  /\ \/ reminder' = reminder /\ UNCHANGED delivery
     \/ reminder' # reminder /\ Requested(reminder')

-----------------------------------------------------------------------------
\* The steps of a request that touch nothing the workers read.
Proceed(h) ==
  \/ Commits(h)
  \/ /\ \/ Workflow!Extract(h) \/ Workflow!AskApproval(h)
        \/ Workflow!CheckApproval(h) \/ Workflow!RecheckApproval(h)
        \/ Workflow!MarkApproved(h) \/ Workflow!ReadState(h)
        \/ Workflow!Cancel(h)
     /\ UNCHANGED delivery

\* A message, an approval or a cancellation arrives, or a request dies.
Arrives(h) ==
  /\ \/ \E payload \in Payloads : Workflow!Register(h, payload)
     \/ Workflow!FindApproval(h)
     \/ Workflow!FindForCancel(h)
     \/ Workflow!Abort(h) /\ Cardinality(crashed') <= MaxCrashes
  /\ UNCHANGED delivery

\* The workers, the clock, the rest of the queue and the operator.
Works(w) == Dispatch!WorkerStep(w) /\ UNCHANGED requests

TimePasses == Dispatch!Tick /\ UNCHANGED requests

Others ==
  /\ \/ \E m \in Messages \ {Own} : Dispatch!Enqueue(m)
     \/ \E m \in Messages : Dispatch!ResolveDelivered(m) \/ Dispatch!ResolveRetry(m)
     \/ \E w \in Workers : Dispatch!Abort(w)
  /\ UNCHANGED requests

Next ==
  \/ \E h \in Handlers : Proceed(h) \/ Arrives(h)
  \/ \E w \in Workers : Works(w)
  \/ TimePasses
  \/ Others

Spec == Init /\ [][Next]_vars

\* The fairness of the two parts: a request that has started goes on, time
\* passes and the worker loops run; nobody has to approve or to resolve.
Fairness ==
  /\ \A h \in Handlers : WF_vars(Proceed(h))
  /\ \A w \in Workers : WF_vars(Works(w))
  /\ WF_vars(TimePasses)

FairSpec == Spec /\ Fairness

-----------------------------------------------------------------------------
(* Properties.                                                             *)

\* What reaches the user is the reminder that was approved, and not before its
\* time: the queue holds the message exactly when the workflow is completed,
\* which takes a decision on the approval, and no worker calls the provider
\* before the time named by the draft that the user was shown.
DeliveredAsApproved ==
  /\ outbox[Own].dispatch_status # "absent" <=> state.status = "completed"
  /\ outbox[Own].dispatch_status # "absent" =>
       approval.status \in {"approved", "cancelled"}
  /\ called[Own] # {} => /\ state.draft # Workflow!NoDraft
                         /\ clock >= Notice[state.draft.reading]

\* The approval of request h has its grant, and what is to come of it.
Granted(h) == handler[h].pc = "read"

Settled == outbox[Own].dispatch_status \in {"published", "failed", "uncertain"}

CutShort == crashed \cap {"read", "execute"} # {}

\* An approval that got its grant ends in a delivery that is published, failed
\* or shown to the operator, whatever is queued before it, unless the request
\* itself died: approving leads all the way to the provider.
ApprovedIsSettled == \A h \in Handlers : Granted(h) ~> Settled \/ CutShort
=============================================================================
