----------------------------- MODULE DeliveryProofs -----------------------------
(***************************************************************************)
(* Proofs about the whole way of a reminder (ReminderDelivery) and about   *)
(* the workers' health (WorkerHealth).                                     *)
(*                                                                         *)
(* ReminderDelivery runs the workflow and the workers over one database.   *)
(* Its behaviours, seen from one part, are behaviours of that part: so     *)
(* everything WorkflowProofs and DispatchProofs prove holds in the whole,  *)
(* and only what crosses the border is proved here.                        *)
(***************************************************************************)
EXTENDS DeliveryService, WorkerHealth, TLAPS

\* The proofs of the parts, about the same variables.
WP == INSTANCE WorkflowProofs
DP == INSTANCE DispatchProofs

\* What is assumed of the constants.
Assumed == DeliveryAssumption /\ PartsAssumption

-----------------------------------------------------------------------------
(* The whole is a workflow, and it is a dispatcher.                        *)

LEMMA StepsOfParts ==
  ASSUME Assumed, [Next]_vars
  PROVE  [Workflow!Next]_(Workflow!vars) /\ [Dispatch!Next]_(Dispatch!vars)
<1> USE DEF requests, delivery, Workflow!vars, Dispatch!vars, Dispatch!history
<1>1. ASSUME NEW h \in Handlers, Commits(h)
      PROVE  Workflow!Next /\ [Dispatch!Next]_(Dispatch!vars)
  <2>1. Workflow!Next
    BY <1>1 DEF Commits, Workflow!Next, Workflow!Proceed
  <2>2. Dispatch!Enqueue(Own) \/ UNCHANGED Dispatch!vars
    BY <1>1 DEF Commits, Requested
  <2> QED
    BY <2>1, <2>2 DEF Assumed, DeliveryAssumption, Dispatch!Next
<1>2. ASSUME NEW h \in Handlers, Proceed(h), ~Commits(h)
      PROVE  Workflow!Next /\ UNCHANGED Dispatch!vars
  BY <1>2 DEF Proceed, Workflow!Next, Workflow!Proceed
<1>3. ASSUME NEW h \in Handlers, Arrives(h)
      PROVE  Workflow!Next /\ UNCHANGED Dispatch!vars
  BY <1>3 DEF Arrives, Workflow!Next
<1>4. ASSUME NEW w \in Workers, Works(w)
      PROVE  Dispatch!Next /\ UNCHANGED Workflow!vars
  BY <1>4 DEF Works, Dispatch!Next
<1>5. ASSUME TimePasses PROVE Dispatch!Next /\ UNCHANGED Workflow!vars
  BY <1>5 DEF TimePasses, Dispatch!Next
<1>6. ASSUME Others PROVE Dispatch!Next /\ UNCHANGED Workflow!vars
  BY <1>6 DEF Others, Dispatch!Next
<1>7. CASE UNCHANGED vars
  BY <1>7 DEF vars
<1> QED
  BY <1>1, <1>2, <1>3, <1>4, <1>5, <1>6, <1>7 DEF Next

\* The requests' side of ReminderDelivery is ReminderWorkflow: sharing the unit of
\* work with the workers gives _create_reminder, _approve and _cancel no new
\* behaviour.
THEOREM RequestsAreWorkflow ==
  ASSUME Assumed
  PROVE  Spec => Workflow!Spec
<1>1. Init => Workflow!Init
  BY DEF Init
<1> QED
  BY <1>1, StepsOfParts, PTL DEF Spec, Workflow!Spec

\* The workers' side is DispatchDueReminders: the rows that the workflow's
\* transaction adds are rows that dispatch expects.
THEOREM DeliveryIsDispatch ==
  ASSUME Assumed
  PROVE  Spec => Dispatch!Spec
<1>1. Init => Dispatch!Init
  BY DEF Init
<1> QED
  BY <1>1, StepsOfParts, PTL DEF Spec, Dispatch!Spec

-----------------------------------------------------------------------------
(* What is proved of the parts holds here; the modules of the proofs have  *)
(* names of their own for the same specifications.                         *)

LEMMA SameInit == /\ Workflow!Init => WP!Init
                  /\ Dispatch!Init => DP!Init
<1>1. Workflow!Init => WP!Init
  BY DEF Workflow!Init, Workflow!NoState, Workflow!NoApproval, Workflow!NoDraft,
         Workflow!NoPayload, Workflow!NoReading, Workflow!Idle, WP!Init, WP!NoState,
         WP!NoApproval, WP!NoDraft, WP!NoPayload, WP!NoReading, WP!Idle
<1>2. Dispatch!Init => DP!Init
  BY DEF Dispatch!Init, Dispatch!NoRow, Dispatch!NoReminder, Dispatch!NoToken,
         Dispatch!Idle, DP!Init, DP!NoRow, DP!NoReminder, DP!NoToken, DP!Idle
<1> QED
  BY <1>1, <1>2

LEMMA SameWorkflow == Workflow!Next => WP!Next
  BY DEF Workflow!NoPayload, Workflow!NoReading, Workflow!NoDraft, Workflow!NoState,
         Workflow!NoApproval, Workflow!Idle, Workflow!GoTo, Workflow!Reply,
         Workflow!ReminderDraft, Workflow!Extractions, Workflow!Conflicts,
         Workflow!AwaitsApproval, Workflow!Mutable, Workflow!initial_state,
         Workflow!Elected, Workflow!Asks, Workflow!Answered, Workflow!Insertable,
         Workflow!Upserted, Workflow!Register, Workflow!Extract, Workflow!AskApproval,
         Workflow!FindApproval, Workflow!CheckApproval, Workflow!RecheckApproval,
         Workflow!MarkApproved, Workflow!ReadState, Workflow!Execute,
         Workflow!FindForCancel, Workflow!Cancel, Workflow!Abort, Workflow!Proceed,
         Workflow!Next, WP!NoPayload, WP!NoReading, WP!NoDraft, WP!NoState, WP!NoApproval,
         WP!Idle, WP!GoTo, WP!Reply, WP!ReminderDraft, WP!Extractions, WP!Conflicts,
         WP!AwaitsApproval, WP!Mutable, WP!initial_state, WP!Elected, WP!Asks,
         WP!Answered, WP!Insertable, WP!Upserted, WP!Register, WP!Extract, WP!AskApproval,
         WP!FindApproval, WP!CheckApproval, WP!RecheckApproval, WP!MarkApproved,
         WP!ReadState, WP!Execute, WP!FindForCancel, WP!Cancel, WP!Abort, WP!Proceed,
         WP!Next

LEMMA SameDispatch == Dispatch!Next => DP!Next
<1> USE DEF Dispatch!history, Dispatch!NoToken, Dispatch!EndTick, Dispatch!Idle,
            Dispatch!Store, Dispatch!HasReminder, Dispatch!mirror_delivery,
            Dispatch!Unclaimed, Dispatch!Later, Dispatch!Holds, Dispatch!Guarded,
            Dispatch!Expected, Dispatch!InTransaction, Dispatch!GoTo, Dispatch!Contended,
            Dispatch!Oldest, Dispatch!ApprovalValid, DP!history, DP!NoToken, DP!EndTick,
            DP!Idle, DP!Store, DP!HasReminder, DP!mirror_delivery, DP!Unclaimed, DP!Later,
            DP!Holds, DP!Guarded, DP!Expected, DP!InTransaction, DP!GoTo, DP!Contended,
            DP!Oldest, DP!ApprovalValid
<1>1. ASSUME Dispatch!Tick PROVE DP!Tick
  BY <1>1 DEF Dispatch!Tick, DP!Tick
<1>2. ASSUME NEW m \in Messages, Dispatch!Enqueue(m) PROVE DP!Enqueue(m)
  BY <1>2 DEF Dispatch!Enqueue, Dispatch!add, Dispatch!NoRow, Dispatch!scheduled,
       Dispatch!NoReminder, DP!Enqueue, DP!add, DP!NoRow, DP!scheduled, DP!NoReminder
<1>3. ASSUME NEW m \in Messages, Dispatch!ResolveDelivered(m) PROVE DP!ResolveDelivered(m)
  BY <1>3 DEF Dispatch!ResolveDelivered, Dispatch!resolve_uncertain_delivered,
       DP!ResolveDelivered, DP!resolve_uncertain_delivered
<1>4. ASSUME NEW m \in Messages, Dispatch!ResolveRetry(m) PROVE DP!ResolveRetry(m)
  BY <1>4 DEF Dispatch!ResolveRetry, Dispatch!resolve_uncertain_retry, DP!ResolveRetry,
       DP!resolve_uncertain_retry
<1>5. ASSUME NEW w \in Workers, Dispatch!StartTick(w) PROVE DP!StartTick(w)
  BY <1>5 DEF Dispatch!StartTick, DP!StartTick
<1>6. ASSUME NEW w \in Workers, Dispatch!SweepExpiredSending(w) PROVE DP!SweepExpiredSending(w)
  BY <1>6 DEF Dispatch!SweepExpiredSending, Dispatch!is_expired_sending,
       Dispatch!mark_uncertain, DP!SweepExpiredSending, DP!is_expired_sending,
       DP!mark_uncertain
<1>7. ASSUME NEW w \in Workers, Dispatch!Claim(w) PROVE DP!Claim(w)
  BY <1>7 DEF Dispatch!Claim, Dispatch!is_due, Dispatch!claim, Dispatch!FreshTokens,
       Dispatch!Tokens, Dispatch!Cardinality, Dispatch!IsFiniteSet,
       Dispatch!mark_claim_failed, DP!Claim, DP!is_due, DP!claim, DP!FreshTokens,
       DP!Tokens, DP!Cardinality, DP!IsFiniteSet, DP!mark_claim_failed
<1>8. ASSUME NEW w \in Workers, Dispatch!Authorize(w) PROVE DP!Authorize(w)
  BY <1>8 DEF Dispatch!Authorize, DP!Authorize
<1>9. ASSUME NEW w \in Workers, Dispatch!ReleaseBeforeIO(w) PROVE DP!ReleaseBeforeIO(w)
  BY <1>9 DEF Dispatch!ReleaseBeforeIO, Dispatch!release, DP!ReleaseBeforeIO, DP!release
<1>10. ASSUME NEW w \in Workers, Dispatch!RecordMalformed(w) PROVE DP!RecordMalformed(w)
  BY <1>10 DEF Dispatch!RecordMalformed, Dispatch!mark_claim_failed, DP!RecordMalformed,
       DP!mark_claim_failed
<1>11. ASSUME NEW w \in Workers, Dispatch!ConfirmSending(w) PROVE DP!ConfirmSending(w)
  BY <1>11 DEF Dispatch!ConfirmSending, Dispatch!mark_sending, DP!ConfirmSending,
       DP!mark_sending
<1>12. ASSUME NEW w \in Workers, Dispatch!Send(w) PROVE DP!Send(w)
  BY <1>12 DEF Dispatch!Send, Dispatch!Outcome, Dispatch!ProviderAnswer, DP!Send,
       DP!Outcome, DP!ProviderAnswer
<1>13. ASSUME NEW w \in Workers, Dispatch!RecordResult(w) PROVE DP!RecordResult(w)
  BY <1>13 DEF Dispatch!RecordResult, Dispatch!Settled, Dispatch!mark_published,
       Dispatch!mark_failed, Dispatch!mark_uncertain, Dispatch!reschedule,
       Dispatch!RetryAt, DP!RecordResult, DP!Settled, DP!mark_published, DP!mark_failed,
       DP!mark_uncertain, DP!reschedule, DP!RetryAt
<1>14. ASSUME NEW w \in Workers, Dispatch!Fenced(w) PROVE DP!Fenced(w)
  BY <1>14 DEF Dispatch!Fenced, DP!Fenced
<1>15. ASSUME NEW w \in Workers, Dispatch!Abort(w) PROVE DP!Abort(w)
  BY <1>15 DEF Dispatch!Abort, DP!Abort
<1> QED
  BY <1>1, <1>2, <1>3, <1>4, <1>5, <1>6, <1>7, <1>8, <1>9, <1>10, <1>11, <1>12, <1>13,
     <1>14, <1>15 DEF Dispatch!Next, Dispatch!WorkerStep, DP!Next, DP!WorkerStep

LEMMA PartsAssumed ==
  ASSUME Assumed
  PROVE  WP!WorkflowAssumption /\ DP!TimeAssumption /\ DP!DispatchAssumption
  BY DEF Assumed, PartsAssumption, Workflow!NoPayload, WP!NoPayload, Workflow!NoReading, WP!NoReading,
      Dispatch!Time, DP!Time, Dispatch!Kinds, DP!Kinds

\* From the workflow: the reminder is the approved draft.  From the dispatcher:
\* the types of rows and workers.
Parts == WP!Inv /\ DP!TypeOK

LEMMA PartsHold ==
  ASSUME Assumed
  PROVE  Spec => []Parts
<1>1. Spec => WP!Spec
  <2>1. [Workflow!Next]_(Workflow!vars) => [WP!Next]_(WP!vars)
    BY SameWorkflow DEF Workflow!vars, WP!vars
  <2> QED
    BY <2>1, RequestsAreWorkflow, SameInit, PTL DEF Workflow!Spec, WP!Spec
<1>2. Spec => DP!Spec
  <2>1. [Dispatch!Next]_(Dispatch!vars) => [DP!Next]_(DP!vars)
    BY SameDispatch DEF Dispatch!vars, Dispatch!history, DP!vars, DP!history
  <2> QED
    BY <2>1, DeliveryIsDispatch, SameInit, PTL DEF Dispatch!Spec, DP!Spec
<1>3. WP!Spec => []WP!Inv
  BY PartsAssumed, WP!WorkflowInvariant
<1>4. DP!Spec => []DP!TypeOK
  BY PartsAssumed, DP!TypeCorrect
<1> QED
  BY <1>1, <1>2, <1>3, <1>4, PTL DEF Parts

-----------------------------------------------------------------------------
(* The border.                                                             *)
(*                                                                         *)
(* Until the notice of the approved draft is due the row is as the unit of *)
(* work added it, and no worker has it; from then on nothing has to be     *)
(* said about the row, since time does not go back and the reminder that   *)
(* exists does not change.                                                 *)

Types ==
  /\ Assumed
  /\ Dispatch!TypeOK
  /\ reminder \in Workflow!ReminderDraft \cup {Workflow!NoDraft}

DueTime == Notice[reminder.reading]

Ripe == reminder # Workflow!NoDraft /\ clock >= DueTime

Untouched ==
  /\ reminder # Workflow!NoDraft => outbox[Own] = Dispatch!add(DueTime)
  /\ called[Own] = {}
  /\ \A w \in Workers : worker[w].message # Own

Border ==
  /\ outbox[Own].dispatch_status = "absent" <=> reminder = Workflow!NoDraft
  /\ \A w \in Workers : worker[w].ran_at <= clock
  /\ Untouched \/ Ripe

LEMMA PartsTyped == Assumed /\ Parts => Types
<1>1. DP!TypeOK => Dispatch!TypeOK
  BY DEF DP!TypeOK, DP!Time, DP!OutboxMessage, DP!ScheduledReminder, DP!WorkerState,
         DP!DeliveryStatus, DP!LastError, DP!Pc, DP!Outcome,
         Dispatch!TypeOK, Dispatch!Time, Dispatch!OutboxMessage,
         Dispatch!ScheduledReminder, Dispatch!WorkerState, Dispatch!DeliveryStatus,
         Dispatch!LastError, Dispatch!Pc, Dispatch!Outcome
<1>2. WP!TypeOK => reminder \in Workflow!ReminderDraft \cup {Workflow!NoDraft}
  BY DEF WP!TypeOK, WP!ReminderDraft, WP!NoDraft, WP!NoPayload, WP!NoReading,
         Workflow!ReminderDraft, Workflow!NoDraft, Workflow!NoPayload, Workflow!NoReading
<1> QED
  BY <1>1, <1>2 DEF Parts, Types, WP!Inv

\* Numbers: clocks, due times and the start of a tick are instants.
LEMMA Instants ==
  ASSUME Types
  PROVE  /\ clock \in Nat
         /\ reminder # Workflow!NoDraft => DueTime \in Nat
         /\ \A w \in Workers : worker[w].ran_at \in Nat
         /\ Own \in Messages /\ Own # 0
<1>1. clock \in Nat /\ \A w \in Workers : worker[w].ran_at \in Nat
  BY DEF Assumed, PartsAssumption, Types, Dispatch!TypeOK, Dispatch!WorkerState, Dispatch!Time
<1>2. reminder # Workflow!NoDraft => DueTime \in Nat
  <2>1. NotifyAt \subseteq Nat
    BY DEF Types, Assumed, PartsAssumption, Dispatch!Time
  <2>2. reminder \in Workflow!ReminderDraft => reminder.reading \in Readings
    BY DEF Workflow!ReminderDraft
  <2> QED
    BY <2>1, <2>2 DEF Types, Assumed, DeliveryAssumption, DueTime
<1>3. Own \in Messages /\ Own # 0
  BY DEF Types, Assumed, DeliveryAssumption, PartsAssumption
<1> QED
  BY <1>1, <1>2, <1>3

\* What a step has to show: it leaves the row alone, or the time has come.
LEMMA BorderKept ==
  ASSUME Types, Types', Border, reminder' = reminder, clock' >= clock,
         outbox'[Own].dispatch_status = "absent" <=> outbox[Own].dispatch_status = "absent",
         \A w \in Workers : worker'[w].ran_at <= clock',
         \/ /\ outbox'[Own] = outbox[Own] /\ called'[Own] = called[Own]
            /\ \A w \in Workers : worker'[w].message = Own => worker[w].message = Own
         \/ Ripe
  PROVE  Border'
<1>1. DueTime' = DueTime
  BY DEF DueTime
<1>2. CASE Ripe
  <2>0. clock' \in Nat
    BY DEF Assumed, PartsAssumption, Types, Dispatch!TypeOK, Dispatch!Time
  <2>1. Ripe'
    BY <1>1, <1>2, <2>0, Instants DEF Ripe
  <2> QED
    BY <2>1 DEF Border
<1>3. CASE ~Ripe
  <2>1. Untouched'
    BY <1>1, <1>3 DEF Border, Untouched
  <2> QED
    BY <2>1 DEF Border
<1> QED
  BY <1>2, <1>3

\* A row that is not as it was added, or that a worker has, is due.
LEMMA TouchedIsRipe ==
  ASSUME Types, Border, outbox[Own].dispatch_status # "absent",
         \/ outbox[Own].dispatch_status # "pending"
         \/ outbox[Own].next_attempt_at <= clock
         \/ \E w \in Workers : worker[w].message = Own
  PROVE  Ripe
<1> SUFFICES ASSUME Untouched PROVE Ripe
  BY DEF Border
<1>1. reminder # Workflow!NoDraft
  BY DEF Border
<1>2. outbox[Own].dispatch_status = "pending" /\ outbox[Own].next_attempt_at = DueTime
  BY <1>1 DEF Untouched, Dispatch!add, Dispatch!NoRow
<1>3. DueTime <= clock
  BY <1>2 DEF Untouched
<1> QED
  BY <1>1, <1>3, Instants DEF Ripe

\* A worker keeps, or loses, its message and the start of its tick.
Carried(v) ==
  /\ worker'[v].message \in {worker[v].message, 0}
  /\ worker'[v].ran_at \in {worker[v].ran_at, 0}

LEMMA WorkersCarry ==
  ASSUME Types, NEW w \in Workers
  PROVE  /\ Dispatch!EndTick(w) => \A v \in Workers : Carried(v)
         /\ \A pc : Dispatch!GoTo(w, pc) => \A v \in Workers : Carried(v)
         /\ worker' = worker => \A v \in Workers : Carried(v)
<1>1. worker \in [Workers -> Dispatch!WorkerState]
  BY DEF Types, Dispatch!TypeOK
<1>2. ASSUME Dispatch!EndTick(w) PROVE \A v \in Workers : Carried(v)
  <2>1. Dispatch!Idle.message = 0 /\ Dispatch!Idle.ran_at = 0
    BY DEF Dispatch!Idle
  <2>2. \A v \in Workers : worker'[v] = IF v = w THEN Dispatch!Idle ELSE worker[v]
    BY <1>1, <1>2 DEF Dispatch!EndTick
  <2> QED
    BY <2>1, <2>2 DEF Carried
<1>3. ASSUME NEW pc, Dispatch!GoTo(w, pc) PROVE \A v \in Workers : Carried(v)
  BY <1>1, <1>3 DEF Dispatch!GoTo, Dispatch!WorkerState, Carried
<1> QED
  BY <1>2, <1>3 DEF Carried

LEMMA CarriedStarted ==
  ASSUME Types, Border, clock' = clock, NEW v \in Workers, Carried(v)
  PROVE  /\ worker'[v].ran_at <= clock'
         /\ worker'[v].message = Own => worker[v].message = Own
  BY Instants DEF Border, Carried

\* Steps that change no row and call nobody.
LEMMA QuietBorder ==
  ASSUME Types, Types', Border, UNCHANGED <<reminder, clock, outbox, called>>,
         \A v \in Workers : Carried(v)
  PROVE  Border'
<1>1. clock' >= clock
  BY Instants
<1> QED
  BY <1>1, BorderKept, CarriedStarted

\* A transition of a row that is there, on a due row if it is Own.
LEMMA StoreBorder ==
  ASSUME Types, Types', Border, UNCHANGED <<reminder, clock, called>>,
         NEW m \in Messages \cup {0}, NEW row, Dispatch!Store(m, row),
         m = Own => /\ outbox[m].dispatch_status # "absent" /\ Ripe
                    /\ row.dispatch_status # "absent",
         \A v \in Workers : worker'[v].ran_at <= clock',
         \A v \in Workers : worker'[v].message = Own => worker[v].message = Own \/ m = Own
  PROVE  Border'
<1>1. clock' >= clock
  BY Instants
<1>2. outbox'[Own] = IF m = Own THEN row ELSE outbox[Own]
  BY Instants DEF Dispatch!Store, Types, Dispatch!TypeOK
<1>3. CASE m = Own
  BY <1>1, <1>2, <1>3, BorderKept
<1>4. CASE m # Own
  BY <1>1, <1>2, <1>4, BorderKept
<1> QED
  BY <1>3, <1>4

LEMMA TransitionsPresent ==
  ASSUME NEW row \in Dispatch!OutboxMessage
  PROVE  /\ Dispatch!mark_sending(row).dispatch_status = "sending"
         /\ Dispatch!mark_uncertain(row).dispatch_status = "uncertain"
         /\ Dispatch!mark_claim_failed(row).dispatch_status = "failed"
         /\ Dispatch!mark_published(row).dispatch_status = "published"
         /\ Dispatch!mark_failed(row).dispatch_status = "failed"
         /\ \A at : Dispatch!release(row, at).dispatch_status = "pending"
         /\ \A at : Dispatch!reschedule(row, at).dispatch_status = "pending"
         /\ \A at : Dispatch!resolve_uncertain_retry(row, at).dispatch_status = "pending"
         /\ Dispatch!resolve_uncertain_delivered(row).dispatch_status = "published"
         /\ \A token, until : /\ Dispatch!claim(row, token, until).dispatch_status = "claimed"
                              /\ Dispatch!mark_claim_failed(Dispatch!claim(row, token, until))
                                   .dispatch_status = "failed"
  BY DEF Dispatch!OutboxMessage, Dispatch!mark_sending, Dispatch!mark_uncertain,
         Dispatch!mark_claim_failed, Dispatch!mark_published, Dispatch!mark_failed,
         Dispatch!release, Dispatch!reschedule, Dispatch!resolve_uncertain_retry,
         Dispatch!resolve_uncertain_delivered, Dispatch!claim, Dispatch!Unclaimed

\* A transaction of a worker on the row it carries.
LEMMA CarrierBorder ==
  ASSUME Types, Types', Border, UNCHANGED <<reminder, clock, called>>,
         NEW w \in Workers, Dispatch!Holds(w), NEW row,
         Dispatch!Store(worker[w].message, row),
         worker[w].message \in Messages => row.dispatch_status # "absent",
         \A v \in Workers : Carried(v)
  PROVE  Border'
<1>1. worker[w].message \in Messages \cup {0}
  BY DEF Types, Dispatch!TypeOK, Dispatch!WorkerState
<1>2. outbox[worker[w].message].dispatch_status \in {"claimed", "sending"}
  BY DEF Dispatch!Holds, Dispatch!Guarded, Dispatch!Expected
<1>3. worker[w].message = Own => outbox[Own].dispatch_status # "absent" /\ Ripe
  BY <1>2, TouchedIsRipe
<1> QED
  BY <1>1, <1>3, Instants, StoreBorder, CarriedStarted

LEMMA SweepBorder ==
  ASSUME Types, Types', Border, reminder' = reminder, NEW w \in Workers,
         Dispatch!SweepExpiredSending(w)
  PROVE  Border'
<1>1. UNCHANGED <<reminder, clock, called>> /\ \A v \in Workers : Carried(v)
  BY WorkersCarry DEF Dispatch!SweepExpiredSending, Dispatch!history
<1>2. CASE UNCHANGED <<outbox, reminders>>
  BY <1>1, <1>2, QuietBorder
<1>3. CASE \E m \in Messages :
             /\ Dispatch!is_expired_sending(outbox[m], worker[w].ran_at)
             /\ Dispatch!Store(m, Dispatch!mark_uncertain(outbox[m]))
  <2>1. PICK m \in Messages :
               /\ Dispatch!is_expired_sending(outbox[m], worker[w].ran_at)
               /\ Dispatch!Store(m, Dispatch!mark_uncertain(outbox[m]))
    BY <1>3
  <2>2. outbox[m].dispatch_status = "sending" /\ outbox[m] \in Dispatch!OutboxMessage
    BY <2>1 DEF Dispatch!is_expired_sending, Types, Dispatch!TypeOK
  <2>3. Dispatch!mark_uncertain(outbox[m]).dispatch_status # "absent"
    BY <2>2, TransitionsPresent
  <2>4. m = Own => outbox[m].dispatch_status # "absent" /\ Ripe
    BY <2>2, TouchedIsRipe
  <2> QED
    BY <1>1, <2>1, <2>3, <2>4, StoreBorder, CarriedStarted
<1> QED
  BY <1>2, <1>3 DEF Dispatch!SweepExpiredSending, Dispatch!Oldest

\* A worker claims a row that was due when its tick began, which is not later
\* than now.
LEMMA ClaimBorder ==
  ASSUME Types, Types', Border, reminder' = reminder, NEW w \in Workers, Dispatch!Claim(w)
  PROVE  Border'
<1>0. UNCHANGED <<reminder, clock, called>>
  BY DEF Dispatch!Claim, Dispatch!history
<1>1. CASE Dispatch!EndTick(w) /\ UNCHANGED <<outbox, reminders>>
  BY <1>0, <1>1, QuietBorder, WorkersCarry
<1>2. CASE ~(Dispatch!EndTick(w) /\ UNCHANGED <<outbox, reminders>>)
  <2> DEFINE claimed(m, token) ==
        Dispatch!claim(outbox[m], token, Dispatch!Later(worker[w].ran_at, LEASE_SECONDS))
  <2>1. PICK m \in Messages, token \in Dispatch!Tokens :
          /\ Dispatch!is_due(outbox[m], worker[w].ran_at)
          /\ \/ /\ Dispatch!Store(m, Dispatch!mark_claim_failed(claimed(m, token)))
                /\ Dispatch!EndTick(w)
             \/ /\ Dispatch!Store(m, claimed(m, token))
                /\ worker' = [worker EXCEPT ![w].pc       = "authorize",
                                            ![w].message  = m,
                                            ![w].token    = token,
                                            ![w].attempts = claimed(m, token).attempts]
    BY <1>2 DEF Dispatch!Claim, Dispatch!Oldest
  <2>2. outbox[m] \in Dispatch!OutboxMessage
    BY DEF Types, Dispatch!TypeOK
  <2>3. /\ claimed(m, token).dispatch_status # "absent"
        /\ Dispatch!mark_claim_failed(claimed(m, token)).dispatch_status # "absent"
    BY <2>2, TransitionsPresent
  <2>4. m = Own => outbox[m].dispatch_status # "absent" /\ Ripe
    <3>1. outbox[m].next_attempt_at \in Nat /\ worker[w].ran_at \in Nat /\ clock \in Nat
      BY <2>2, Instants DEF Types, Assumed, PartsAssumption, Dispatch!OutboxMessage, Dispatch!Time
    <3>2. \/ outbox[m].dispatch_status = "claimed"
          \/ outbox[m].dispatch_status = "pending" /\ outbox[m].next_attempt_at <= clock
      BY <2>1, <3>1 DEF Dispatch!is_due, Border
    <3> QED
      BY <3>2, TouchedIsRipe
  <2> HIDE DEF claimed
  <2>5. CASE /\ Dispatch!Store(m, Dispatch!mark_claim_failed(claimed(m, token)))
             /\ Dispatch!EndTick(w)
    BY <1>0, <2>3, <2>4, <2>5, StoreBorder, CarriedStarted, WorkersCarry
  <2>6. CASE /\ Dispatch!Store(m, claimed(m, token))
             /\ worker' = [worker EXCEPT ![w].pc       = "authorize",
                                         ![w].message  = m,
                                         ![w].token    = token,
                                         ![w].attempts = claimed(m, token).attempts]
    <3>1. \A v \in Workers : /\ worker'[v].ran_at = worker[v].ran_at
                             /\ worker'[v].message = IF v = w THEN m ELSE worker[v].message
      BY <2>6 DEF Types, Dispatch!TypeOK, Dispatch!WorkerState
    <3>2. \A v \in Workers : worker'[v].ran_at <= clock'
      BY <1>0, <3>1 DEF Border
    <3> QED
      BY <1>0, <2>3, <2>4, <2>6, <3>1, <3>2, StoreBorder
  <2> QED
    BY <2>1, <2>5, <2>6
<1> QED
  BY <1>1, <1>2

LEMMA SettledPresent ==
  ASSUME Types, NEW w \in Workers, worker[w].message \in Messages, NEW retry_after
  PROVE  Dispatch!Settled(w, retry_after).dispatch_status # "absent"
<1> DEFINE row == outbox[worker[w].message]
<1>1. row \in Dispatch!OutboxMessage
  BY DEF Types, Dispatch!TypeOK
<1>2. /\ Dispatch!mark_published(row).dispatch_status # "absent"
      /\ Dispatch!mark_failed(row).dispatch_status # "absent"
      /\ Dispatch!mark_uncertain(row).dispatch_status # "absent"
      /\ \A at : Dispatch!reschedule(row, at).dispatch_status # "absent"
  BY <1>1, TransitionsPresent
<1>3. \E at : Dispatch!Settled(w, retry_after) \in
         {Dispatch!mark_published(row), Dispatch!mark_failed(row),
          Dispatch!mark_uncertain(row), Dispatch!reschedule(row, at)}
  <2>1. Dispatch!Settled(w, retry_after) \in
         {Dispatch!mark_published(row), Dispatch!mark_failed(row), Dispatch!mark_uncertain(row),
          Dispatch!reschedule(row, Dispatch!RetryAt(worker[w].attempts, retry_after))}
    BY DEF Dispatch!Settled
  <2> QED
    BY <2>1
<1> HIDE DEF row
<1> QED
  BY <1>2, <1>3

\* The provider is called for a row that a worker carries.
LEMMA SendBorder ==
  ASSUME Types, Types', Border, reminder' = reminder, NEW w \in Workers, Dispatch!Send(w)
  PROVE  Border'
<1>1. UNCHANGED <<reminder, clock, outbox>>
  BY DEF Dispatch!Send
<1>2. \A v \in Workers : Carried(v)
  <2>1. worker \in [Workers -> Dispatch!WorkerState]
    BY DEF Types, Dispatch!TypeOK
  <2>2. PICK result : worker' = [worker EXCEPT ![w].pc = "record", ![w].result = result]
    BY DEF Dispatch!Send
  <2> QED
    BY <2>1, <2>2 DEF Dispatch!WorkerState, Carried
<1>3. called'[Own] = called[Own] \/ worker[w].message = Own
  BY Instants DEF Dispatch!Send, Types, Dispatch!TypeOK
<1>4. worker[w].message = Own => Ripe
  BY DEF Border, Untouched
<1>5. clock' >= clock
  BY <1>1, Instants
<1> QED
  BY <1>1, <1>2, <1>3, <1>4, <1>5, BorderKept, CarriedStarted

LEMMA WorkerBorder ==
  ASSUME Types, Types', Border, reminder' = reminder, NEW w \in Workers,
         Dispatch!WorkerStep(w) \/ Dispatch!Abort(w)
  PROVE  Border'
<1> DEFINE m == worker[w].message
<1>0. /\ worker \in [Workers -> Dispatch!WorkerState]
      /\ m \in Messages \cup {0}
      /\ outbox \in [Messages -> Dispatch!OutboxMessage]
  BY DEF Types, Dispatch!TypeOK, Dispatch!WorkerState
<1>1. CASE Dispatch!StartTick(w)
  <2>1. UNCHANGED <<reminder, clock, outbox, called>>
    BY <1>1 DEF Dispatch!StartTick, Dispatch!history
  <2>2. \A v \in Workers : /\ worker'[v].message = worker[v].message
                           /\ worker'[v].ran_at \in {worker[v].ran_at, clock}
    BY <1>0, <1>1 DEF Dispatch!StartTick, Dispatch!WorkerState
  <2>3. \A v \in Workers : worker'[v].ran_at <= clock'
    BY <2>1, <2>2, Instants DEF Border
  <2>4. clock' >= clock
    BY <2>1, Instants
  <2> QED
    BY <2>1, <2>2, <2>3, <2>4, BorderKept
<1>2. CASE Dispatch!SweepExpiredSending(w)
  BY <1>2, SweepBorder
<1>3. CASE Dispatch!Claim(w)
  BY <1>3, ClaimBorder
<1>4. CASE Dispatch!Authorize(w)
  <2>1. \A v \in Workers : Carried(v)
    BY <1>0, <1>4 DEF Dispatch!Authorize, Dispatch!WorkerState, Carried
  <2> QED
    BY <1>4, <2>1, QuietBorder DEF Dispatch!Authorize, Dispatch!history
<1>5. CASE Dispatch!ReleaseBeforeIO(w)
  <2>1. m \in Messages => Dispatch!release(outbox[m], Dispatch!Later(worker[w].ran_at, RELEASE_DELAY)).dispatch_status # "absent"
    BY <1>0, TransitionsPresent
  <2>2. \A v \in Workers : Carried(v)
    BY <1>5, WorkersCarry DEF Dispatch!ReleaseBeforeIO
  <2> QED
    BY <1>5, <2>1, <2>2, CarrierBorder DEF Dispatch!ReleaseBeforeIO, Dispatch!history
<1>6. CASE Dispatch!RecordMalformed(w)
  <2>1. m \in Messages => Dispatch!mark_claim_failed(outbox[m]).dispatch_status # "absent"
    BY <1>0, TransitionsPresent
  <2>2. \A v \in Workers : Carried(v)
    BY <1>6, WorkersCarry DEF Dispatch!RecordMalformed
  <2> QED
    BY <1>6, <2>1, <2>2, CarrierBorder DEF Dispatch!RecordMalformed, Dispatch!history
<1>7. CASE Dispatch!ConfirmSending(w)
  <2>1. m \in Messages => Dispatch!mark_sending(outbox[m]).dispatch_status # "absent"
    BY <1>0, TransitionsPresent
  <2>2. \A v \in Workers : Carried(v)
    BY <1>0, <1>7 DEF Dispatch!ConfirmSending, Dispatch!WorkerState, Carried
  <2> QED
    BY <1>7, <2>1, <2>2, CarrierBorder DEF Dispatch!ConfirmSending, Dispatch!history
<1>8. CASE Dispatch!Send(w)
  BY <1>8, SendBorder
<1>9. CASE Dispatch!RecordResult(w)
  <2>1. PICK retry_after \in RetryAfter : Dispatch!Store(m, Dispatch!Settled(w, retry_after))
    BY <1>9 DEF Dispatch!RecordResult
  <2>2. m \in Messages => Dispatch!Settled(w, retry_after).dispatch_status # "absent"
    BY SettledPresent
  <2>3. \A v \in Workers : Carried(v)
    BY <1>9, WorkersCarry DEF Dispatch!RecordResult
  <2> QED
    BY <1>9, <2>1, <2>2, <2>3, CarrierBorder DEF Dispatch!RecordResult, Dispatch!history
<1>10. CASE Dispatch!Fenced(w)
  BY <1>10, QuietBorder, WorkersCarry DEF Dispatch!Fenced, Dispatch!history
<1>11. CASE Dispatch!Abort(w)
  BY <1>11, QuietBorder, WorkersCarry DEF Dispatch!Abort, Dispatch!history
<1> QED
  BY <1>1, <1>2, <1>3, <1>4, <1>5, <1>6, <1>7, <1>8, <1>9, <1>10, <1>11
  DEF Dispatch!WorkerStep

\* The clock, other rows and the operator.
LEMMA OthersBorder ==
  ASSUME Types, Types', Border, reminder' = reminder,
         \/ Dispatch!Tick
         \/ \E m \in Messages \ {Own} : Dispatch!Enqueue(m)
         \/ \E m \in Messages : Dispatch!ResolveDelivered(m) \/ Dispatch!ResolveRetry(m)
  PROVE  Border'
<1>0. outbox \in [Messages -> Dispatch!OutboxMessage]
  BY DEF Types, Dispatch!TypeOK
<1>1. CASE Dispatch!Tick
  <2>1. clock' = clock + 1 /\ UNCHANGED <<outbox, worker, called>>
    BY <1>1 DEF Dispatch!Tick, Dispatch!history
  <2>2. clock' >= clock /\ \A w \in Workers : worker'[w].ran_at <= clock'
    BY <2>1, Instants DEF Border
  <2> QED
    BY <2>1, <2>2, BorderKept
<1>2. ASSUME NEW m \in Messages \ {Own}, Dispatch!Enqueue(m) PROVE Border'
  <2>1. UNCHANGED <<clock, worker, called>> /\ outbox'[Own] = outbox[Own]
    BY <1>0, <1>2, Instants DEF Dispatch!Enqueue, Dispatch!history
  <2>2. clock' >= clock /\ \A w \in Workers : worker'[w].ran_at <= clock'
    BY <2>1, Instants DEF Border
  <2> QED
    BY <2>1, <2>2, BorderKept
<1>3. ASSUME NEW m \in Messages, Dispatch!ResolveDelivered(m) \/ Dispatch!ResolveRetry(m)
      PROVE  Border'
  <2>1. PICK row : row.dispatch_status # "absent" /\ Dispatch!Store(m, row)
    BY <1>0, <1>3, TransitionsPresent DEF Dispatch!ResolveDelivered, Dispatch!ResolveRetry
  <2>2. UNCHANGED <<clock, worker, called>> /\ outbox[m].dispatch_status = "uncertain"
    BY <1>3 DEF Dispatch!ResolveDelivered, Dispatch!ResolveRetry
  <2>3. m = Own => outbox[m].dispatch_status # "absent" /\ Ripe
    BY <2>2, TouchedIsRipe
  <2>4. \A v \in Workers : worker'[v].ran_at <= clock' /\ worker'[v].message = worker[v].message
    BY <2>2 DEF Border
  <2> QED
    BY <2>1, <2>2, <2>3, <2>4, StoreBorder
<1> QED
  BY <1>1, <1>2, <1>3

\* The unit of work: the reminder appears together with its row, due at the time
\* that its reading names.
LEMMA CommitBorder ==
  ASSUME Types, Types', Border, NEW h \in Handlers, Commits(h)
  PROVE  Border'
<1>1. CASE reminder' = reminder /\ UNCHANGED delivery
  <2>1. UNCHANGED <<reminder, clock, outbox, called, worker>>
    BY <1>1 DEF delivery
  <2> QED
    BY <2>1 DEF Border, Untouched, Ripe, DueTime
<1>2. CASE reminder' # reminder /\ Requested(reminder')
  <2>1. reminder = Workflow!NoDraft /\ reminder' # Workflow!NoDraft
    BY <1>2 DEF Commits, Workflow!Execute, Workflow!Insertable
  <2>2. Untouched
    BY <2>1 DEF Border, Ripe
  <2>3. PICK notify_at \in NotifyAt :
          outbox' = [outbox EXCEPT ![Own] = Dispatch!add(notify_at)]
    BY <1>2 DEF Requested, Dispatch!Enqueue
  <2>4. outbox'[Own] = Dispatch!add(notify_at)
    BY <2>3, Instants DEF Types, Dispatch!TypeOK
  <2>5. Dispatch!add(notify_at).next_attempt_at = notify_at
        /\ Dispatch!add(notify_at).dispatch_status = "pending"
    BY DEF Dispatch!add, Dispatch!NoRow
  <2>6. outbox'[Own].next_attempt_at = DueTime'
    BY <1>2 DEF Requested, DueTime
  <2>7. outbox'[Own] = Dispatch!add(DueTime')
    BY <2>4, <2>5, <2>6
  <2>8. UNCHANGED <<clock, worker, called>>
    BY <1>2 DEF Requested, Dispatch!Enqueue, Dispatch!history
  <2>9. Untouched'
    BY <2>2, <2>7, <2>8 DEF Untouched
  <2> QED
    BY <2>1, <2>4, <2>5, <2>8, <2>9 DEF Border
<1> QED
  BY <1>1, <1>2 DEF Commits

LEMMA BorderStep ==
  ASSUME Types, Types', Border, [Next]_vars
  PROVE  Border'
<1>1. ASSUME NEW h \in Handlers, Commits(h) PROVE Border'
  BY <1>1, CommitBorder
<1>2. CASE reminder' = reminder /\ UNCHANGED delivery
  BY <1>2 DEF delivery, Border, Untouched, Ripe, DueTime
<1>3. ASSUME NEW h \in Handlers, Proceed(h) \/ Arrives(h), ~Commits(h)
      PROVE  reminder' = reminder /\ UNCHANGED delivery
  BY <1>3 DEF Proceed, Arrives, Workflow!Extract, Workflow!AskApproval,
              Workflow!CheckApproval, Workflow!RecheckApproval, Workflow!MarkApproved,
              Workflow!ReadState, Workflow!Cancel, Workflow!Register,
              Workflow!FindApproval, Workflow!FindForCancel, Workflow!Abort
<1>4. ASSUME NEW w \in Workers, Works(w) PROVE Border'
  BY <1>4, WorkerBorder DEF Works, requests
<1>5. CASE TimePasses
  BY <1>5, OthersBorder DEF TimePasses, requests
<1>6. CASE Others
  BY <1>6, OthersBorder, WorkerBorder DEF Others, requests
<1>7. CASE UNCHANGED vars
  BY <1>2, <1>7 DEF vars, requests
<1> QED
  BY <1>1, <1>2, <1>3, <1>4, <1>5, <1>6, <1>7 DEF Next

LEMMA ReminderPart ==
  ASSUME DeliveryAssumption, PartsAssumption
  PROVE  Spec => []DeliveredAsApproved
<1>0. Assumed
  BY DEF Assumed
<1>1. Init => Border
  BY DEF DeliveryAssumption, PartsAssumption, Init, Dispatch!Init, Workflow!Init, Border, Untouched, Dispatch!NoRow, Dispatch!Idle
<1>2. Spec => []Border
  <2>1. Types /\ Types' /\ Border /\ [Next]_vars => Border'
    BY BorderStep
  <2> QED
    BY <1>0, <1>1, <2>1, PartsHold, PartsTyped, PTL DEF Spec
<1>3. ASSUME Parts, Border PROVE DeliveredAsApproved
  <2>1. /\ reminder # Workflow!NoDraft <=> state.status = "completed"
        /\ reminder # Workflow!NoDraft => reminder = state.draft
        /\ reminder # Workflow!NoDraft => approval.status \in {"approved", "cancelled"}
    BY <1>3 DEF Parts, WP!Inv, WP!BuiltAsApproved, WP!NoEffectUndecided, WP!NoDraft,
                WP!NoPayload, WP!NoReading, Workflow!NoDraft, Workflow!NoPayload,
                Workflow!NoReading
  <2>2. called[Own] # {} => Ripe
    BY <1>3 DEF Border, Untouched
  <2> QED
    BY <1>3, <2>1, <2>2 DEF Border, Ripe, DueTime, DeliveredAsApproved
<1> QED
  BY <1>0, <1>2, <1>3, PartsHold, PTL

\* What reaches the user is the reminder that was approved, and not before its
\* time: for any requests, workers, rows and crashes, the queue holds the message
\* exactly when the workflow is completed, which takes a decision, and the
\* provider is not called before the time named by the draft that was shown.
THEOREM AlwaysDeliveredAsApproved ==
  ASSUME DeliveryAssumption, PartsAssumption
  PROVE  ServiceSpec => []DeliversAsApproved
<1> DEFINE followed == part = "reminder"
<1>1. ServiceInit => (followed => Init)
  BY DEF ServiceInit
<1>2. [ServiceNext]_serviceVars => (followed' <=> followed) /\ (followed => [Next]_vars)
  BY DEF ServiceNext, serviceVars
<1>3. (followed => DeliveredAsApproved) => DeliversAsApproved
  BY DEF DeliversAsApproved
<1>4. Spec => []DeliveredAsApproved
  BY ReminderPart
<1> HIDE DEF followed
<1> QED
  BY <1>1, <1>2, <1>3, <1>4, PTL DEF ServiceSpec, Spec

-----------------------------------------------------------------------------
(* The workers' health.                                                    *)
(*                                                                         *)
(* The last good tick of some worker is no longer ago than the heartbeat   *)
(* is old.  And as long as nothing has gone wrong since it was stored,     *)
(* some loop has been waiting or working since then, each for no longer    *)
(* than it may.                                                            *)

HealthAssumed == SettingsAssumption /\ ClockAssumption

HealthTypes ==
  /\ skew \in [Processes \cup {Probe} -> Skews]
  /\ loop \in [Processes -> [pc : {"wait", "tick", "beat", "stopped"}, time : Nat]]
  /\ heartbeat = NoHeartbeat \/ heartbeat \in [age : Nat, skew : Skews]
  /\ since \in [Processes -> Nat]

Stored == heartbeat # NoHeartbeat

\* The heartbeat follows its tick at once, and tells of it or a later one.
TickedInv ==
  /\ \A w \in Processes : loop[w].pc = "beat" => since[w] = 0
  /\ Stored => \E w \in Processes : since[w] <= heartbeat.age

\* No loop waits or works longer than it may.
InTimeInv ==
  \A w \in Processes : /\ loop[w].pc = "wait" => loop[w].time <= Interval
                       /\ loop[w].pc \in {"tick", "beat"} => loop[w].time <= TickMax

\* Loop w has been on its way since the heartbeat was stored.
OnItsWay(w) ==
  \/ loop[w].pc = "wait" /\ heartbeat.age <= loop[w].time
  \/ loop[w].pc \in {"tick", "beat"} /\ heartbeat.age <= Interval + loop[w].time

SteadyInv == Stored /\ ~trouble => \E w \in Processes : OnItsWay(w)

HealthInv == HealthTypes /\ TickedInv /\ InTimeInv /\ SteadyInv

LEMMA HealthNumbers ==
  ASSUME HealthAssumed
  PROVE  /\ Interval \in Nat /\ Timeout \in Nat /\ TickMax \in Nat /\ Skews \subseteq Int
         /\ Spread \in Nat
         /\ \A r, s \in Skews : r - s <= Spread
<1>1. /\ Interval \in Nat /\ Timeout \in Nat /\ TickMax \in Nat /\ Skews \subseteq Int
      /\ \E lo, hi \in Skews : \A s \in Skews : lo <= s /\ s <= hi
  BY DEF HealthAssumed
<1>2. Max(Skews) \in Skews /\ \A s \in Skews : Max(Skews) >= s
  BY <1>1 DEF Max
<1>3. Min(Skews) \in Skews /\ \A s \in Skews : Min(Skews) <= s
  BY <1>1 DEF Min
<1> DEFINE hi == Max(Skews)
<1> DEFINE lo == Min(Skews)
<1>4. /\ hi \in Int /\ lo \in Int /\ lo <= hi
      /\ \A s \in Skews : s \in Int /\ lo <= s /\ s <= hi
  BY <1>1, <1>2, <1>3
<1>5. Spread = hi - lo
  BY DEF Spread
<1> HIDE DEF hi, lo
<1>6. Spread \in Nat
  BY <1>4, <1>5
<1>7. ASSUME NEW r \in Skews, NEW s \in Skews PROVE r - s <= Spread
  BY <1>4, <1>5
<1> QED
  BY <1>1, <1>6, <1>7

LEMMA OlderGrows ==
  ASSUME HealthAssumed, NEW a \in Nat
  PROVE  /\ Older(a) \in Nat /\ Older(a) <= a + 1
         /\ \A b \in Nat : b <= a => Older(b) <= Older(a)
<1>1. Old \in Nat
  BY HealthNumbers DEF Old
<1> QED
  BY <1>1 DEF Older

LEMMA HealthInitial ==
  ASSUME HealthAssumed, HealthInit
  PROVE  HealthInv
<1>1. Old \in Nat /\ Interval \in Nat
  BY HealthNumbers DEF Old
<1> QED
  BY <1>1 DEF HealthInit, HealthInv, HealthTypes, TickedInv, InTimeInv, SteadyInv, Stored

\* A loop that fails, is stopped or finds the database gone is trouble, and
\* stores nothing.
LEMMA TroubleInv ==
  ASSUME HealthAssumed, HealthInv, NEW w \in Processes, trouble' = TRUE,
         NEW pc \in {"wait", "stopped"}, loop' = [loop EXCEPT ![w] = [pc |-> pc, time |-> 0]],
         UNCHANGED <<skew, heartbeat, since>>
  PROVE  HealthInv'
<1>1. HealthTypes'
  BY DEF HealthInv, HealthTypes
<1>2. \A v \in Processes : loop'[v] = IF v = w THEN [pc |-> pc, time |-> 0] ELSE loop[v]
  BY DEF HealthInv, HealthTypes
<1>3. TickedInv'
  BY <1>2 DEF HealthInv, TickedInv, Stored
<1>4. InTimeInv'
  BY <1>2, HealthNumbers DEF HealthInv, InTimeInv
<1> QED
  BY <1>1, <1>3, <1>4 DEF HealthInv, SteadyInv

\* A loop goes on: it takes no longer than it may, and if it was on its way it is.
LEMMA LoopInv ==
  ASSUME HealthAssumed, HealthInv, NEW w \in Processes,
         NEW next \in [pc : {"wait", "tick", "beat", "stopped"}, time : Nat],
         loop' = [loop EXCEPT ![w] = next], UNCHANGED <<skew, heartbeat, trouble>>,
         \/ since' = since /\ next.pc # "beat"
         \/ since' = [since EXCEPT ![w] = 0],
         next.pc = "wait" => next.time <= Interval,
         next.pc \in {"tick", "beat"} => next.time <= TickMax,
         Stored /\ OnItsWay(w) => OnItsWay(w)'
  PROVE  HealthInv'
<1>1. /\ loop \in [Processes -> [pc : {"wait", "tick", "beat", "stopped"}, time : Nat]]
      /\ since \in [Processes -> Nat]
      /\ Stored => heartbeat.age \in Nat
  BY DEF HealthInv, HealthTypes, Stored
<1>2. HealthTypes'
  BY DEF HealthInv, HealthTypes
<1>3. \A v \in Processes : loop'[v] = IF v = w THEN next ELSE loop[v]
  BY <1>1
<1>4. \A v \in Processes : since'[v] = since[v] \/ (v = w /\ since'[v] = 0)
  BY <1>1
<1>5. TickedInv'
  <2>1. \A v \in Processes : loop'[v].pc = "beat" => since'[v] = 0
    BY <1>1, <1>3, <1>4 DEF HealthInv, TickedInv
  <2>2. Stored' => \E v \in Processes : since'[v] <= heartbeat'.age
    BY <1>1, <1>4 DEF HealthInv, TickedInv, Stored
  <2> QED
    BY <2>1, <2>2 DEF TickedInv
<1>6. InTimeInv'
  BY <1>3 DEF HealthInv, InTimeInv
<1>7. SteadyInv'
  <2>1. \A v \in Processes : Stored /\ OnItsWay(v) => OnItsWay(v)'
    BY <1>3 DEF OnItsWay
  <2> QED
    BY <2>1 DEF HealthInv, SteadyInv, Stored
<1> QED
  BY <1>2, <1>5, <1>6, <1>7 DEF HealthInv

LEMMA BeatInv ==
  ASSUME HealthAssumed, HealthInv, NEW w \in Processes, Beat(w)
  PROVE  HealthInv'
<1>1. /\ loop \in [Processes -> [pc : {"wait", "tick", "beat", "stopped"}, time : Nat]]
      /\ since' = since /\ since \in [Processes -> Nat]
      /\ skew \in [Processes \cup {Probe} -> Skews] /\ skew' = skew
      /\ heartbeat' = [age |-> 0, skew |-> skew[w]]
      /\ loop' = [loop EXCEPT ![w] = [pc |-> "wait", time |-> 0]]
      /\ loop[w].pc = "beat"
  BY DEF HealthInv, HealthTypes, Beat
<1>2. HealthTypes'
  BY <1>1 DEF HealthTypes
<1>3. \A v \in Processes : loop'[v] = IF v = w THEN [pc |-> "wait", time |-> 0] ELSE loop[v]
  BY <1>1
<1>4. TickedInv'
  BY <1>1, <1>3 DEF HealthInv, TickedInv
<1>5. InTimeInv'
  BY <1>3, HealthNumbers DEF HealthInv, InTimeInv
<1>6. OnItsWay(w)'
  BY <1>1, <1>3 DEF OnItsWay
<1> QED
  BY <1>2, <1>4, <1>5, <1>6 DEF HealthInv, SteadyInv

LEMMA PassesInv ==
  ASSUME HealthAssumed, HealthInv, Passes
  PROVE  HealthInv'
<1>1. /\ loop \in [Processes -> [pc : {"wait", "tick", "beat", "stopped"}, time : Nat]]
      /\ since \in [Processes -> Nat]
      /\ Stored => heartbeat \in [age : Nat, skew : Skews]
      /\ Interval \in Nat /\ TickMax \in Nat
  BY HealthNumbers DEF HealthInv, HealthTypes, Stored
<1>2. \A w \in Processes :
        /\ loop[w].pc # "beat"
        /\ loop[w].pc = "wait" => loop[w].time < Interval
        /\ loop[w].pc = "tick" => loop[w].time < TickMax
  BY <1>1 DEF Passes, Urgent, Due
<1>3. \A w \in Processes :
        /\ loop'[w].pc = loop[w].pc
        /\ loop[w].pc \in {"wait", "tick"} => loop'[w].time = loop[w].time + 1
  BY <1>1 DEF Passes
<1>4. loop' \in [Processes -> [pc : {"wait", "tick", "beat", "stopped"}, time : Nat]]
  BY <1>1 DEF Passes
<1>5. /\ since' \in [Processes -> Nat]
      /\ \A w \in Processes : since'[w] = Older(since[w])
  BY <1>1, OlderGrows DEF Passes
<1>6. /\ Stored' <=> Stored
      /\ Stored => /\ heartbeat' \in [age : Nat, skew : Skews]
                   /\ heartbeat'.age = Older(heartbeat.age)
  <2>1. CASE ~Stored
    BY <2>1 DEF Passes, Stored
  <2>2. CASE Stored
    <3>1. heartbeat' = [heartbeat EXCEPT !.age = Older(@)]
      BY <2>2 DEF Passes, Stored
    <3>2. Older(heartbeat.age) \in Nat
      BY <1>1, <2>2, OlderGrows
    <3>3. /\ heartbeat' \in [age : Nat, skew : Skews]
          /\ heartbeat'.age = Older(heartbeat.age)
      BY <1>1, <2>2, <3>1, <3>2
    <3>4. heartbeat'.age # -1
      BY <3>2, <3>3
    <3> QED
      BY <2>2, <3>3, <3>4 DEF Stored, NoHeartbeat
  <2> QED
    BY <2>1, <2>2
<1>7. HealthTypes'
  BY <1>1, <1>4, <1>5, <1>6 DEF HealthInv, HealthTypes, Stored, Passes
<1>8. TickedInv'
  <2>1. \A w \in Processes : loop'[w].pc # "beat"
    BY <1>2, <1>3
  <2>2. Stored => \E w \in Processes : since'[w] <= heartbeat'.age
    BY <1>1, <1>5, <1>6, OlderGrows DEF HealthInv, TickedInv
  <2> QED
    BY <1>6, <2>1, <2>2 DEF TickedInv
<1>9. InTimeInv'
  BY <1>1, <1>2, <1>3 DEF InTimeInv
<1>10. SteadyInv'
  <2>1. ASSUME NEW w \in Processes, OnItsWay(w), Stored PROVE OnItsWay(w)'
    <3>1. heartbeat.age \in Nat /\ heartbeat'.age \in Nat /\ heartbeat'.age <= heartbeat.age + 1
      BY <1>1, <1>6, <2>1, OlderGrows
    <3>2. loop[w].pc \in {"wait", "tick"} /\ loop[w].time \in Nat
      BY <1>1, <1>2, <2>1 DEF OnItsWay
    <3> QED
      BY <1>1, <1>3, <2>1, <3>1, <3>2 DEF OnItsWay
  <2> QED
    BY <1>6, <2>1 DEF HealthInv, SteadyInv, Passes
<1> QED
  BY <1>7, <1>8, <1>9, <1>10 DEF HealthInv

LEMMA HealthStep ==
  ASSUME HealthAssumed, HealthInv, [HealthNext]_(healthVars)
  PROVE  HealthInv'
<1>0. /\ loop \in [Processes -> [pc : {"wait", "tick", "beat", "stopped"}, time : Nat]]
      /\ Interval \in Nat /\ TickMax \in Nat
      /\ Stored => heartbeat.age \in Nat
  BY HealthNumbers DEF HealthInv, HealthTypes, Stored
<1>1. ASSUME NEW w \in Processes, StartTick(w) PROVE HealthInv'
  <2> DEFINE next == [pc |-> "tick", time |-> 0]
  <2>1. loop'[w] = next /\ loop[w].pc = "wait" /\ heartbeat' = heartbeat
    BY <1>0, <1>1 DEF StartTick
  <2>2. loop[w].time <= Interval /\ loop[w].time \in Nat
    BY <1>0, <2>1 DEF HealthInv, InTimeInv
  <2>3. Stored /\ OnItsWay(w) => OnItsWay(w)'
    BY <1>0, <2>1, <2>2 DEF OnItsWay
  <2>4. /\ next \in [pc : {"wait", "tick", "beat", "stopped"}, time : Nat]
        /\ next.pc = "tick" /\ next.time <= TickMax
    BY <1>0
  <2>5. /\ loop' = [loop EXCEPT ![w] = next] /\ since' = since
        /\ UNCHANGED <<skew, heartbeat, trouble>>
    BY <1>1 DEF StartTick
  <2> HIDE DEF next
  <2> QED
    BY <2>3, <2>4, <2>5, LoopInv
<1>2. ASSUME NEW w \in Processes, TickSucceeds(w) PROVE HealthInv'
  <2> DEFINE next == [pc |-> "beat", time |-> loop[w].time]
  <2>0. loop[w] \in [pc : {"wait", "tick", "beat", "stopped"}, time : Nat]
    BY <1>0
  <2>1. /\ loop' = [loop EXCEPT ![w] = next] /\ loop[w].pc = "tick"
        /\ next \in [pc : {"wait", "tick", "beat", "stopped"}, time : Nat]
        /\ heartbeat' = heartbeat
    <3>1. /\ loop' = [loop EXCEPT ![w] = [loop[w] EXCEPT !.pc = "beat"]]
          /\ loop[w].pc = "tick" /\ heartbeat' = heartbeat
      BY <1>2 DEF TickSucceeds
    <3>2. [loop[w] EXCEPT !.pc = "beat"] = next
      BY <2>0
    <3>3. next \in [pc : {"wait", "tick", "beat", "stopped"}, time : Nat]
      BY <2>0
    <3> QED
      BY <3>1, <3>2, <3>3
  <2>2. loop[w].time <= TickMax
    BY <2>1 DEF HealthInv, InTimeInv
  <2>3. loop'[w] = next
    BY <1>0, <2>1
  <2>4. Stored /\ OnItsWay(w) => OnItsWay(w)'
    BY <2>1, <2>3 DEF OnItsWay
  <2>5. next.pc = "beat" /\ next.time <= TickMax
    BY <2>2
  <2>6. since' = [since EXCEPT ![w] = 0] /\ UNCHANGED <<skew, heartbeat, trouble>>
    BY <1>2 DEF TickSucceeds
  <2> HIDE DEF next
  <2> QED
    BY <2>1, <2>4, <2>5, <2>6, LoopInv
<1>3. ASSUME NEW w \in Processes,
             TickFails(w) \/ BeatFails(w) \/ Stop(w)
      PROVE  HealthInv'
  BY <1>3, TroubleInv
  DEF TickFails, AfterFailure, BeatFails, Stop
<1>4. ASSUME NEW w \in Processes, Beat(w) PROVE HealthInv'
  BY <1>4, BeatInv
<1>5. ASSUME NEW w \in Processes, Start(w) PROVE HealthInv'
  <2> DEFINE next == [pc |-> "wait", time |-> Interval]
  <2>1. ~OnItsWay(w)
    BY <1>5 DEF Start, OnItsWay
  <2>2. /\ next \in [pc : {"wait", "tick", "beat", "stopped"}, time : Nat]
        /\ next.pc = "wait" /\ next.time <= Interval
    BY <1>0
  <2>3. /\ loop' = [loop EXCEPT ![w] = next] /\ since' = since
        /\ UNCHANGED <<skew, heartbeat, trouble>>
    BY <1>5 DEF Start
  <2> HIDE DEF next
  <2> QED
    BY <2>1, <2>2, <2>3, LoopInv
<1>6. CASE DatabaseDown \/ DatabaseUp \/ Migrate \/ UNCHANGED healthVars
  <2>1. UNCHANGED <<skew, loop, heartbeat, since>> /\ (trouble => trouble')
    BY <1>6 DEF DatabaseDown, DatabaseUp, Migrate, healthVars
  <2> QED
    BY <2>1 DEF HealthInv, HealthTypes, TickedInv, InTimeInv, SteadyInv, Stored, OnItsWay
<1>7. CASE Passes
  BY <1>7, PassesInv
<1> QED
  BY <1>1, <1>2, <1>3, <1>4, <1>5, <1>6, <1>7 DEF HealthNext

LEMMA HealthInvariant ==
  ASSUME HealthAssumed
  PROVE  HealthSpec => []HealthInv
<1>1. HealthInit => HealthInv
  BY HealthInitial
<1>2. HealthInv /\ [HealthNext]_(healthVars) => HealthInv'
  BY HealthStep
<1> QED
  BY <1>1, <1>2, PTL DEF HealthSpec

\* What the three checks of the probe amount to.
LEMMA ReadyChecks ==
  Ready <=> /\ database = "up" /\ migrations = "ok"
                   /\ Stored /\ assess_heartbeat(AgeSeen)
<1>1. DOMAIN Checks = {"database", "migrations", "worker_heartbeat"}
  BY DEF Checks
<1>2. Ready <=> /\ Checks.database = "ok"
                       /\ Checks.migrations = "ok"
                       /\ Checks.worker_heartbeat = "ok"
  BY <1>1 DEF Ready
<1>3. Checks.database = "ok" <=> database = "up"
  BY DEF Checks
<1>4. Checks.migrations = "ok" <=> database = "up" /\ migrations = "ok"
  BY DEF Checks
<1>5. ASSUME database = "up", migrations = "ok"
      PROVE  Checks.worker_heartbeat = "ok"
               <=> Stored /\ assess_heartbeat(AgeSeen)
  BY <1>5 DEF Checks, Stored
<1> QED
  BY <1>2, <1>3, <1>4, <1>5

\* The readiness probe is honest, for any number of workers, any settings the
\* worker accepts and any bounded disagreement of the clocks: ready means that
\* some worker lately finished a tick, and a service without trouble is ready.
THEOREM ProbeAlwaysHonest ==
  ASSUME SettingsAssumption, ClockAssumption
  PROVE  HealthSpec => []ProbeIsHonest
<1>0. HealthAssumed
  BY DEF HealthAssumed
<1>1. ASSUME HealthInv PROVE ReadyMeansWorking
  <2> SUFFICES ASSUME Ready
               PROVE  \E w \in Processes : since[w] <= Timeout + Spread
    BY DEF ReadyMeansWorking
  <2>1. Stored /\ AgeSeen <= Timeout
    BY ReadyChecks DEF assess_heartbeat
  <2>2. heartbeat.age \in Nat /\ heartbeat.skew \in Skews /\ skew[Probe] \in Skews
    BY <1>1, <2>1 DEF HealthInv, HealthTypes, Stored
  <2>3. heartbeat.skew - skew[Probe] <= Spread
    BY <1>0, <2>2, HealthNumbers
  <2>4. heartbeat.age <= Timeout + Spread
    <3>1. /\ heartbeat.age + skew[Probe] - heartbeat.skew <= Timeout
          /\ heartbeat.skew \in Int /\ skew[Probe] \in Int
          /\ Timeout \in Nat /\ Spread \in Nat
      BY <1>0, <2>1, <2>2, HealthNumbers DEF AgeSeen
    <3> QED
      BY <2>2, <2>3, <3>1
  <2>5. PICK w \in Processes : since[w] <= heartbeat.age
    BY <1>1, <2>1 DEF HealthInv, TickedInv
  <2>6. since[w] \in Nat
    BY <1>1 DEF HealthInv, HealthTypes
  <2> QED
    BY <1>0, <2>2, <2>4, <2>5, <2>6, HealthNumbers
<1>2. ASSUME HealthInv PROVE SteadyIsReady
  <2> SUFFICES ASSUME Stored, ~trouble, migrations = "ok", database = "up",
                      heartbeat.skew = skew[Probe], TickMax <= Timeout - Interval
               PROVE  Ready
    BY DEF SteadyIsReady, Stored
  <2>1. heartbeat.age \in Nat /\ heartbeat.skew \in Int
    BY <1>0, <1>2, HealthNumbers DEF HealthInv, HealthTypes, Stored
  <2>2. PICK w \in Processes : OnItsWay(w)
    BY <1>2 DEF HealthInv, SteadyInv
  <2>3. /\ loop[w].time \in Nat
        /\ loop[w].pc = "wait" => loop[w].time <= Interval
        /\ loop[w].pc \in {"tick", "beat"} => loop[w].time <= TickMax
    BY <1>2 DEF HealthInv, HealthTypes, InTimeInv
  <2>4. heartbeat.age <= Timeout
    BY <1>0, <2>1, <2>2, <2>3, HealthNumbers DEF OnItsWay
  <2>5. AgeSeen = heartbeat.age
    BY <2>1 DEF AgeSeen
  <2> QED
    BY <2>1, <2>4, <2>5, ReadyChecks DEF assess_heartbeat
<1>3. HealthInv => ProbeIsHonest
  BY <1>1, <1>2 DEF ProbeIsHonest
<1> QED
  BY <1>0, <1>3, HealthInvariant, PTL
=============================================================================
