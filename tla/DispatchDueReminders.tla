-------------------------- MODULE DispatchDueReminders --------------------------
(***************************************************************************)
(* The durable delivery of due reminders: DispatchDueReminders.dispatch    *)
(* run by any number of worker processes over one outbox, the operator's   *)
(* resolve_uncertain, and the provider the worker calls.                   *)
(*                                                                         *)
(* A tick of a worker is a sequence of transactions with provider I/O      *)
(* between them.  Each transaction is one action (PostgreSQL runs them     *)
(* SERIALIZABLE and they include the scheduler mirror); everything a       *)
(* worker carries from one transaction to the next is in worker[w].        *)
(* A worker may stop between any two of them: Abort is a crash, a          *)
(* serialization conflict, a lost connection or an ambiguous commit, all   *)
(* of which leave dispatch by an exception and lose the tick's state.      *)
(***************************************************************************)
EXTENDS OutboxRow, FiniteSets

CONSTANTS
  Workers,                \* the worker processes
  Messages,               \* message ranks in (created_at, message_id) order
  Kind,                   \* "ok" | "malformed" | "orphan" for each message
  Approvers,              \* workers started with approve_notifications
  MAX_DELIVERY_ATTEMPTS,
  RETRY_DELAYS,           \* delay after the n-th known transient failure
  RetryAfter,             \* provider Retry-After values, 0 for none
  LEASE_SECONDS,
  RELEASE_DELAY,          \* the 30 seconds of _release_before_io
  APPROVAL_TTL,
  NotifyAt,               \* due times a workflow may ask for
  MaxAborts               \* bound on Abort steps

Kinds == {"ok", "malformed", "orphan"}

ASSUME DispatchAssumption ==
  /\ Messages \subseteq Nat \ {0}
  /\ Kind \in [Messages -> Kinds]
  /\ Approvers \subseteq Workers
  /\ MAX_DELIVERY_ATTEMPTS \in Nat \ {0}
  /\ RETRY_DELAYS \in [1..(MAX_DELIVERY_ATTEMPTS - 1) -> Nat]
  /\ RetryAfter \subseteq Nat /\ 0 \in RetryAfter
  /\ LEASE_SECONDS \in Nat \ {0}
  /\ RELEASE_DELAY \in Nat
  /\ APPROVAL_TTL \in Nat
  /\ NotifyAt \subseteq Time
  /\ MaxAborts \in Nat

VARIABLES
  clock,      \* wall-clock time, read by every worker
  outbox,     \* assistant_outbox: one row per message
  reminders,  \* assistant_scheduled_reminders: the mirror of each row
  worker,     \* what each worker holds between two transactions
  aborts,     \* Abort steps so far
  called,     \* history: attempt keys passed to the provider, per message
  accepted,   \* history: attempt keys the provider delivered
  reopened,   \* history: attempts an operator sent back with "retry"
  attested    \* history: messages an operator resolved as "delivered"

history == <<called, accepted, reopened, attested>>
vars == <<clock, outbox, reminders, worker, aborts, history>>

-----------------------------------------------------------------------------
Outcome == {"none", "success", "known-transient", "permanent", "unknown-outcome"}

Pc == {"idle", "sweep", "claim", "authorize", "release", "malformed",
       "confirm", "send", "record"}

WorkerState ==
  [pc       : Pc,
   ran_at   : Time,
   message  : Messages \cup {0},
   token    : Nat,
   attempts : Nat,
   key      : Nat,         \* n of the idempotency key "<id>:attempt:<n>"
   result   : Outcome]

\* A worker between two ticks remembers nothing.
Idle ==
  [pc |-> "idle", ran_at |-> 0, message |-> 0, token |-> NoToken,
   attempts |-> 0, key |-> 0, result |-> "none"]

TypeOK ==
  /\ clock \in Time
  /\ outbox \in [Messages -> OutboxMessage]
  /\ reminders \in [Messages -> ScheduledReminder]
  /\ worker \in [Workers -> WorkerState]
  /\ aborts \in 0..MaxAborts
  /\ called \in [Messages -> SUBSET Nat]
  /\ accepted \in [Messages -> SUBSET Nat]
  /\ reopened \in [Messages -> SUBSET Nat]
  /\ attested \in SUBSET Messages

Init ==
  /\ clock = 0
  /\ outbox = [m \in Messages |-> NoRow]
  /\ reminders = [m \in Messages |-> NoReminder]
  /\ worker = [w \in Workers |-> Idle]
  /\ aborts = 0
  /\ called = [m \in Messages |-> {}]
  /\ accepted = [m \in Messages |-> {}]
  /\ reopened = [m \in Messages |-> {}]
  /\ attested = {}

-----------------------------------------------------------------------------
(* Helpers.                                                                *)

\* An orphan has no scheduler row: no subject, or a subject that names none.
HasReminder(m) == Kind[m] # "orphan"

\* Mutant of Store: the mirror is forgotten when a row becomes uncertain.
StoreForgetsUncertain(m, row) ==
  /\ outbox' = [outbox EXCEPT ![m] = row]
  /\ reminders' = [reminders EXCEPT ![m] =
                     IF HasReminder(m) /\ row.dispatch_status # "uncertain"
                     THEN mirror_delivery(row) ELSE @]

\* Store a row and, in the same transaction, its mirror.
Store(m, row) ==
  /\ outbox' = [outbox EXCEPT ![m] = row]
  /\ reminders' = [reminders EXCEPT ![m] =
                     IF HasReminder(m) THEN mirror_delivery(row) ELSE @]

\* The steps of a tick that are transactions on the worker's own row.
InTransaction == {"release", "malformed", "confirm", "record"}

\* Rows that a transaction of another worker may have locked; SKIP LOCKED
\* passes over them.
Contended(w) ==
  {m \in Messages : \E v \in Workers \ {w} :
     \/ worker[v].pc \in {"sweep", "claim"}
     \/ worker[v].pc \in InTransaction /\ worker[v].message = m}

\* ORDER BY created_at, message_id LIMIT 1 (claim_limit is 1).
Oldest(S, m) == m \in S /\ \A n \in S : m <= n

\* gen_random_uuid: a token that neither the row nor any worker has.  Tokens are
\* compared for equality only, so one that nobody holds any more can stand for
\* a new one; there is one more than the workers could hold.
Tokens == 1..(Cardinality(Workers) + 1)

FreshTokens(m) ==
  {t \in Tokens : /\ t # outbox[m].claim_token
                  /\ \A v \in Workers : worker[v].message = m => worker[v].token # t}

\* The approval the runtime policy issues at the start of the tick.
ApprovalValid(w) ==
  w \in Approvers /\ clock < worker[w].ran_at + APPROVAL_TTL

GoTo(w, pc) == worker' = [worker EXCEPT ![w].pc = pc]

EndTick(w) == worker' = [worker EXCEPT ![w] = Idle]

-----------------------------------------------------------------------------
(* The environment: time, and the workflow transaction that inserts a row. *)

Tick ==
  /\ clock < MaxTime
  /\ clock' = clock + 1
  /\ UNCHANGED <<outbox, reminders, worker, aborts, history>>

Enqueue(m) ==
  /\ outbox[m].dispatch_status = "absent"
  /\ \E notify_at \in NotifyAt : outbox' = [outbox EXCEPT ![m] = add(notify_at)]
  /\ reminders' = [reminders EXCEPT ![m] = IF HasReminder(m) THEN scheduled ELSE @]
  /\ UNCHANGED <<clock, worker, aborts, history>>

-----------------------------------------------------------------------------
(* One tick of worker w.                                                   *)

\* run_once reads the clock once; sweep, claim, lease and approval use it.
StartTick(w) ==
  /\ worker[w].pc = "idle"
  /\ worker' = [worker EXCEPT ![w].pc = "sweep", ![w].ran_at = clock]
  /\ UNCHANGED <<clock, outbox, reminders, aborts, history>>

\* Mutant of SweepExpiredSending: in-flight rows are left alone.
SweepNothing(w) ==
  /\ worker[w].pc = "sweep"
  /\ GoTo(w, "claim")
  /\ UNCHANGED <<clock, outbox, reminders, aborts, history>>

\* _sweep_expired_sending: one expired in-flight row becomes uncertain.
SweepExpiredSending(w) ==
  /\ worker[w].pc = "sweep"
  /\ \E locked \in SUBSET Contended(w) :
       LET expired == {m \in Messages \ locked :
                         is_expired_sending(outbox[m], worker[w].ran_at)}
       IN  \/ expired = {} /\ UNCHANGED <<outbox, reminders>>
           \/ \E m \in Messages : /\ Oldest(expired, m)
                                  /\ Store(m, mark_uncertain(outbox[m]))
  /\ GoTo(w, "claim")
  /\ UNCHANGED <<clock, aborts, history>>

\* _claim: lease the oldest due row.  A row without a reminder fails in the
\* same transaction; any other is mirrored and carried on.
Claim(w) ==
  /\ worker[w].pc = "claim"
  /\ \E locked \in SUBSET Contended(w) :
       LET due == {m \in Messages \ locked :
                     is_due(outbox[m], worker[w].ran_at)}
       IN  \/ /\ due = {}
              /\ EndTick(w)
              /\ UNCHANGED <<outbox, reminders>>
           \/ \E m \in Messages, token \in Tokens :
                LET claimed == claim(outbox[m], token,
                                     Later(worker[w].ran_at, LEASE_SECONDS))
                IN  /\ Oldest(due, m)
                    /\ Oldest(FreshTokens(m), token)
                    /\ \/ /\ ~HasReminder(m)
                          /\ Store(m, mark_claim_failed(claimed))
                          /\ EndTick(w)
                       \/ /\ HasReminder(m)
                          /\ Store(m, claimed)
                          /\ worker' = [worker EXCEPT ![w].pc       = "authorize",
                                                      ![w].message  = m,
                                                      ![w].token    = token,
                                                      ![w].attempts = claimed.attempts]
  /\ UNCHANGED <<clock, aborts, history>>

\* The attempt key, the approval for it and the request built from the row.
Authorize(w) ==
  /\ worker[w].pc = "authorize"
  /\ worker' = [worker EXCEPT
                  ![w].key = worker[w].attempts + 1,
                  ![w].pc  = IF ~ApprovalValid(w) THEN "release"
                             ELSE IF Kind[worker[w].message] = "malformed"
                                  THEN "malformed" ELSE "confirm"]
  /\ UNCHANGED <<clock, outbox, reminders, aborts, history>>

\* The status a transition of the worker's next transaction expects.
Expected(w) == IF worker[w].pc = "record" THEN "sending" ELSE "claimed"

\* The worker's claim is still the row's claim.
Holds(w) == Guarded(outbox[worker[w].message], Expected(w), worker[w].token)

\* _release_before_io, 30 seconds after the start of the tick.
ReleaseBeforeIO(w) ==
  LET m == worker[w].message
  IN  /\ worker[w].pc = "release"
      /\ Holds(w)
      /\ Store(m, release(outbox[m], Later(worker[w].ran_at, RELEASE_DELAY)))
      /\ EndTick(w)
      /\ UNCHANGED <<clock, aborts, history>>

RecordMalformed(w) ==
  /\ worker[w].pc = "malformed"
  /\ Holds(w)
  /\ Store(worker[w].message, mark_claim_failed(outbox[worker[w].message]))
  /\ EndTick(w)
  /\ UNCHANGED <<clock, aborts, history>>

\* _confirm_sending commits the I/O boundary; the lease is not looked at.
ConfirmSending(w) ==
  LET m == worker[w].message
  IN  /\ worker[w].pc = "confirm"
      /\ Holds(w)
      /\ Store(m, mark_sending(outbox[m]))
      /\ worker' = [worker EXCEPT ![w].pc       = "send",
                                  ![w].attempts = mark_sending(outbox[m]).attempts]
      /\ UNCHANGED <<clock, aborts, history>>

\* The transition finds another status or token: AssistantError ends the tick.
Fenced(w) ==
  /\ worker[w].pc \in InTransaction
  /\ ~Holds(w)
  /\ EndTick(w)
  /\ UNCHANGED <<clock, outbox, reminders, aborts, history>>

\* The provider: what the channel tool makes of its answer, and whether it
\* delivered.  A success answer is never false and a rejection (4xx, 429, 5xx)
\* means not delivered; a lost or garbled answer can mean either.
ProviderAnswer(result, delivered) ==
  /\ result = "success" => delivered
  /\ result \in {"known-transient", "permanent"} => ~delivered

\* notifications.send.  The channel tool checks the approval again, so one
\* that expired since Authorize raises before the provider is reached.
Send(w) ==
  LET m == worker[w].message
  IN  /\ worker[w].pc = "send"
      /\ \/ /\ ~ApprovalValid(w)
            /\ worker' = [worker EXCEPT ![w].pc = "record",
                                        ![w].result = "unknown-outcome"]
            /\ UNCHANGED <<called, accepted>>
         \/ /\ ApprovalValid(w)
            /\ called' = [called EXCEPT ![m] = @ \cup {worker[w].key}]
            /\ \E result \in Outcome \ {"none"}, delivered \in BOOLEAN :
                 /\ ProviderAnswer(result, delivered)
                 /\ accepted' = IF delivered
                                THEN [accepted EXCEPT ![m] = @ \cup {worker[w].key}]
                                ELSE accepted
                 /\ worker' = [worker EXCEPT ![w].pc = "record",
                                             ![w].result = result]
      /\ UNCHANGED <<clock, outbox, reminders, aborts, reopened, attested>>

\* RETRY_DELAYS[attempts - 1], or the provider's Retry-After if longer.
RetryAt(attempts, retry_after) ==
  Later(clock, IF retry_after > RETRY_DELAYS[attempts] THEN retry_after
               ELSE RETRY_DELAYS[attempts])

\* Mutant of Settled: a lost answer is retried like a transient failure.
SettledRetriesUnknown(w, retry_after) ==
  LET row == outbox[worker[w].message]
  IN  CASE worker[w].result = "success" -> mark_published(row)
        [] worker[w].result = "permanent" -> mark_failed(row)
        [] OTHER ->
             IF worker[w].attempts >= MAX_DELIVERY_ATTEMPTS THEN mark_failed(row)
             ELSE reschedule(row, RetryAt(worker[w].attempts, retry_after))

\* The row that the result of the attempt leads to.
Settled(w, retry_after) ==
  LET row == outbox[worker[w].message]
  IN  CASE worker[w].result = "success" -> mark_published(row)
        [] worker[w].result = "known-transient" ->
             IF worker[w].attempts >= MAX_DELIVERY_ATTEMPTS THEN mark_failed(row)
             ELSE reschedule(row, RetryAt(worker[w].attempts, retry_after))
        [] worker[w].result = "permanent" -> mark_failed(row)
        [] OTHER -> mark_uncertain(row)

\* _record_result, and _record_unknown for an exception or a mismatched answer.
RecordResult(w) ==
  /\ worker[w].pc = "record"
  /\ Holds(w)
  /\ \E retry_after \in RetryAfter :
       Store(worker[w].message, Settled(w, retry_after))
  /\ EndTick(w)
  /\ UNCHANGED <<clock, aborts, history>>

\* A crash, a rolled-back or ambiguous commit, or any other exception between
\* two transactions: the loop, or the next process, starts a new tick.
Abort(w) ==
  /\ worker[w].pc # "idle"
  /\ aborts < MaxAborts
  /\ aborts' = aborts + 1
  /\ EndTick(w)
  /\ UNCHANGED <<clock, outbox, reminders, history>>

-----------------------------------------------------------------------------
(* The operator: resolve_uncertain, from the CLI or the admin route.       *)

ResolveDelivered(m) ==
  /\ outbox[m].dispatch_status = "uncertain"
  /\ Store(m, resolve_uncertain_delivered(outbox[m]))
  /\ attested' = attested \cup {m}
  /\ UNCHANGED <<clock, worker, aborts, called, accepted, reopened>>

\* Mutant of ResolveRetry: the attempt limit is not checked.
ResolveRetryUnlimited(m) ==
  /\ outbox[m].dispatch_status = "uncertain"
  /\ Store(m, resolve_uncertain_retry(outbox[m], clock))
  /\ reopened' = [reopened EXCEPT ![m] = @ \cup {outbox[m].attempts}]
  /\ UNCHANGED <<clock, worker, aborts, called, accepted, attested>>

ResolveRetry(m) ==
  /\ outbox[m].dispatch_status = "uncertain"
  /\ outbox[m].attempts < MAX_DELIVERY_ATTEMPTS
  /\ Store(m, resolve_uncertain_retry(outbox[m], clock))
  /\ reopened' = [reopened EXCEPT ![m] = @ \cup {outbox[m].attempts}]
  /\ UNCHANGED <<clock, worker, aborts, called, accepted, attested>>

-----------------------------------------------------------------------------
WorkerStep(w) ==
  \/ StartTick(w)
  \/ SweepExpiredSending(w)
  \/ Claim(w)
  \/ Authorize(w)
  \/ ReleaseBeforeIO(w)
  \/ RecordMalformed(w)
  \/ ConfirmSending(w)
  \/ Send(w)
  \/ RecordResult(w)
  \/ Fenced(w)

Next ==
  \/ Tick
  \/ \E m \in Messages : Enqueue(m) \/ ResolveDelivered(m) \/ ResolveRetry(m)
  \/ \E w \in Workers : WorkerStep(w) \/ Abort(w)

Spec == Init /\ [][Next]_vars

\* Time passes and no worker stops for ever: the worker loop catches every
\* exception of a tick and starts the next one.
Fairness == WF_vars(Tick) /\ \A w \in Workers : WF_vars(WorkerStep(w))

FairSpec == Spec /\ Fairness

-----------------------------------------------------------------------------
(* Properties.                                                             *)

\* Every row the transitions produce satisfies the validator that the code
\* applies when it reads the row back (OutboxMessage.require_state_metadata
\* and the CHECK constraint of migration 0004).  In particular no row that was
\* ever sent reaches mark_claim_failed, which would be rejected for ever and
\* hold up every tick that claims it.
RowsReadable == \A m \in Messages : require_state_metadata(outbox[m])

\* The scheduler's copy of a delivery is the outbox row it mirrors, except that
\* a reminder nobody has claimed yet has no next_attempt_at of its own.
MirrorAgrees ==
  \A m \in Messages :
    HasReminder(m) /\ outbox[m].dispatch_status # "absent" =>
      \/ reminders[m] = mirror_delivery(outbox[m])
      \/ reminders[m] = scheduled /\ outbox[m] = add(outbox[m].next_attempt_at)

\* A row that may still be claimed has an attempt left, so no row is ever sent
\* more than MAX_DELIVERY_ATTEMPTS times and RETRY_DELAYS is never indexed out
\* of range, whatever mix of automatic and operator retries led to it.
AttemptsWithinLimit ==
  \A m \in Messages :
    /\ outbox[m].attempts <= MAX_DELIVERY_ATTEMPTS
    /\ outbox[m].dispatch_status \in {"pending", "claimed"} =>
         outbox[m].attempts < MAX_DELIVERY_ATTEMPTS

\* No idempotency key is handed to the provider twice: a worker about to call
\* it carries a key that no earlier call of any worker used.
AttemptKeyFresh ==
  \A w \in Workers :
    worker[w].pc = "send" => worker[w].key \notin called[worker[w].message]

\* "sending" is committed before the provider is called: each key the provider
\* saw is an attempt the outbox had already counted.
SendingCommittedBeforeCall ==
  \A m \in Messages : \A n \in called[m] : n \in 1..outbox[m].attempts

\* A delivery the provider made is never followed by an automatic resend: it is
\* the current attempt, whose status says that it may have been delivered, or
\* an operator answered "retry" for exactly that attempt.
NoSilentDuplicate ==
  \A m \in Messages : \A n \in accepted[m] :
    \/ n \in reopened[m]
    \/ /\ n = outbox[m].attempts
       /\ outbox[m].dispatch_status \in {"sending", "uncertain", "published"}

\* A final status tells the truth about the last attempt: "published" was
\* delivered unless an operator vouched for it, "failed" was not delivered.
FinalStatusHonest ==
  \A m \in Messages :
    /\ outbox[m].dispatch_status = "published" =>
         m \in attested \/ outbox[m].attempts \in accepted[m]
    /\ outbox[m].dispatch_status = "failed" =>
         outbox[m].attempts \notin accepted[m]

\* The dispatcher implements the delivery lifecycle.
Lifecycle ==
  INSTANCE DeliveryLifecycle
    WITH status      <- [m \in Messages |-> outbox[m].dispatch_status],
         attempts    <- [m \in Messages |-> outbox[m].attempts],
         MaxAttempts <- MAX_DELIVERY_ATTEMPTS

\* Every step of workers and operator is a step of DeliveryLifecycle.
ImplementsLifecycle == Lifecycle!Spec

\* Every requested notification is eventually published, failed, or handed to
\* the operator, however many malformed rows are queued before it and whatever
\* crashes interrupted it: nothing stays pending, claimed or sending for ever.
EventuallySettled ==
  \A m \in Messages :
    outbox[m].dispatch_status # "absent" ~>
      outbox[m].dispatch_status \in {"published", "failed", "uncertain"}

\* The runbook's rule for the legacy flag: a reminder is marked sent only after
\* the notification adapter accepted it.
SentOnlyAfterAccepted ==
  \A m \in Messages : reminders[m].sent => accepted[m] # {}
=============================================================================
