----------------------------- MODULE DispatchProofs -----------------------------
(***************************************************************************)
(* Proofs about DispatchDueReminders, for any number of workers, messages, *)
(* attempts, aborts and any delays.                                        *)
(*                                                                         *)
(* The argument is fencing.  Two workers never hold the same token for a   *)
(* message (ClaimsDistinct), so the row's token names at most one of them  *)
(* and tells how far that one has got (ClaimCurrent).  Therefore an        *)
(* attempt number belongs to one worker (KeysDistinct), and a worker whose *)
(* row went on without it can only still deliver an attempt that is        *)
(* recorded as possibly delivered or that the operator gave up             *)
(* (LateSendCovered).                                                      *)
(***************************************************************************)
EXTENDS DispatchDueReminders, TLAPS

\* Where a worker that has a claim can be, before and after the I/O boundary.
PreIO == {"authorize", "release", "malformed", "confirm"}
PostIO == {"send", "record"}
Busy == PreIO \cup PostIO

\* What a worker carries fits the message it claimed.
CarriesMessage ==
  \A w \in Workers :
    worker[w].pc \in Busy =>
      /\ worker[w].message \in Messages
      /\ worker[w].token # NoToken
      /\ HasReminder(worker[w].message)
      /\ worker[w].pc = "malformed" => Kind[worker[w].message] = "malformed"
      /\ worker[w].pc \in {"confirm", "send", "record"} =>
           Kind[worker[w].message] = "ok"

\* Two workers with a claim on one message have different tokens.
ClaimsDistinct ==
  \A v, w \in Workers :
    /\ v # w /\ worker[v].pc \in Busy /\ worker[w].pc \in Busy
    /\ worker[v].message = worker[w].message
    => worker[v].token # worker[w].token

\* A worker whose token is the row's knows the row's status and attempts.
ClaimCurrent ==
  \A w \in Workers :
    worker[w].pc \in Busy /\ outbox[worker[w].message].claim_token = worker[w].token =>
      /\ worker[w].pc \in PreIO => outbox[worker[w].message].dispatch_status = "claimed"
      /\ worker[w].pc \in PostIO => outbox[worker[w].message].dispatch_status = "sending"
      /\ worker[w].attempts = outbox[worker[w].message].attempts

\* Only a well-formed message is ever attempted.
OnlyGoodSent == \A m \in Messages : Kind[m] # "ok" => outbox[m].attempts = 0

\* The key of a worker is the number of the attempt it is making.
KeysCounted ==
  \A w \in Workers :
    /\ worker[w].pc \in PreIO \ {"authorize"} => worker[w].key = worker[w].attempts + 1
    /\ worker[w].pc \in PostIO =>
         /\ worker[w].key = worker[w].attempts
         /\ worker[w].key \in 1..outbox[worker[w].message].attempts

\* An attempt of a message belongs to one worker.
KeysDistinct ==
  \A v, w \in Workers :
    /\ v # w /\ worker[v].pc \in PostIO /\ worker[w].pc \in PostIO
    /\ worker[v].message = worker[w].message
    => worker[v].key # worker[w].key

\* An attempt the operator reopened is over once the next one begins.
ReopenedPast ==
  \A m \in Messages : \A n \in reopened[m] :
    /\ 1 <= n
    /\ \/ n < outbox[m].attempts
       \/ /\ n = outbox[m].attempts
          /\ outbox[m].dispatch_status \in {"pending", "claimed"}

\* What a send that has not happened yet will be recorded as.
LateSendCovered ==
  \A w \in Workers :
    worker[w].pc = "send" =>
      \/ worker[w].key \in reopened[worker[w].message]
      \/ /\ worker[w].key = outbox[worker[w].message].attempts
         /\ outbox[worker[w].message].dispatch_status
              \in {"sending", "uncertain", "published"}

\* The answer a worker is about to record is what happened.
ResultTrue ==
  \A w \in Workers :
    worker[w].pc = "record" =>
      /\ worker[w].result = "success" =>
           worker[w].key \in accepted[worker[w].message]
      /\ worker[w].result \in {"known-transient", "permanent"} =>
           worker[w].key \notin accepted[worker[w].message]

AcceptedCalled == \A m \in Messages : accepted[m] \subseteq called[m]

ClaimInv ==
  /\ CarriesMessage /\ ClaimsDistinct /\ ClaimCurrent /\ KeysCounted
  /\ OnlyGoodSent /\ RowsReadable /\ AttemptsWithinLimit

KeyInv == KeysDistinct /\ SendingCommittedBeforeCall /\ AttemptKeyFresh

HistoryInv ==
  /\ ReopenedPast /\ LateSendCovered /\ ResultTrue /\ AcceptedCalled
  /\ NoSilentDuplicate /\ FinalStatusHonest

-----------------------------------------------------------------------------
(* The transitions of OutboxRow, field by field.                           *)

\* A deadline is an instant of the axis.
LEMMA LaterType ==
  ASSUME NEW t \in Time, NEW d \in Nat
  PROVE  Later(t, d) \in Time
BY TimeAssumption DEF Later, Time

\* The statuses, errors and instants the transitions write.
LEMMA RowValues ==
  /\ {"pending", "claimed", "sending", "published", "failed", "uncertain"}
       \subseteq DeliveryStatus
  /\ {"none", "known", "unknown", "invalid_payload"} \subseteq LastError
  /\ 0 \in Time
  /\ NoToken \in Nat
BY TimeAssumption DEF DeliveryStatus, LastError, Time, NoToken

\* The absent row is a row.
LEMMA NoRowType == NoRow \in OutboxMessage
BY RowValues DEF NoRow, OutboxMessage

\* Every transition of PostgresOutbox leaves a row.
LEMMA RowTransitions ==
  ASSUME NEW row \in OutboxMessage, NEW t \in Time, NEW token \in Nat
  PROVE  /\ claim(row, token, t) \in OutboxMessage
         /\ mark_sending(row) \in OutboxMessage
         /\ mark_claim_failed(row) \in OutboxMessage
         /\ mark_published(row) \in OutboxMessage
         /\ release(row, t) \in OutboxMessage
         /\ reschedule(row, t) \in OutboxMessage
         /\ mark_failed(row) \in OutboxMessage
         /\ mark_uncertain(row) \in OutboxMessage
         /\ resolve_uncertain_delivered(row) \in OutboxMessage
         /\ resolve_uncertain_retry(row, t) \in OutboxMessage
         /\ add(t) \in OutboxMessage
<1> USE RowValues DEF OutboxMessage
<1>1. claim(row, token, t) \in OutboxMessage  BY DEF claim
<1>2. mark_sending(row) \in OutboxMessage
  <2>1. row.attempts + 1 \in Nat  OBVIOUS
  <2> QED  BY <2>1 DEF mark_sending
<1>3. Unclaimed(row) \in OutboxMessage  BY DEF Unclaimed
<1>4. mark_claim_failed(row) \in OutboxMessage  BY <1>3 DEF mark_claim_failed
<1>5. mark_published(row) \in OutboxMessage  BY <1>3 DEF mark_published
<1>6. release(row, t) \in OutboxMessage  BY <1>3 DEF release
<1>7. reschedule(row, t) \in OutboxMessage  BY <1>3 DEF reschedule
<1>8. mark_failed(row) \in OutboxMessage  BY <1>3 DEF mark_failed
<1>9. mark_uncertain(row) \in OutboxMessage  BY <1>3 DEF mark_uncertain
<1>10. resolve_uncertain_delivered(row) \in OutboxMessage
  BY DEF resolve_uncertain_delivered
<1>11. resolve_uncertain_retry(row, t) \in OutboxMessage  BY DEF resolve_uncertain_retry
<1>12. add(t) \in OutboxMessage  BY NoRowType DEF add
<1> QED  BY <1>1, <1>2, <1>4, <1>5, <1>6, <1>7, <1>8, <1>9, <1>10, <1>11, <1>12

\* The mirror of a row is a scheduler row.
LEMMA MirrorType ==
  /\ \A row \in OutboxMessage : mirror_delivery(row) \in ScheduledReminder
  /\ scheduled \in ScheduledReminder
  /\ NoReminder \in ScheduledReminder
<1> USE RowValues DEF ScheduledReminder
<1>1. NoReminder \in ScheduledReminder  BY DEF NoReminder
<1>2. scheduled \in ScheduledReminder  BY <1>1 DEF scheduled
<1>3. ASSUME NEW row \in OutboxMessage
      PROVE  mirror_delivery(row) \in ScheduledReminder
  <2>1. (row.dispatch_status # "pending") \in BOOLEAN  OBVIOUS
  <2> QED  BY <2>1 DEF mirror_delivery, OutboxMessage
<1> QED  BY <1>1, <1>2, <1>3

\* The three columns the fencing argument is about.
Columns(row, status, token, attempts) ==
  row.dispatch_status = status /\ row.claim_token = token /\ row.attempts = attempts

\* The status, token and attempt count each transition leaves.
LEMMA RowFields ==
  ASSUME NEW row \in OutboxMessage, NEW t \in Time, NEW token \in Nat
  PROVE  /\ Columns(claim(row, token, t), "claimed", token, row.attempts)
         /\ Columns(mark_sending(row), "sending", row.claim_token, row.attempts + 1)
         /\ Columns(mark_claim_failed(row), "failed", NoToken, row.attempts)
         /\ Columns(mark_published(row), "published", NoToken, row.attempts)
         /\ Columns(release(row, t), "pending", NoToken, row.attempts)
         /\ Columns(reschedule(row, t), "pending", NoToken, row.attempts)
         /\ Columns(mark_failed(row), "failed", NoToken, row.attempts)
         /\ Columns(mark_uncertain(row), "uncertain", NoToken, row.attempts)
         /\ Columns(resolve_uncertain_delivered(row), "published", row.claim_token, row.attempts)
         /\ Columns(resolve_uncertain_retry(row, t), "pending", row.claim_token, row.attempts)
         /\ Columns(add(t), "pending", NoToken, 0)
<1> USE DEF OutboxMessage, Unclaimed, Columns
<1>1. Columns(claim(row, token, t), "claimed", token, row.attempts)
  BY DEF claim
<1>2. Columns(mark_sending(row), "sending", row.claim_token, row.attempts + 1)
  BY DEF mark_sending
<1>3. Columns(mark_claim_failed(row), "failed", NoToken, row.attempts)
  BY DEF mark_claim_failed
<1>4. Columns(mark_published(row), "published", NoToken, row.attempts)
  BY DEF mark_published
<1>5. Columns(release(row, t), "pending", NoToken, row.attempts)
  BY DEF release
<1>6. Columns(reschedule(row, t), "pending", NoToken, row.attempts)
  BY DEF reschedule
<1>7. Columns(mark_failed(row), "failed", NoToken, row.attempts)
  BY DEF mark_failed
<1>8. Columns(mark_uncertain(row), "uncertain", NoToken, row.attempts)
  BY DEF mark_uncertain
<1>9. Columns(resolve_uncertain_delivered(row), "published", row.claim_token, row.attempts)
  BY DEF resolve_uncertain_delivered
<1>10. Columns(resolve_uncertain_retry(row, t), "pending", row.claim_token, row.attempts)
  BY DEF resolve_uncertain_retry
<1>11. Columns(add(t), "pending", NoToken, 0)
  BY DEF add, NoRow
<1> QED  BY <1>1, <1>2, <1>3, <1>4, <1>5, <1>6, <1>7, <1>8, <1>9, <1>10, <1>11

\* Each transition, applied where the code applies it, leaves a row that the
\* validator accepts.
LEMMA RowReadable ==
  ASSUME NEW row \in OutboxMessage, NEW t \in Time, NEW token \in Nat \ {NoToken},
         require_state_metadata(row)
  PROVE  /\ row.dispatch_status \in {"pending", "claimed"} =>
              require_state_metadata(claim(row, token, t))
         /\ row.dispatch_status = "claimed" =>
              /\ require_state_metadata(mark_sending(row))
              /\ require_state_metadata(release(row, t))
              /\ row.attempts = 0 => require_state_metadata(mark_claim_failed(row))
         /\ row.dispatch_status = "sending" =>
              /\ require_state_metadata(mark_published(row))
              /\ require_state_metadata(reschedule(row, t))
              /\ require_state_metadata(mark_failed(row))
              /\ require_state_metadata(mark_uncertain(row))
         /\ row.dispatch_status = "uncertain" =>
              /\ require_state_metadata(resolve_uncertain_delivered(row))
              /\ require_state_metadata(resolve_uncertain_retry(row, t))
         /\ require_state_metadata(add(t))
<1> USE DEF OutboxMessage, Unclaimed, require_state_metadata, NoToken
<1>1. row.dispatch_status \in {"pending", "claimed"} =>
        require_state_metadata(claim(row, token, t))
  BY DEF claim
<1>2. row.dispatch_status = "claimed" => require_state_metadata(mark_sending(row))
  BY DEF mark_sending
<1>3. row.dispatch_status = "claimed" => require_state_metadata(release(row, t))
  BY DEF release
<1>4. row.dispatch_status = "claimed" /\ row.attempts = 0 =>
        require_state_metadata(mark_claim_failed(row))
  BY DEF mark_claim_failed
<1>5. row.dispatch_status = "sending" => require_state_metadata(mark_published(row))
  BY DEF mark_published
<1>6. row.dispatch_status = "sending" => require_state_metadata(reschedule(row, t))
  BY DEF reschedule
<1>7. row.dispatch_status = "sending" => require_state_metadata(mark_failed(row))
  BY DEF mark_failed
<1>8. row.dispatch_status = "sending" => require_state_metadata(mark_uncertain(row))
  BY DEF mark_uncertain
<1>9. row.dispatch_status = "uncertain" =>
        require_state_metadata(resolve_uncertain_delivered(row))
  BY DEF resolve_uncertain_delivered
<1>10. row.dispatch_status = "uncertain" =>
        require_state_metadata(resolve_uncertain_retry(row, t))
  BY DEF resolve_uncertain_retry
<1>11. require_state_metadata(add(t))
  BY DEF add, NoRow
<1> QED  BY <1>1, <1>2, <1>3, <1>4, <1>5, <1>6, <1>7, <1>8, <1>9, <1>10, <1>11

-----------------------------------------------------------------------------
(* First part: types and claims.                                           *)

Fencing == TypeOK /\ ClaimInv

\* A step that leaves the rows alone and in which a worker at most gives up
\* its claim.
LEMMA WorkerLetsGo ==
  ASSUME ClaimInv, outbox' = outbox,
         \A v \in Workers : worker'[v] = worker[v] \/ worker'[v].pc \notin Busy
  PROVE  ClaimInv'
<1> USE DEF ClaimInv, Busy, PreIO, PostIO
<1>1. CarriesMessage'  BY DEF CarriesMessage, HasReminder
<1>2. ClaimsDistinct'  BY DEF ClaimsDistinct
<1>3. ClaimCurrent'  BY DEF ClaimCurrent
<1>4. KeysCounted'  BY DEF KeysCounted
<1>5. OnlyGoodSent' /\ RowsReadable' /\ AttemptsWithinLimit'
  BY DEF OnlyGoodSent, RowsReadable, AttemptsWithinLimit
<1> QED  BY <1>1, <1>2, <1>3, <1>4, <1>5

\* A step that takes the claim off a row, in which a worker at most gives up
\* its claim.
LEMMA RowLetsGo ==
  ASSUME TypeOK, ClaimInv, NEW m \in Messages, NEW row \in OutboxMessage,
         outbox' = [outbox EXCEPT ![m] = row],
         row.claim_token = NoToken,
         row.attempts = outbox[m].attempts,
         row.dispatch_status # "claimed",
         row.dispatch_status = "pending" => row.attempts < MAX_DELIVERY_ATTEMPTS,
         require_state_metadata(row),
         \A v \in Workers : worker'[v] = worker[v] \/ worker'[v].pc \notin Busy
  PROVE  ClaimInv'
<1> USE DEF ClaimInv, TypeOK, Busy, PreIO, PostIO
<1>1. CarriesMessage'  BY DEF CarriesMessage, HasReminder
<1>2. ClaimsDistinct'  BY DEF ClaimsDistinct
<1>3. ClaimCurrent'
  BY DEF ClaimCurrent, CarriesMessage
<1>4. KeysCounted'
  BY DEF KeysCounted, CarriesMessage
<1>5. OnlyGoodSent'  BY DEF OnlyGoodSent
<1>6. RowsReadable'  BY DEF RowsReadable
<1>7. AttemptsWithinLimit'  BY DEF AttemptsWithinLimit
<1> QED  BY <1>1, <1>2, <1>3, <1>4, <1>5, <1>6, <1>7

\* The four ways an attempt ends.
LEMMA SendingEnds ==
  ASSUME NEW row \in OutboxMessage, require_state_metadata(row),
         row.dispatch_status = "sending"
  PROVE  /\ \A final \in {mark_published(row), mark_failed(row), mark_uncertain(row)} :
              /\ final \in OutboxMessage
              /\ require_state_metadata(final)
              /\ final.claim_token = NoToken
              /\ final.attempts = row.attempts
         /\ \A t \in Time :
              /\ reschedule(row, t) \in OutboxMessage
              /\ require_state_metadata(reschedule(row, t))
              /\ Columns(reschedule(row, t), "pending", NoToken, row.attempts)
         /\ mark_published(row).dispatch_status = "published"
         /\ mark_failed(row).dispatch_status = "failed"
         /\ mark_uncertain(row).dispatch_status = "uncertain"
<1>1. 0 \in Time /\ 1 \in Nat \ {NoToken}  BY RowValues DEF NoToken
<1>2. /\ mark_published(row) \in OutboxMessage
      /\ mark_failed(row) \in OutboxMessage
      /\ mark_uncertain(row) \in OutboxMessage
  BY <1>1, RowTransitions
<1>3. /\ require_state_metadata(mark_published(row))
      /\ require_state_metadata(mark_failed(row))
      /\ require_state_metadata(mark_uncertain(row))
  BY <1>1, RowReadable
<1>4. /\ Columns(mark_published(row), "published", NoToken, row.attempts)
      /\ Columns(mark_failed(row), "failed", NoToken, row.attempts)
      /\ Columns(mark_uncertain(row), "uncertain", NoToken, row.attempts)
  BY <1>1, RowFields
<1>5. ASSUME NEW t \in Time
      PROVE  /\ reschedule(row, t) \in OutboxMessage
             /\ require_state_metadata(reschedule(row, t))
             /\ Columns(reschedule(row, t), "pending", NoToken, row.attempts)
  BY <1>1, RowTransitions, RowFields, RowReadable
<1> QED  BY <1>2, <1>3, <1>4, <1>5 DEF Columns

\* What recording a result does to the row of the worker that holds it.
LEMMA SettledRow ==
  ASSUME TypeOK, ClaimInv, NEW w \in Workers, NEW retry_after \in RetryAfter,
         worker[w].pc = "record", Holds(w)
  PROVE  LET row   == outbox[worker[w].message]
             final == Settled(w, retry_after)
         IN  /\ final \in OutboxMessage
             /\ require_state_metadata(final)
             /\ final.claim_token = NoToken
             /\ final.attempts = row.attempts
             /\ final.dispatch_status \in {"published", "failed", "pending", "uncertain"}
             /\ final.dispatch_status = "pending" => row.attempts < MAX_DELIVERY_ATTEMPTS
             /\ final.dispatch_status = "published" => worker[w].result = "success"
             /\ final.dispatch_status \in {"pending", "failed"} =>
                  worker[w].result \in {"known-transient", "permanent"}
<1> DEFINE row == outbox[worker[w].message]
           final == Settled(w, retry_after)
<1>1. /\ worker[w].message \in Messages
      /\ row \in OutboxMessage
      /\ require_state_metadata(row)
      /\ row.dispatch_status = "sending"
      /\ worker[w].attempts = row.attempts
      /\ worker[w].attempts >= 1
      /\ worker[w].attempts \in Nat
  BY DEF TypeOK, ClaimInv, CarriesMessage, ClaimCurrent, KeysCounted, RowsReadable, Busy,
         PreIO, PostIO, Holds, Guarded, Expected, WorkerState
<1>2. ASSUME worker[w].attempts < MAX_DELIVERY_ATTEMPTS
      PROVE  RetryAt(worker[w].attempts, retry_after) \in Time
  <2>1. worker[w].attempts \in 1..(MAX_DELIVERY_ATTEMPTS - 1)
    BY <1>1, <1>2, DispatchAssumption
  <2>2. RETRY_DELAYS[worker[w].attempts] \in Nat /\ retry_after \in Nat
    BY <2>1, DispatchAssumption
  <2> QED  BY <2>2, LaterType DEF RetryAt, TypeOK
<1> HIDE DEF final, row
<1>3. CASE worker[w].result = "success"
  <2>1. final = mark_published(row)  BY <1>3 DEF Settled, final, row
  <2> QED  BY <1>1, <1>3, <2>1, SendingEnds DEF final, row
<1>4. CASE worker[w].result = "permanent"
  <2>1. final = mark_failed(row)  BY <1>4 DEF Settled, final, row
  <2> QED  BY <1>1, <1>4, <2>1, SendingEnds DEF final, row
<1>5. CASE worker[w].result = "known-transient"
  <2>1. CASE worker[w].attempts >= MAX_DELIVERY_ATTEMPTS
    <3>1. final = mark_failed(row)  BY <1>5, <2>1 DEF Settled, final, row
    <3> QED  BY <1>1, <1>5, <3>1, SendingEnds DEF final, row
  <2>2. CASE worker[w].attempts < MAX_DELIVERY_ATTEMPTS
    <3>1. PICK t \in Time : final = reschedule(row, t)
      BY <1>1, <1>2, <1>5, <2>2, DispatchAssumption DEF Settled, final, row
    <3> QED  BY <1>1, <1>5, <2>2, <3>1, SendingEnds DEF final, row, Columns
  <2> QED  BY <1>1, <2>1, <2>2, DispatchAssumption
<1>6. CASE worker[w].result \notin {"success", "permanent", "known-transient"}
  <2>1. final = mark_uncertain(row)  BY <1>6 DEF Settled, final, row
  <2> QED  BY <1>1, <1>6, <2>1, SendingEnds DEF final, row
<1> QED  BY <1>3, <1>4, <1>5, <1>6

\* Storing a row and its mirror keeps the types of both tables.
LEMMA StoreType ==
  ASSUME TypeOK, NEW m \in Messages, NEW row \in OutboxMessage, Store(m, row)
  PROVE  /\ outbox' = [outbox EXCEPT ![m] = row]
         /\ outbox' \in [Messages -> OutboxMessage]
         /\ reminders' \in [Messages -> ScheduledReminder]
BY MirrorType DEF TypeOK, Store

\* A worker that ends its tick, or moves along without a claim, stays typed.
LEMMA WorkerTypes ==
  ASSUME TypeOK, NEW w \in Workers
  PROVE  /\ EndTick(w) =>
              /\ worker' \in [Workers -> WorkerState]
              /\ worker'[w].pc = "idle"
              /\ \A v \in Workers \ {w} : worker'[v] = worker[v]
         /\ \A pc \in Pc : GoTo(w, pc) =>
              /\ worker' \in [Workers -> WorkerState]
              /\ worker'[w].pc = pc
              /\ \A v \in Workers \ {w} : worker'[v] = worker[v]
<1>1. Idle \in WorkerState  BY RowValues DEF Idle, WorkerState, Pc, Outcome
<1>2. Idle.pc = "idle"  BY DEF Idle
<1>3. ASSUME EndTick(w)
      PROVE  /\ worker' \in [Workers -> WorkerState]
             /\ worker'[w].pc = "idle"
             /\ \A v \in Workers \ {w} : worker'[v] = worker[v]
  BY <1>1, <1>2, <1>3 DEF EndTick, TypeOK
<1>4. ASSUME NEW pc \in Pc, GoTo(w, pc)
      PROVE  /\ worker' \in [Workers -> WorkerState]
             /\ worker'[w].pc = pc
             /\ \A v \in Workers \ {w} : worker'[v] = worker[v]
  <2>1. [worker[w] EXCEPT !.pc = pc] \in WorkerState  BY DEF TypeOK, WorkerState
  <2> QED  BY <1>4, <2>1 DEF GoTo, TypeOK, WorkerState
<1> QED  BY <1>3, <1>4

\* The initial state satisfies the first part.
LEMMA FencingInit == Init => Fencing
<1> SUFFICES ASSUME Init PROVE Fencing  OBVIOUS
<1>1. Idle \in WorkerState /\ Idle.pc = "idle"
  BY RowValues DEF Idle, WorkerState, Pc, Outcome
<1>3. TypeOK
  BY <1>1, NoRowType, MirrorType, RowValues, DispatchAssumption DEF Init, TypeOK
<1>4. \A w \in Workers : worker[w].pc \notin Busy
  BY <1>1 DEF Init, Busy, PreIO, PostIO
<1>5. CarriesMessage /\ ClaimsDistinct /\ ClaimCurrent
  BY <1>4 DEF CarriesMessage, ClaimsDistinct, ClaimCurrent
<1>6. KeysCounted  BY <1>4 DEF KeysCounted, Busy
<1>7. \A m \in Messages : outbox[m] = NoRow  BY DEF Init
<1>8. NoRow.attempts = 0 /\ NoRow.dispatch_status = "absent"  BY DEF NoRow
<1>2. 0 < MAX_DELIVERY_ATTEMPTS /\ 0 <= MAX_DELIVERY_ATTEMPTS  BY DispatchAssumption
<1>9. OnlyGoodSent /\ AttemptsWithinLimit
  BY <1>2, <1>7, <1>8 DEF OnlyGoodSent, AttemptsWithinLimit
<1>10. RowsReadable
  BY <1>7, <1>8 DEF RowsReadable, require_state_metadata
<1> QED  BY <1>3, <1>5, <1>6, <1>9, <1>10 DEF Fencing, ClaimInv

\* A worker that claims a row gets a token nobody else holds.
LEMMA ClaimTaken ==
  ASSUME Fencing, NEW w \in Workers, NEW m \in Messages, NEW row \in OutboxMessage,
         outbox' = [outbox EXCEPT ![m] = row],
         outbox[m].dispatch_status \in {"pending", "claimed"},
         require_state_metadata(row),
         row.dispatch_status = "claimed",
         row.attempts = outbox[m].attempts,
         row.claim_token \in FreshTokens(m),
         HasReminder(m),
         \A v \in Workers \ {w} : worker'[v] = worker[v],
         worker'[w].pc = "authorize",
         worker'[w].message = m,
         worker'[w].token = row.claim_token,
         worker'[w].attempts = row.attempts
  PROVE  ClaimInv'
<1> DEFINE token == row.claim_token
<1>1. token # NoToken  BY DEF FreshTokens, Tokens, NoToken
<1>2. \A v \in Workers : worker[v].message = m => worker[v].token # token
  BY DEF FreshTokens
<1>3. /\ outbox'[m] = row
      /\ \A n \in Messages \ {m} : outbox'[n] = outbox[n]
  BY DEF Fencing, TypeOK
<1> HIDE DEF token
<1> USE DEF Fencing, ClaimInv, Busy, PreIO, PostIO
<1>4. CarriesMessage'
  BY <1>1 DEF CarriesMessage, HasReminder, token
<1>5. ClaimsDistinct'
  <2> SUFFICES ASSUME NEW u \in Workers, NEW v \in Workers, u # v,
                      worker'[u].pc \in Busy, worker'[v].pc \in Busy,
                      worker'[u].message = worker'[v].message
               PROVE  worker'[u].token # worker'[v].token
    BY DEF ClaimsDistinct
  <2>1. CASE u = w  BY <1>2, <2>1 DEF token
  <2>2. CASE v = w  BY <1>2, <2>2 DEF token
  <2>3. CASE u # w /\ v # w  BY <2>3 DEF ClaimsDistinct
  <2> QED  BY <2>1, <2>2, <2>3
<1>6. ClaimCurrent'
  <2> SUFFICES ASSUME NEW v \in Workers, worker'[v].pc \in Busy,
                      outbox'[worker'[v].message].claim_token = worker'[v].token
               PROVE  /\ worker'[v].pc \in PreIO =>
                           outbox'[worker'[v].message].dispatch_status = "claimed"
                      /\ worker'[v].pc \in PostIO =>
                           outbox'[worker'[v].message].dispatch_status = "sending"
                      /\ worker'[v].attempts = outbox'[worker'[v].message].attempts
    BY DEF ClaimCurrent
  <2>1. CASE v = w  BY <1>3, <2>1
  <2>2. CASE v # w
    <3>1. worker'[v] = worker[v] /\ worker[v].message \in Messages
      BY <2>2 DEF CarriesMessage
    <3>2. worker[v].message # m  BY <1>2, <1>3, <3>1 DEF token
    <3> QED  BY <1>3, <3>1, <3>2 DEF ClaimCurrent
  <2> QED  BY <2>1, <2>2
<1>7. KeysCounted'
  <2> SUFFICES ASSUME NEW v \in Workers
               PROVE  /\ worker'[v].pc \in PreIO \ {"authorize"} =>
                           worker'[v].key = worker'[v].attempts + 1
                      /\ worker'[v].pc \in PostIO =>
                           /\ worker'[v].key = worker'[v].attempts
                           /\ worker'[v].key \in 1..outbox'[worker'[v].message].attempts
    BY DEF KeysCounted
  <2>1. CASE v = w  BY <2>1
  <2>2. CASE v # w
    <3>1. worker'[v] = worker[v]  BY <2>2
    <3>2. worker[v].message \in Messages =>
            outbox'[worker[v].message].attempts = outbox[worker[v].message].attempts
      BY <1>3
    <3> QED  BY <3>1, <3>2 DEF KeysCounted, CarriesMessage
  <2> QED  BY <2>1, <2>2
<1>8. OnlyGoodSent'  BY <1>3 DEF OnlyGoodSent
<1>9. RowsReadable'  BY <1>3 DEF RowsReadable
<1>10. AttemptsWithinLimit'  BY <1>3 DEF AttemptsWithinLimit
<1> QED  BY <1>4, <1>5, <1>6, <1>7, <1>8, <1>9, <1>10

\* A worker that moves on with its claim and leaves the rows alone.
LEMMA ClaimCarried ==
  ASSUME Fencing, NEW w \in Workers, outbox' = outbox,
         worker' \in [Workers -> WorkerState],
         \A v \in Workers \ {w} : worker'[v] = worker[v],
         worker'[w].message = worker[w].message,
         worker'[w].token = worker[w].token,
         worker'[w].attempts = worker[w].attempts,
         \/ /\ worker[w].pc = "authorize"
            /\ worker'[w].pc \in {"release", "malformed", "confirm"}
            /\ worker'[w].key = worker[w].attempts + 1
            /\ worker'[w].pc = "malformed" => Kind[worker[w].message] = "malformed"
            /\ worker'[w].pc = "confirm" => Kind[worker[w].message] # "malformed"
         \/ /\ worker[w].pc = "send"
            /\ worker'[w].pc = "record"
            /\ worker'[w].key = worker[w].key
  PROVE  ClaimInv'
<1> USE DEF Fencing, ClaimInv, Busy, PreIO, PostIO
<1>1. CarriesMessage'
  <2>1. worker[w].message \in Messages => Kind[worker[w].message] \in Kinds
    BY DispatchAssumption
  <2> QED  BY <2>1 DEF CarriesMessage, HasReminder, Kinds
<1>2. ClaimsDistinct'  BY DEF ClaimsDistinct
<1>3. ClaimCurrent'  BY DEF ClaimCurrent
<1>4. KeysCounted'  BY DEF KeysCounted
<1>5. OnlyGoodSent' /\ RowsReadable' /\ AttemptsWithinLimit'
  BY DEF OnlyGoodSent, RowsReadable, AttemptsWithinLimit
<1> QED  BY <1>1, <1>2, <1>3, <1>4, <1>5

\* What ConfirmSending does, column by column.
LEMMA ConfirmEffect ==
  ASSUME Fencing, NEW w \in Workers, ConfirmSending(w)
  PROVE  LET m   == worker[w].message
             row == mark_sending(outbox[m])
         IN  /\ m \in Messages /\ Kind[m] = "ok"
             /\ outbox[m].dispatch_status = "claimed"
             /\ outbox[m].claim_token = worker[w].token
             /\ outbox[m].attempts \in Nat
             /\ row \in OutboxMessage
             /\ require_state_metadata(row)
             /\ Columns(row, "sending", worker[w].token, outbox[m].attempts + 1)
             /\ outbox' = [outbox EXCEPT ![m] = row]
             /\ outbox'[m] = row
             /\ \A n \in Messages \ {m} : outbox'[n] = outbox[n]
             /\ worker' \in [Workers -> WorkerState]
             /\ worker'[w].pc = "send"
             /\ worker'[w].message = m
             /\ worker'[w].token = worker[w].token
             /\ worker'[w].attempts = row.attempts
             /\ worker'[w].key = row.attempts
             /\ \A v \in Workers \ {w} : worker'[v] = worker[v]
<1> DEFINE m   == worker[w].message
           row == mark_sending(outbox[m])
<1>1. /\ worker[w].pc = "confirm" /\ worker[w].pc # "record"
      /\ outbox[m].dispatch_status = "claimed"
      /\ outbox[m].claim_token = worker[w].token
  BY DEF ConfirmSending, Holds, Expected, Guarded
<1>2. m \in Messages /\ Kind[m] = "ok"
  BY <1>1 DEF Fencing, ClaimInv, CarriesMessage, Busy, PreIO
<1>3. /\ outbox[m] \in OutboxMessage
      /\ require_state_metadata(outbox[m])
      /\ outbox[m].attempts \in Nat
  BY <1>2 DEF Fencing, TypeOK, ClaimInv, RowsReadable, OutboxMessage
<1>4. 0 \in Time /\ 1 \in Nat \ {NoToken}  BY RowValues DEF NoToken
<1>5. /\ row \in OutboxMessage
      /\ require_state_metadata(row)
      /\ Columns(row, "sending", worker[w].token, outbox[m].attempts + 1)
  BY <1>1, <1>3, <1>4, RowTransitions, RowFields, RowReadable DEF Columns
<1>6. outbox' = [outbox EXCEPT ![m] = row]
  BY DEF ConfirmSending, Store
<1>7. outbox'[m] = row /\ \A n \in Messages \ {m} : outbox'[n] = outbox[n]
  BY <1>2, <1>6 DEF Fencing, TypeOK
<1>8. worker' = [worker EXCEPT ![w].pc = "send", ![w].attempts = row.attempts]
  BY DEF ConfirmSending
<1>9. row.attempts \in Nat  BY <1>5 DEF OutboxMessage
<1> HIDE DEF row
<1>10. worker' \in [Workers -> WorkerState]
  <2>1. [worker[w] EXCEPT !.pc = "send", !.attempts = row.attempts] \in WorkerState
    BY <1>9 DEF Fencing, TypeOK, WorkerState, Pc
  <2> QED  BY <1>8, <2>1 DEF Fencing, TypeOK, WorkerState
<1>11. /\ worker'[w].pc = "send"
       /\ worker'[w].message = m
       /\ worker'[w].token = worker[w].token
       /\ worker'[w].attempts = row.attempts
       /\ worker'[w].key = worker[w].key
       /\ \A v \in Workers \ {w} : worker'[v] = worker[v]
  BY <1>8 DEF Fencing, TypeOK, WorkerState
<1>12. worker[w].key = row.attempts
  BY <1>1, <1>2, <1>3, <1>5
  DEF Fencing, ClaimInv, ClaimCurrent, KeysCounted, Columns, Busy, PreIO, PostIO
<1> QED  BY <1>1, <1>2, <1>3, <1>5, <1>6, <1>7, <1>10, <1>11, <1>12 DEF row

\* Crossing the I/O boundary keeps the claims apart.
LEMMA ConfirmFences ==
  ASSUME Fencing, NEW w \in Workers, ConfirmSending(w)
  PROVE  ClaimInv'
<1> DEFINE m   == worker[w].message
           row == mark_sending(outbox[m])
<1>1. /\ m \in Messages /\ Kind[m] = "ok"
      /\ outbox[m].dispatch_status = "claimed"
      /\ outbox[m].claim_token = worker[w].token
      /\ outbox[m].attempts \in Nat
      /\ require_state_metadata(row)
      /\ Columns(row, "sending", worker[w].token, outbox[m].attempts + 1)
      /\ outbox'[m] = row
      /\ \A n \in Messages \ {m} : outbox'[n] = outbox[n]
      /\ worker'[w].pc = "send"
      /\ worker'[w].message = m
      /\ worker'[w].token = worker[w].token
      /\ worker'[w].attempts = row.attempts
      /\ worker'[w].key = row.attempts
      /\ \A v \in Workers \ {w} : worker'[v] = worker[v]
      /\ worker[w].pc = "confirm"
  BY ConfirmEffect DEF ConfirmSending
<1> HIDE DEF row
<1> USE DEF Fencing, ClaimInv, Busy, PreIO, PostIO, Columns
<1>2. CarriesMessage'  BY <1>1 DEF CarriesMessage, HasReminder
<1>3. ClaimsDistinct'  BY <1>1 DEF ClaimsDistinct
<1>4. ClaimCurrent'
  <2> SUFFICES ASSUME NEW v \in Workers, worker'[v].pc \in Busy,
                      outbox'[worker'[v].message].claim_token = worker'[v].token
               PROVE  /\ worker'[v].pc \in PreIO =>
                           outbox'[worker'[v].message].dispatch_status = "claimed"
                      /\ worker'[v].pc \in PostIO =>
                           outbox'[worker'[v].message].dispatch_status = "sending"
                      /\ worker'[v].attempts = outbox'[worker'[v].message].attempts
    BY DEF ClaimCurrent
  <2>1. CASE v = w  BY <1>1, <2>1
  <2>2. CASE v # w
    <3>1. worker'[v] = worker[v] /\ worker[v].message \in Messages
      BY <1>1, <2>2 DEF CarriesMessage
    <3>2. worker[v].message # m  BY <1>1, <2>2, <3>1 DEF ClaimsDistinct
    <3> QED  BY <1>1, <3>1, <3>2 DEF ClaimCurrent
  <2> QED  BY <2>1, <2>2
<1>5. KeysCounted'
  <2> SUFFICES ASSUME NEW v \in Workers
               PROVE  /\ worker'[v].pc \in PreIO \ {"authorize"} =>
                           worker'[v].key = worker'[v].attempts + 1
                      /\ worker'[v].pc \in PostIO =>
                           /\ worker'[v].key = worker'[v].attempts
                           /\ worker'[v].key \in 1..outbox'[worker'[v].message].attempts
    BY DEF KeysCounted
  <2>1. CASE v = w  BY <1>1, <2>1
  <2>2. CASE v # w
    <3>1. worker'[v] = worker[v]  BY <1>1, <2>2
    <3>2. \A n \in Messages : \A k \in 1..outbox[n].attempts : k \in 1..outbox'[n].attempts
      BY <1>1 DEF TypeOK, OutboxMessage
    <3> QED  BY <3>1, <3>2 DEF KeysCounted, CarriesMessage
  <2> QED  BY <2>1, <2>2
<1>6. OnlyGoodSent'  BY <1>1 DEF OnlyGoodSent
<1>7. RowsReadable'  BY <1>1 DEF RowsReadable
<1>8. AttemptsWithinLimit'
  BY <1>1, DispatchAssumption DEF AttemptsWithinLimit
<1> QED  BY <1>2, <1>3, <1>4, <1>5, <1>6, <1>7, <1>8

\* A claim sets the lease end, the token and the status, and nothing else.
LEMMA ClaimFences ==
  ASSUME Fencing, NEW w \in Workers, Claim(w)
  PROVE  Fencing'
<1> USE DEF Fencing
<1>1. /\ worker[w].pc = "claim"
      /\ UNCHANGED <<clock, aborts, called, accepted, reopened, attested>>
  BY DEF Claim, history
<1>2. CASE EndTick(w) /\ UNCHANGED <<outbox, reminders>>
  BY <1>1, <1>2, WorkerTypes, WorkerLetsGo DEF TypeOK, Busy, PreIO, PostIO
<1>3. ASSUME NEW m \in Messages, NEW token \in Tokens,
             is_due(outbox[m], worker[w].ran_at), token \in FreshTokens(m),
             NEW until \in Time,
             \/ /\ ~HasReminder(m)
                /\ Store(m, mark_claim_failed(claim(outbox[m], token, until)))
                /\ EndTick(w)
             \/ /\ HasReminder(m)
                /\ Store(m, claim(outbox[m], token, until))
                /\ worker' = [worker EXCEPT ![w].pc       = "authorize",
                                            ![w].message  = m,
                                            ![w].token    = token,
                                            ![w].attempts =
                                               claim(outbox[m], token, until).attempts]
      PROVE  Fencing'
  <2> DEFINE row == claim(outbox[m], token, until)
  <2>1. /\ token \in Nat \ {NoToken}
        /\ outbox[m] \in OutboxMessage
        /\ require_state_metadata(outbox[m])
        /\ outbox[m].dispatch_status \in {"pending", "claimed"}
    BY <1>3 DEF Tokens, NoToken, TypeOK, ClaimInv, RowsReadable, is_due
  <2>2. /\ row \in OutboxMessage
        /\ require_state_metadata(row)
        /\ Columns(row, "claimed", token, outbox[m].attempts)
    BY <2>1, RowTransitions, RowFields, RowReadable
  <2> HIDE DEF row
  <2>3. CASE ~HasReminder(m) /\ Store(m, mark_claim_failed(row)) /\ EndTick(w)
    <3> DEFINE failed == mark_claim_failed(row)
    <3>1. row.attempts = 0
      BY <2>2, <2>3 DEF ClaimInv, OnlyGoodSent, HasReminder, Columns
    <3>2. /\ failed \in OutboxMessage
          /\ require_state_metadata(failed)
          /\ Columns(failed, "failed", NoToken, row.attempts)
      BY <2>1, <2>2, <3>1, RowTransitions, RowFields, RowReadable DEF Columns
    <3> HIDE DEF failed
    <3>3. Store(m, failed)  BY <2>3 DEF failed
    <3>4. ClaimInv'
      BY <2>2, <2>3, <3>2, <3>3, StoreType, WorkerTypes, RowLetsGo
      DEF Columns, Busy, PreIO, PostIO
    <3> QED  BY <1>1, <2>3, <3>2, <3>3, <3>4, StoreType, WorkerTypes DEF TypeOK
  <2>4. CASE /\ HasReminder(m) /\ Store(m, row)
             /\ worker' = [worker EXCEPT ![w].pc       = "authorize",
                                         ![w].message  = m,
                                         ![w].token    = token,
                                         ![w].attempts = row.attempts]
    <3>1. row.attempts \in Nat  BY <2>2 DEF OutboxMessage
    <3>2. /\ worker'[w].pc = "authorize"
          /\ worker'[w].message = m
          /\ worker'[w].token = token
          /\ worker'[w].attempts = row.attempts
          /\ \A v \in Workers \ {w} : worker'[v] = worker[v]
      BY <2>4 DEF TypeOK, WorkerState
    <3>3. worker' \in [Workers -> WorkerState]
      <4>1. [worker[w] EXCEPT !.pc = "authorize", !.message = m, !.token = token,
                              !.attempts = row.attempts] \in WorkerState
        BY <2>1, <3>1 DEF TypeOK, WorkerState, Pc
      <4> QED  BY <2>4, <4>1 DEF TypeOK, WorkerState
    <3>4. ClaimInv'
      BY <1>3, <2>1, <2>2, <2>4, <3>2, StoreType, ClaimTaken DEF Columns
    <3> QED  BY <1>1, <2>2, <2>4, <3>3, <3>4, StoreType DEF TypeOK
  <2> QED  BY <1>3, <2>3, <2>4 DEF row
<1>4. Later(worker[w].ran_at, LEASE_SECONDS) \in Time
  BY LaterType, DispatchAssumption DEF TypeOK, WorkerState
<1> QED  BY <1>2, <1>3, <1>4 DEF Claim, Oldest

\* The sweep ends the claim of an in-flight row.
LEMMA SweepFences ==
  ASSUME Fencing, NEW w \in Workers, SweepExpiredSending(w)
  PROVE  Fencing'
<1> USE DEF Fencing
<1>1. /\ GoTo(w, "claim")
      /\ UNCHANGED <<clock, aborts, called, accepted, reopened, attested>>
  BY DEF SweepExpiredSending, history
<1>2. /\ worker' \in [Workers -> WorkerState]
      /\ \A v \in Workers : worker'[v] = worker[v] \/ worker'[v].pc \notin Busy
  <2>1. "claim" \in Pc /\ "claim" \notin Busy  BY DEF Pc, Busy, PreIO, PostIO
  <2> QED  BY <1>1, <2>1, WorkerTypes
<1>3. CASE UNCHANGED <<outbox, reminders>>
  BY <1>1, <1>2, <1>3, WorkerLetsGo DEF TypeOK
<1>4. ASSUME NEW m \in Messages, outbox[m].dispatch_status = "sending",
             Store(m, mark_uncertain(outbox[m]))
      PROVE  Fencing'
  <2> DEFINE row == mark_uncertain(outbox[m])
  <2>1. outbox[m] \in OutboxMessage /\ require_state_metadata(outbox[m])
    BY DEF TypeOK, ClaimInv, RowsReadable
  <2>2. /\ row \in OutboxMessage
        /\ require_state_metadata(row)
        /\ row.claim_token = NoToken
        /\ row.attempts = outbox[m].attempts
        /\ row.dispatch_status = "uncertain"
    BY <1>4, <2>1, SendingEnds
  <2> HIDE DEF row
  <2>3. Store(m, row)  BY <1>4 DEF row
  <2>4. ClaimInv'  BY <1>2, <2>2, <2>3, StoreType, RowLetsGo
  <2> QED  BY <1>1, <1>2, <2>2, <2>3, <2>4, StoreType DEF TypeOK
<1> QED  BY <1>3, <1>4 DEF SweepExpiredSending, Oldest, is_expired_sending

\* A worker that holds its claim and gives the row back, rejects it or records
\* its result.
LEMMA HolderLetsGo ==
  ASSUME Fencing, NEW w \in Workers,
         ReleaseBeforeIO(w) \/ RecordMalformed(w) \/ RecordResult(w)
  PROVE  LET m == worker[w].message
         IN  \E row \in OutboxMessage :
               /\ m \in Messages
               /\ Store(m, row)
               /\ EndTick(w)
               /\ UNCHANGED <<clock, aborts, called, accepted, reopened, attested>>
               /\ require_state_metadata(row)
               /\ row.claim_token = NoToken
               /\ row.attempts = outbox[m].attempts
               /\ outbox[m].claim_token = worker[w].token
               /\ worker[w].attempts = outbox[m].attempts
               /\ \/ /\ outbox[m].dispatch_status = "claimed"
                     /\ row.dispatch_status = "pending"
                     /\ worker[w].pc = "release"
                  \/ /\ outbox[m].dispatch_status = "claimed"
                     /\ row.dispatch_status = "failed"
                     /\ row.attempts = 0
                     /\ worker[w].pc = "malformed"
                  \/ /\ outbox[m].dispatch_status = "sending"
                     /\ row.dispatch_status
                          \in {"published", "failed", "pending", "uncertain"}
                     /\ row.dispatch_status = "pending" =>
                          row.attempts < MAX_DELIVERY_ATTEMPTS
                     /\ row.dispatch_status = "published" => worker[w].result = "success"
                     /\ row.dispatch_status \in {"pending", "failed"} =>
                          worker[w].result \in {"known-transient", "permanent"}
                     /\ worker[w].pc = "record"
<1> USE DEF Fencing
<1> DEFINE m == worker[w].message
<1>1. /\ worker[w].pc \in {"release", "malformed", "record"}
      /\ Holds(w)
      /\ EndTick(w)
      /\ UNCHANGED <<clock, aborts, called, accepted, reopened, attested>>
  BY DEF ReleaseBeforeIO, RecordMalformed, RecordResult, history
<1>2. /\ m \in Messages
      /\ outbox[m] \in OutboxMessage
      /\ require_state_metadata(outbox[m])
      /\ outbox[m].claim_token = worker[w].token
      /\ worker[w].attempts = outbox[m].attempts
      /\ outbox[m].dispatch_status = IF worker[w].pc = "record" THEN "sending" ELSE "claimed"
  BY <1>1 DEF TypeOK, ClaimInv, CarriesMessage, ClaimCurrent, RowsReadable, Busy, PreIO,
              PostIO, Holds, Expected, Guarded
<1>3. 1 \in Nat \ {NoToken} /\ 0 \in Time  BY RowValues DEF NoToken
<1>4. CASE ReleaseBeforeIO(w)
  <2> DEFINE next == Later(worker[w].ran_at, RELEASE_DELAY)
             row  == release(outbox[m], next)
  <2>1. next \in Time  BY LaterType, DispatchAssumption DEF TypeOK, WorkerState
  <2>2. worker[w].pc = "release" /\ Store(m, row)  BY <1>4 DEF ReleaseBeforeIO
  <2> HIDE DEF next
  <2>3. /\ row \in OutboxMessage
        /\ require_state_metadata(row)
        /\ Columns(row, "pending", NoToken, outbox[m].attempts)
    BY <1>2, <1>3, <2>1, <2>2, RowTransitions, RowFields, RowReadable
  <2> HIDE DEF row
  <2> QED  BY <1>1, <1>2, <2>2, <2>3 DEF Columns
<1>5. CASE RecordMalformed(w)
  <2> DEFINE row == mark_claim_failed(outbox[m])
  <2>1. worker[w].pc = "malformed" /\ Store(m, row)  BY <1>5 DEF RecordMalformed
  <2>2. outbox[m].attempts = 0
    BY <1>2, <2>1 DEF ClaimInv, CarriesMessage, OnlyGoodSent, Busy, PreIO
  <2>3. /\ row \in OutboxMessage
        /\ require_state_metadata(row)
        /\ Columns(row, "failed", NoToken, outbox[m].attempts)
    BY <1>2, <1>3, <2>1, <2>2, RowTransitions, RowFields, RowReadable
  <2> HIDE DEF row
  <2> QED  BY <1>1, <1>2, <2>1, <2>2, <2>3 DEF Columns
<1>6. CASE RecordResult(w)
  <2>1. PICK retry_after \in RetryAfter : Store(m, Settled(w, retry_after))
    BY <1>6 DEF RecordResult
  <2>2. worker[w].pc = "record"  BY <1>6 DEF RecordResult
  <2> QED  BY <1>1, <1>2, <2>1, <2>2, SettledRow
<1> QED  BY <1>4, <1>5, <1>6

\* Every step preserves the first part.
LEMMA FencingNext == Fencing /\ [Next]_vars => Fencing'
<1> SUFFICES ASSUME Fencing, [Next]_vars PROVE Fencing'  OBVIOUS
<1> USE DEF Fencing
<1>1. CASE UNCHANGED vars
  BY <1>1, WorkerLetsGo DEF vars, history, TypeOK
<1>2. CASE Tick
  <2>1. clock' \in Time  BY <1>2, TimeAssumption DEF Tick, TypeOK, Time
  <2>2. UNCHANGED <<outbox, reminders, worker, aborts, called, accepted, reopened, attested>>
    BY <1>2 DEF Tick, history
  <2> QED  BY <2>1, <2>2, WorkerLetsGo DEF TypeOK
<1>3. ASSUME NEW m \in Messages, Enqueue(m) PROVE Fencing'
  <2>1. PICK t \in Time : outbox' = [outbox EXCEPT ![m] = add(t)]
    BY <1>3, DispatchAssumption DEF Enqueue
  <2>2. add(t) \in OutboxMessage /\ Columns(add(t), "pending", NoToken, 0)
    BY NoRowType, RowValues, RowTransitions, RowFields
  <2>3. require_state_metadata(add(t))
    BY DEF require_state_metadata, add, NoRow, NoToken
  <2>4. outbox[m].attempts = 0
    BY <1>3 DEF Enqueue, ClaimInv, RowsReadable, require_state_metadata, NoRow
  <2>5. 0 < MAX_DELIVERY_ATTEMPTS  BY DispatchAssumption
  <2>6. UNCHANGED <<clock, worker, aborts, called, accepted, reopened, attested>>
    BY <1>3 DEF Enqueue, history
  <2>7. ClaimInv'
    BY <2>1, <2>2, <2>3, <2>4, <2>5, <2>6, RowLetsGo DEF Columns
  <2>8. reminders' \in [Messages -> ScheduledReminder]
    BY <1>3, MirrorType DEF Enqueue, TypeOK
  <2> QED  BY <2>1, <2>2, <2>6, <2>7, <2>8 DEF TypeOK
<1>4. ASSUME NEW m \in Messages, ResolveDelivered(m) \/ ResolveRetry(m) PROVE Fencing'
  <2>1. /\ outbox[m] \in OutboxMessage
        /\ require_state_metadata(outbox[m])
        /\ outbox[m].dispatch_status = "uncertain"
        /\ outbox[m].claim_token = NoToken
    BY <1>4 DEF TypeOK, ClaimInv, RowsReadable, require_state_metadata, ResolveDelivered,
                ResolveRetry
  <2>2. clock \in Time /\ 1 \in Nat \ {NoToken}  BY DEF TypeOK, NoToken
  <2>3. PICK row \in OutboxMessage :
          /\ Store(m, row)
          /\ require_state_metadata(row)
          /\ row.claim_token = NoToken
          /\ row.attempts = outbox[m].attempts
          /\ row.dispatch_status \in {"pending", "published"}
          /\ row.dispatch_status = "pending" => row.attempts < MAX_DELIVERY_ATTEMPTS
    <3>1. CASE ResolveDelivered(m)
      <4>1. Store(m, resolve_uncertain_delivered(outbox[m]))
        BY <3>1 DEF ResolveDelivered
      <4>2. /\ resolve_uncertain_delivered(outbox[m]) \in OutboxMessage
            /\ require_state_metadata(resolve_uncertain_delivered(outbox[m]))
            /\ Columns(resolve_uncertain_delivered(outbox[m]), "published", NoToken,
                       outbox[m].attempts)
        BY <2>1, <2>2, RowTransitions, RowFields, RowReadable
      <4> QED  BY <4>1, <4>2 DEF Columns
    <3>2. CASE ResolveRetry(m)
      <4>1. /\ Store(m, resolve_uncertain_retry(outbox[m], clock))
            /\ outbox[m].attempts < MAX_DELIVERY_ATTEMPTS
        BY <3>2 DEF ResolveRetry
      <4>2. /\ resolve_uncertain_retry(outbox[m], clock) \in OutboxMessage
            /\ require_state_metadata(resolve_uncertain_retry(outbox[m], clock))
            /\ Columns(resolve_uncertain_retry(outbox[m], clock), "pending", NoToken,
                       outbox[m].attempts)
        BY <2>1, <2>2, RowTransitions, RowFields, RowReadable
      <4> QED  BY <4>1, <4>2 DEF Columns
    <3> QED  BY <1>4, <3>1, <3>2
  <2>4. /\ UNCHANGED <<clock, worker, aborts, called, accepted>>
        /\ reopened' \in [Messages -> SUBSET Nat]
        /\ attested' \in SUBSET Messages
    <3>1. outbox[m].attempts \in Nat  BY <2>1 DEF OutboxMessage
    <3> QED  BY <1>4, <3>1 DEF ResolveDelivered, ResolveRetry, TypeOK
  <2>5. ClaimInv'  BY <2>3, <2>4, StoreType, RowLetsGo
  <2> QED  BY <2>3, <2>4, <2>5, StoreType DEF TypeOK
<1>5. ASSUME NEW w \in Workers, StartTick(w) PROVE Fencing'
  <2>1. UNCHANGED <<clock, outbox, reminders, aborts, called, accepted, reopened, attested>>
    BY <1>5 DEF StartTick, history
  <2>2. worker' \in [Workers -> WorkerState]
    <3>1. [worker[w] EXCEPT !.pc = "sweep", !.ran_at = clock] \in WorkerState
      BY DEF TypeOK, WorkerState, Pc
    <3> QED  BY <1>5, <3>1 DEF StartTick, TypeOK, WorkerState
  <2>3. \A v \in Workers : worker'[v] = worker[v] \/ worker'[v].pc \notin Busy
    BY <1>5 DEF StartTick, TypeOK, WorkerState, Busy, PreIO, PostIO
  <2> QED  BY <2>1, <2>2, <2>3, WorkerLetsGo DEF TypeOK
<1>6. ASSUME NEW w \in Workers, SweepExpiredSending(w) PROVE Fencing'
  BY <1>6, SweepFences
<1>7. ASSUME NEW w \in Workers, Claim(w) PROVE Fencing'
  BY <1>7, ClaimFences
<1>8. ASSUME NEW w \in Workers, Authorize(w) PROVE Fencing'
  <2>1. UNCHANGED <<clock, outbox, reminders, aborts, called, accepted, reopened, attested>>
    BY <1>8 DEF Authorize, history
  <2>2. PICK pc \in {"release", "malformed", "confirm"} :
          /\ worker' = [worker EXCEPT ![w].key = worker[w].attempts + 1, ![w].pc = pc]
          /\ pc = "malformed" => Kind[worker[w].message] = "malformed"
          /\ pc = "confirm" => Kind[worker[w].message] # "malformed"
    BY <1>8 DEF Authorize
  <2>3. worker[w].attempts + 1 \in Nat  BY DEF TypeOK, WorkerState
  <2>4. worker' \in [Workers -> WorkerState]
    <3>1. [worker[w] EXCEPT !.key = worker[w].attempts + 1, !.pc = pc] \in WorkerState
      BY <2>3 DEF TypeOK, WorkerState, Pc
    <3> QED  BY <2>2, <3>1 DEF TypeOK, WorkerState
  <2>5. /\ worker'[w].pc = pc
        /\ worker'[w].key = worker[w].attempts + 1
        /\ worker'[w].message = worker[w].message
        /\ worker'[w].token = worker[w].token
        /\ worker'[w].attempts = worker[w].attempts
        /\ \A v \in Workers \ {w} : worker'[v] = worker[v]
    BY <2>2 DEF TypeOK, WorkerState
  <2>6. worker[w].pc = "authorize"  BY <1>8 DEF Authorize
  <2>7. ClaimInv'  BY <2>1, <2>2, <2>4, <2>5, <2>6, ClaimCarried
  <2> QED  BY <2>1, <2>4, <2>7 DEF TypeOK
<1>9. ASSUME NEW w \in Workers,
             ReleaseBeforeIO(w) \/ RecordMalformed(w) \/ RecordResult(w)
      PROVE  Fencing'
  <2> DEFINE m == worker[w].message
  <2>1. PICK row \in OutboxMessage :
          /\ m \in Messages
          /\ Store(m, row)
          /\ EndTick(w)
          /\ UNCHANGED <<clock, aborts, called, accepted, reopened, attested>>
          /\ require_state_metadata(row)
          /\ row.claim_token = NoToken
          /\ row.attempts = outbox[m].attempts
          /\ row.dispatch_status # "claimed"
          /\ row.dispatch_status = "pending" =>
               \/ outbox[m].dispatch_status = "claimed"
               \/ row.attempts < MAX_DELIVERY_ATTEMPTS
    BY <1>9, HolderLetsGo
  <2>2. row.dispatch_status = "pending" => row.attempts < MAX_DELIVERY_ATTEMPTS
    BY <2>1 DEF ClaimInv, AttemptsWithinLimit
  <2>3. ClaimInv'
    BY <2>1, <2>2, StoreType, WorkerTypes, RowLetsGo DEF Busy, PreIO, PostIO
  <2> QED  BY <2>1, <2>3, StoreType, WorkerTypes DEF TypeOK
<1>10. ASSUME NEW w \in Workers, ConfirmSending(w) PROVE Fencing'
  <2>1. UNCHANGED <<clock, aborts, called, accepted, reopened, attested>>
    BY <1>10 DEF ConfirmSending, history
  <2>2. Store(worker[w].message, mark_sending(outbox[worker[w].message]))
    BY <1>10 DEF ConfirmSending
  <2> QED  BY <1>10, <2>1, <2>2, ConfirmEffect, ConfirmFences, StoreType DEF TypeOK
<1>11. ASSUME NEW w \in Workers, Send(w) PROVE Fencing'
  <2>1. UNCHANGED <<clock, outbox, reminders, aborts, reopened, attested>>
    BY <1>11 DEF Send
  <2>2. PICK result \in Outcome :
          worker' = [worker EXCEPT ![w].pc = "record", ![w].result = result]
    BY <1>11 DEF Send, ProviderAnswer, Outcome
  <2>3. worker' \in [Workers -> WorkerState]
    <3>1. [worker[w] EXCEPT !.pc = "record", !.result = result] \in WorkerState
      BY DEF TypeOK, WorkerState, Pc
    <3> QED  BY <2>2, <3>1 DEF TypeOK, WorkerState
  <2>4. /\ worker'[w].pc = "record"
        /\ worker'[w].key = worker[w].key
        /\ worker'[w].message = worker[w].message
        /\ worker'[w].token = worker[w].token
        /\ worker'[w].attempts = worker[w].attempts
        /\ \A v \in Workers \ {w} : worker'[v] = worker[v]
    BY <2>2 DEF TypeOK, WorkerState
  <2>5. worker[w].pc = "send"  BY <1>11 DEF Send
  <2>6. ClaimInv'  BY <2>1, <2>3, <2>4, <2>5, ClaimCarried
  <2>7. called' \in [Messages -> SUBSET Nat] /\ accepted' \in [Messages -> SUBSET Nat]
    <3>1. worker[w].key \in Nat  BY DEF TypeOK, WorkerState
    <3> QED  BY <1>11, <3>1 DEF Send, TypeOK
  <2> QED  BY <2>1, <2>3, <2>6, <2>7 DEF TypeOK
<1>12. ASSUME NEW w \in Workers, Fenced(w) PROVE Fencing'
  <2>1. /\ EndTick(w)
        /\ UNCHANGED <<clock, outbox, reminders, aborts, called, accepted, reopened, attested>>
    BY <1>12 DEF Fenced, history
  <2> QED  BY <2>1, WorkerTypes, WorkerLetsGo DEF TypeOK, Busy, PreIO, PostIO
<1>13. ASSUME NEW w \in Workers, Abort(w) PROVE Fencing'
  <2>1. /\ EndTick(w)
        /\ UNCHANGED <<clock, outbox, reminders, called, accepted, reopened, attested>>
    BY <1>13 DEF Abort, history
  <2>2. aborts' \in 0..MaxAborts  BY <1>13, DispatchAssumption DEF Abort, TypeOK
  <2> QED  BY <2>1, <2>2, WorkerTypes, WorkerLetsGo DEF TypeOK, Busy, PreIO, PostIO
<1> QED
  BY <1>1, <1>2, <1>3, <1>4, <1>5, <1>6, <1>7, <1>8, <1>9, <1>10, <1>11, <1>12, <1>13
  DEF Next, WorkerStep

\* The rows, the mirror and what every worker carries keep their types.
THEOREM TypeCorrect == Spec => []TypeOK
<1>1. Spec => []Fencing
  BY FencingInit, FencingNext, PTL DEF Spec
<1> QED  BY <1>1, PTL DEF Fencing

\* No reachable row is one the validator of OutboxMessage would refuse.
THEOREM RowsAlwaysReadable == Spec => []RowsReadable
<1>1. Spec => []Fencing
  BY FencingInit, FencingNext, PTL DEF Spec
<1> QED  BY <1>1, PTL DEF Fencing, ClaimInv

\* A claimable row has an attempt left, and none has more than the limit.
THEOREM AttemptsBounded == Spec => []AttemptsWithinLimit
<1>1. Spec => []Fencing
  BY FencingInit, FencingNext, PTL DEF Spec
<1> QED  BY <1>1, PTL DEF Fencing, ClaimInv

-----------------------------------------------------------------------------
(* Second part: attempt keys and what became of each attempt.              *)

Delivery == KeyInv /\ HistoryInv

MaybeDelivered == {"sending", "uncertain", "published"}
Claimable == {"pending", "claimed"}

\* The initial state satisfies the second part.
LEMMA DeliveryInit == Init => Delivery
<1> SUFFICES ASSUME Init PROVE Delivery  OBVIOUS
<1>1. \A w \in Workers : worker[w].pc = "idle"  BY DEF Init, Idle
<1>2. \A m \in Messages : /\ called[m] = {} /\ accepted[m] = {} /\ reopened[m] = {}
                          /\ outbox[m].dispatch_status = "absent"
  BY DEF Init, NoRow
<1>3. KeyInv
  BY <1>1, <1>2
  DEF KeyInv, KeysDistinct, SendingCommittedBeforeCall, AttemptKeyFresh, PostIO
<1>4. ReopenedPast /\ LateSendCovered /\ ResultTrue
  BY <1>1, <1>2 DEF ReopenedPast, LateSendCovered, ResultTrue
<1>5. AcceptedCalled /\ NoSilentDuplicate /\ FinalStatusHonest
  BY <1>1, <1>2 DEF AcceptedCalled, NoSilentDuplicate, FinalStatusHonest
<1> QED  BY <1>3, <1>4, <1>5 DEF Delivery, HistoryInv

\* A step that touches neither the rows nor the histories, in which no worker
\* enters the part of the tick after the I/O boundary.
LEMMA QuietStep ==
  ASSUME Delivery,
         UNCHANGED <<outbox, called, accepted, reopened, attested>>,
         \A v \in Workers : worker'[v] = worker[v] \/ worker'[v].pc \notin PostIO
  PROVE  Delivery'
<1> USE DEF Delivery, KeyInv, HistoryInv, PostIO
<1>1. KeysDistinct'  BY DEF KeysDistinct
<1>2. SendingCommittedBeforeCall'  BY DEF SendingCommittedBeforeCall
<1>3. AttemptKeyFresh'  BY DEF AttemptKeyFresh
<1>4. ReopenedPast'  BY DEF ReopenedPast
<1>5. LateSendCovered'  BY DEF LateSendCovered
<1>6. ResultTrue'  BY DEF ResultTrue
<1>7. AcceptedCalled' /\ NoSilentDuplicate' /\ FinalStatusHonest'
  BY DEF AcceptedCalled, NoSilentDuplicate, FinalStatusHonest
<1> QED  BY <1>1, <1>2, <1>3, <1>4, <1>5, <1>6, <1>7

\* A step that changes the status of one row and counts no attempt: a status
\* that admits a delivery is left only when there was none and none can come.
LEMMA StatusStep ==
  ASSUME Fencing, Delivery, NEW m \in Messages, NEW row \in OutboxMessage,
         outbox' = [outbox EXCEPT ![m] = row],
         row.attempts = outbox[m].attempts,
         UNCHANGED <<called, accepted, reopened>>,
         attested \subseteq attested',
         \A v \in Workers : worker'[v] = worker[v] \/ worker'[v].pc \notin PostIO,
         outbox[m].dispatch_status \in MaybeDelivered /\ row.dispatch_status \notin MaybeDelivered =>
           /\ row.attempts \notin accepted[m]
           /\ \A v \in Workers : worker'[v].pc = "send" /\ worker'[v].message = m =>
                worker'[v].key # row.attempts,
         outbox[m].dispatch_status \in Claimable /\ row.dispatch_status \notin Claimable =>
           row.attempts = 0,
         row.dispatch_status = "published" =>
           m \in attested' \/ row.attempts \in accepted[m],
         row.dispatch_status = "failed" => row.attempts \notin accepted[m]
  PROVE  Delivery'
<1>1. /\ outbox'[m] = row
      /\ \A n \in Messages \ {m} : outbox'[n] = outbox[n]
  BY DEF Fencing, TypeOK
<1>2. \A n \in Messages : outbox'[n].attempts = outbox[n].attempts  BY <1>1
<1>3. \A v \in Workers : worker[v].pc \in PostIO => worker[v].message \in Messages
  BY DEF Fencing, ClaimInv, CarriesMessage, Busy
<1> USE DEF Delivery, KeyInv, HistoryInv, PostIO
<1>4. KeysDistinct'  BY DEF KeysDistinct
<1>5. SendingCommittedBeforeCall'  BY <1>2 DEF SendingCommittedBeforeCall
<1>6. AttemptKeyFresh'  BY DEF AttemptKeyFresh
<1>7. ReopenedPast'
  <2> SUFFICES ASSUME NEW n \in Messages, NEW k \in reopened[n]
               PROVE  /\ 1 <= k
                      /\ \/ k < outbox'[n].attempts
                         \/ /\ k = outbox'[n].attempts
                            /\ outbox'[n].dispatch_status \in Claimable
    BY DEF ReopenedPast, Claimable
  <2>1. /\ 1 <= k
        /\ \/ k < outbox[n].attempts
           \/ k = outbox[n].attempts /\ outbox[n].dispatch_status \in Claimable
    BY DEF ReopenedPast, Claimable
  <2>2. CASE n = m
    <3>1. k = row.attempts => row.attempts # 0  BY <2>1
    <3> QED  BY <1>1, <2>1, <2>2, <3>1
  <2> QED  BY <1>1, <2>1, <2>2
<1>8. LateSendCovered'
  <2> SUFFICES ASSUME NEW v \in Workers, worker'[v].pc = "send"
               PROVE  \/ worker'[v].key \in reopened[worker'[v].message]
                      \/ /\ worker'[v].key = outbox'[worker'[v].message].attempts
                         /\ outbox'[worker'[v].message].dispatch_status \in MaybeDelivered
    BY DEF LateSendCovered, MaybeDelivered
  <2>1. worker'[v] = worker[v] /\ worker[v].message \in Messages  BY <1>3
  <2>2. \/ worker[v].key \in reopened[worker[v].message]
        \/ /\ worker[v].key = outbox[worker[v].message].attempts
           /\ outbox[worker[v].message].dispatch_status \in MaybeDelivered
    BY <2>1 DEF LateSendCovered, MaybeDelivered
  <2>3. CASE worker[v].message = m  BY <1>1, <2>1, <2>2, <2>3
  <2>4. CASE worker[v].message # m  BY <1>1, <2>1, <2>2, <2>4
  <2> QED  BY <2>3, <2>4
<1>9. ResultTrue'  BY DEF ResultTrue
<1>10. AcceptedCalled'  BY DEF AcceptedCalled
<1>11. NoSilentDuplicate'
  <2> SUFFICES ASSUME NEW n \in Messages, NEW k \in accepted[n]
               PROVE  \/ k \in reopened[n]
                      \/ /\ k = outbox'[n].attempts
                         /\ outbox'[n].dispatch_status \in MaybeDelivered
    BY DEF NoSilentDuplicate, MaybeDelivered
  <2>1. \/ k \in reopened[n]
        \/ k = outbox[n].attempts /\ outbox[n].dispatch_status \in MaybeDelivered
    BY DEF NoSilentDuplicate, MaybeDelivered
  <2>2. CASE n = m  BY <1>1, <2>1, <2>2
  <2>3. CASE n # m  BY <1>1, <2>1, <2>3
  <2> QED  BY <2>2, <2>3
<1>12. FinalStatusHonest'
  BY <1>1 DEF FinalStatusHonest
<1> QED  BY <1>4, <1>5, <1>6, <1>7, <1>8, <1>9, <1>10, <1>11, <1>12

\* A new attempt has a new number, so nobody else's key and no recorded
\* outcome is about it.
LEMMA ConfirmDelivers ==
  ASSUME Fencing, Delivery, NEW w \in Workers, ConfirmSending(w)
  PROVE  Delivery'
<1> DEFINE m   == worker[w].message
           row == mark_sending(outbox[m])
           n   == outbox[m].attempts + 1
<1>1. /\ m \in Messages
      /\ outbox[m].dispatch_status = "claimed"
      /\ outbox[m].attempts \in Nat
      /\ outbox'[m].attempts = n
      /\ outbox'[m].dispatch_status = "sending"
      /\ \A k \in Messages \ {m} : outbox'[k] = outbox[k]
      /\ worker'[w].pc = "send"
      /\ worker'[w].message = m
      /\ worker'[w].key = n
      /\ \A v \in Workers \ {w} : worker'[v] = worker[v]
  BY ConfirmEffect DEF Columns
<1>2. UNCHANGED <<called, accepted, reopened, attested>>
  BY DEF ConfirmSending, history
<1>3. \A v \in Workers : worker[v].pc \in PostIO =>
        /\ worker[v].message \in Messages
        /\ worker[v].key \in 1..outbox[worker[v].message].attempts
  BY DEF Fencing, ClaimInv, CarriesMessage, KeysCounted, Busy
<1> HIDE DEF m
<1> USE DEF Delivery, KeyInv, HistoryInv, PostIO
<1>4. KeysDistinct'
  <2>1. \A v \in Workers \ {w} :
          worker[v].pc \in PostIO /\ worker[v].message = m => worker[v].key # n
    BY <1>1, <1>3
  <2> QED  BY <1>1, <2>1 DEF KeysDistinct
<1>5. SendingCommittedBeforeCall'
  BY <1>1, <1>2 DEF SendingCommittedBeforeCall, Fencing, TypeOK
<1>6. AttemptKeyFresh'
  <2>1. n \notin called[m]  BY <1>1 DEF SendingCommittedBeforeCall
  <2> QED  BY <1>1, <1>2, <2>1 DEF AttemptKeyFresh
<1>7. ReopenedPast'
  BY <1>1, <1>2 DEF ReopenedPast, Fencing, TypeOK
<1>8. LateSendCovered'
  <2> SUFFICES ASSUME NEW v \in Workers, worker'[v].pc = "send"
               PROVE  \/ worker'[v].key \in reopened[worker'[v].message]
                      \/ /\ worker'[v].key = outbox'[worker'[v].message].attempts
                         /\ outbox'[worker'[v].message].dispatch_status
                              \in {"sending", "uncertain", "published"}
    BY <1>2 DEF LateSendCovered
  <2>1. CASE v = w  BY <1>1, <2>1
  <2>2. CASE v # w
    <3>1. worker'[v] = worker[v] /\ worker[v].message \in Messages  BY <1>1, <1>3, <2>2
    <3>2. CASE worker[v].message = m  BY <1>1, <3>1, <3>2 DEF LateSendCovered
    <3>3. CASE worker[v].message # m  BY <1>1, <3>1, <3>3 DEF LateSendCovered
    <3> QED  BY <3>2, <3>3
  <2> QED  BY <2>1, <2>2
<1>9. ResultTrue'  BY <1>1, <1>2 DEF ResultTrue
<1>10. AcceptedCalled'  BY <1>2 DEF AcceptedCalled
<1>11. NoSilentDuplicate'  BY <1>1, <1>2 DEF NoSilentDuplicate
<1>12. FinalStatusHonest'  BY <1>1, <1>2 DEF FinalStatusHonest
<1> QED  BY <1>4, <1>5, <1>6, <1>7, <1>8, <1>9, <1>10, <1>11, <1>12

\* The provider call: the key was fresh, so whatever the provider did is about
\* this attempt and the answer the worker keeps is true of it.
LEMMA SendDelivers ==
  ASSUME Fencing, Delivery, NEW w \in Workers, Send(w)
  PROVE  Delivery'
<1> DEFINE m == worker[w].message
           n == worker[w].key
<1>1. /\ worker[w].pc = "send"
      /\ m \in Messages
      /\ n \in 1..outbox[m].attempts
      /\ n \notin called[m] /\ n \notin accepted[m]
      /\ UNCHANGED <<outbox, reopened, attested>>
  BY DEF Send, Fencing, ClaimInv, CarriesMessage, KeysCounted, Busy, PostIO, Delivery, KeyInv,
         AttemptKeyFresh, HistoryInv, AcceptedCalled
<1>2. PICK result \in Outcome :
        worker' = [worker EXCEPT ![w].pc = "record", ![w].result = result]
  BY DEF Send, ProviderAnswer, Outcome
<1>3. /\ worker'[w].pc = "record"
      /\ worker'[w].message = m
      /\ worker'[w].key = n
      /\ worker'[w].result = result
      /\ \A v \in Workers \ {w} : worker'[v] = worker[v]
  BY <1>2 DEF Fencing, TypeOK, WorkerState
<1>4. /\ called' \in [Messages -> SUBSET Nat] /\ accepted' \in [Messages -> SUBSET Nat]
      /\ \A k \in Messages \ {m} : called'[k] = called[k] /\ accepted'[k] = accepted[k]
      /\ called'[m] = called[m] \/ called'[m] = called[m] \cup {n}
      /\ \/ accepted'[m] = accepted[m] /\ result # "success"
         \/ /\ accepted'[m] = accepted[m] \cup {n}
            /\ called'[m] = called[m] \cup {n}
            /\ result \in {"success", "unknown-outcome"}
  <2>1. called \in [Messages -> SUBSET Nat] /\ accepted \in [Messages -> SUBSET Nat] /\ n \in Nat
    BY DEF Fencing, TypeOK, WorkerState
  <2>2. worker'[w].result = result  BY <1>3
  <2>3. CASE ~ApprovalValid(w)
    <3>1. UNCHANGED <<called, accepted>> /\ worker'[w].result = "unknown-outcome"
      BY <2>3 DEF Send, Fencing, TypeOK, WorkerState
    <3> QED  BY <2>1, <2>2, <3>1
  <2>4. CASE ApprovalValid(w)
    <3>1. PICK outcome \in Outcome \ {"none"}, delivered \in BOOLEAN :
            /\ ProviderAnswer(outcome, delivered)
            /\ called' = [called EXCEPT ![m] = @ \cup {n}]
            /\ accepted' = IF delivered THEN [accepted EXCEPT ![m] = @ \cup {n}] ELSE accepted
            /\ worker' = [worker EXCEPT ![w].pc = "record", ![w].result = outcome]
      BY <2>4 DEF Send
    <3>2. outcome = result  BY <2>2, <3>1 DEF Fencing, TypeOK, WorkerState
    <3>3. CASE delivered
      <4>1. result \in {"success", "unknown-outcome"}
        BY <3>1, <3>2, <3>3 DEF ProviderAnswer, Outcome
      <4> QED  BY <1>1, <2>1, <3>1, <3>3, <4>1
    <3>4. CASE ~delivered
      <4>1. result # "success"  BY <3>1, <3>2, <3>4 DEF ProviderAnswer
      <4> QED  BY <1>1, <2>1, <3>1, <3>4, <4>1
    <3> QED  BY <3>3, <3>4
  <2> QED  BY <2>3, <2>4
<1>5. \A v \in Workers \ {w} : worker[v].pc \in PostIO /\ worker[v].message = m =>
        worker[v].key # n
  BY <1>1 DEF Delivery, KeyInv, KeysDistinct, PostIO
<1>6. \A v \in Workers : worker[v].pc \in PostIO => worker[v].message \in Messages
  BY DEF Fencing, ClaimInv, CarriesMessage, Busy
<1> HIDE DEF m, n
<1> USE DEF Delivery, KeyInv, HistoryInv, PostIO
<1>7. KeysDistinct'
  <2> SUFFICES ASSUME NEW u \in Workers, NEW v \in Workers, u # v,
                      worker'[u].pc \in PostIO, worker'[v].pc \in PostIO,
                      worker'[u].message = worker'[v].message
               PROVE  worker'[u].key # worker'[v].key
    BY DEF KeysDistinct
  <2>1. CASE u = w  BY <1>3, <1>5, <2>1
  <2>2. CASE v = w  BY <1>3, <1>5, <2>2
  <2>3. CASE u # w /\ v # w  BY <1>3, <2>3 DEF KeysDistinct
  <2> QED  BY <2>1, <2>2, <2>3
<1>8. SendingCommittedBeforeCall'  BY <1>1, <1>4 DEF SendingCommittedBeforeCall
<1>9. AttemptKeyFresh'
  BY <1>3, <1>4, <1>5, <1>6 DEF AttemptKeyFresh
<1>10. ReopenedPast'  BY <1>1 DEF ReopenedPast
<1>11. LateSendCovered'  BY <1>1, <1>3 DEF LateSendCovered
<1>12. ResultTrue'
  <2> SUFFICES ASSUME NEW v \in Workers, worker'[v].pc = "record"
               PROVE  /\ worker'[v].result = "success" =>
                           worker'[v].key \in accepted'[worker'[v].message]
                      /\ worker'[v].result \in {"known-transient", "permanent"} =>
                           worker'[v].key \notin accepted'[worker'[v].message]
    BY DEF ResultTrue
  <2>1. CASE v = w  BY <1>1, <1>3, <1>4, <2>1
  <2>2. CASE v # w
    <3>1. worker'[v] = worker[v] /\ worker[v].message \in Messages  BY <1>3, <1>6, <2>2
    <3>2. CASE worker[v].message = m  BY <1>4, <1>5, <2>2, <3>1, <3>2 DEF ResultTrue
    <3>3. CASE worker[v].message # m  BY <1>4, <3>1, <3>3 DEF ResultTrue
    <3> QED  BY <3>2, <3>3
  <2> QED  BY <2>1, <2>2
<1>13. AcceptedCalled'
  <2>1. accepted'[m] \subseteq called'[m]  BY <1>1, <1>4 DEF AcceptedCalled
  <2> QED  BY <1>4, <2>1 DEF AcceptedCalled
<1>14. NoSilentDuplicate'
  <2>1. \/ n \in reopened[m]
        \/ /\ n = outbox[m].attempts
           /\ outbox[m].dispatch_status \in {"sending", "uncertain", "published"}
    BY <1>1 DEF LateSendCovered, m, n
  <2> QED  BY <1>1, <1>4, <2>1 DEF NoSilentDuplicate
<1>15. FinalStatusHonest'
  <2>1. n = outbox[m].attempts => outbox[m].dispatch_status # "failed"
    BY <1>1 DEF LateSendCovered, ReopenedPast, Fencing, TypeOK, OutboxMessage, m, n
  <2> QED  BY <1>1, <1>4, <2>1 DEF FinalStatusHonest
<1> QED  BY <1>7, <1>8, <1>9, <1>10, <1>11, <1>12, <1>13, <1>14, <1>15

\* The operator's "retry" accounts for the attempt it reopens.
LEMMA RetryDelivers ==
  ASSUME Fencing, Delivery, NEW m \in Messages, ResolveRetry(m)
  PROVE  Delivery'
<1> DEFINE row == resolve_uncertain_retry(outbox[m], clock)
<1>1. /\ outbox[m].dispatch_status = "uncertain"
      /\ outbox[m] \in OutboxMessage
      /\ outbox[m].attempts \in Nat
      /\ outbox[m].attempts >= 1
      /\ clock \in Time
  BY DEF ResolveRetry, Fencing, TypeOK, OutboxMessage, ClaimInv, RowsReadable,
         require_state_metadata
<1>2. row.dispatch_status = "pending" /\ row.attempts = outbox[m].attempts
  BY <1>1, RowFields, RowValues DEF Columns
<1>3. /\ outbox' = [outbox EXCEPT ![m] = row]
      /\ reopened' = [reopened EXCEPT ![m] = @ \cup {outbox[m].attempts}]
      /\ UNCHANGED <<worker, called, accepted, attested>>
  BY DEF ResolveRetry, Store
<1> HIDE DEF row
<1>4. /\ outbox'[m] = row
      /\ \A k \in Messages \ {m} : outbox'[k] = outbox[k] /\ reopened'[k] = reopened[k]
      /\ reopened'[m] = reopened[m] \cup {outbox[m].attempts}
  BY <1>3 DEF Fencing, TypeOK
<1>5. \A v \in Workers : worker[v].pc \in PostIO => worker[v].message \in Messages
  BY DEF Fencing, ClaimInv, CarriesMessage, Busy
<1> USE DEF Delivery, KeyInv, HistoryInv, PostIO
<1>6. KeysDistinct'  BY <1>3 DEF KeysDistinct
<1>7. SendingCommittedBeforeCall'  BY <1>2, <1>3, <1>4 DEF SendingCommittedBeforeCall
<1>8. AttemptKeyFresh'  BY <1>3 DEF AttemptKeyFresh
<1>9. ReopenedPast'  BY <1>1, <1>2, <1>4 DEF ReopenedPast
<1>10. LateSendCovered'  BY <1>1, <1>3, <1>4, <1>5 DEF LateSendCovered
<1>11. ResultTrue'  BY <1>3 DEF ResultTrue
<1>12. AcceptedCalled'  BY <1>3 DEF AcceptedCalled
<1>13. NoSilentDuplicate'  BY <1>1, <1>3, <1>4 DEF NoSilentDuplicate
<1>14. FinalStatusHonest'  BY <1>2, <1>3, <1>4 DEF FinalStatusHonest
<1> QED  BY <1>6, <1>7, <1>8, <1>9, <1>10, <1>11, <1>12, <1>13, <1>14

\* A claim on a row, or its rejection for want of a reminder.
LEMMA ClaimDelivers ==
  ASSUME Fencing, Delivery, NEW w \in Workers, Claim(w)
  PROVE  Delivery'
<1>1. /\ worker[w].pc = "claim"
      /\ UNCHANGED <<called, accepted, reopened, attested>>
  BY DEF Claim, history
<1>2. CASE EndTick(w) /\ UNCHANGED <<outbox, reminders>>
  BY <1>1, <1>2, WorkerTypes, QuietStep DEF Fencing, PostIO
<1>3. ASSUME NEW m \in Messages, NEW token \in Tokens, NEW until \in Time,
             is_due(outbox[m], worker[w].ran_at),
             \/ /\ ~HasReminder(m)
                /\ Store(m, mark_claim_failed(claim(outbox[m], token, until)))
                /\ EndTick(w)
             \/ /\ HasReminder(m)
                /\ Store(m, claim(outbox[m], token, until))
                /\ worker' = [worker EXCEPT ![w].pc       = "authorize",
                                            ![w].message  = m,
                                            ![w].token    = token,
                                            ![w].attempts =
                                               claim(outbox[m], token, until).attempts]
      PROVE  Delivery'
  <2> DEFINE row == claim(outbox[m], token, until)
  <2>1. /\ token \in Nat
        /\ outbox[m] \in OutboxMessage
        /\ outbox[m].dispatch_status \in Claimable
    BY <1>3 DEF Tokens, Fencing, TypeOK, is_due, Claimable
  <2>2. row \in OutboxMessage /\ Columns(row, "claimed", token, outbox[m].attempts)
    BY <2>1, RowTransitions, RowFields
  <2> HIDE DEF row
  <2>3. CASE ~HasReminder(m) /\ Store(m, mark_claim_failed(row)) /\ EndTick(w)
    <3> DEFINE failed == mark_claim_failed(row)
    <3>1. row.attempts = 0
      BY <2>2, <2>3 DEF Fencing, ClaimInv, OnlyGoodSent, HasReminder, Columns
    <3>2. failed \in OutboxMessage /\ Columns(failed, "failed", NoToken, row.attempts)
      BY <2>1, <2>2, RowValues, RowTransitions, RowFields
    <3> HIDE DEF failed
    <3>3. outbox' = [outbox EXCEPT ![m] = failed]  BY <2>3 DEF failed, Store
    <3>4. 0 \notin accepted[m]
      BY <2>2, <3>1 DEF Delivery, KeyInv, SendingCommittedBeforeCall, HistoryInv,
                        AcceptedCalled, Columns
    <3>5. \A v \in Workers : worker'[v] = worker[v] \/ worker'[v].pc \notin PostIO
      BY <2>3, WorkerTypes DEF Fencing, PostIO
    <3> QED
      BY <1>1, <2>1, <2>2, <3>1, <3>2, <3>3, <3>4, <3>5, StatusStep
      DEF Columns, Claimable, MaybeDelivered
  <2>4. CASE /\ HasReminder(m) /\ Store(m, row)
             /\ worker' = [worker EXCEPT ![w].pc       = "authorize",
                                         ![w].message  = m,
                                         ![w].token    = token,
                                         ![w].attempts = row.attempts]
    <3>1. outbox' = [outbox EXCEPT ![m] = row]  BY <2>4 DEF Store
    <3>2. \A v \in Workers : worker'[v] = worker[v] \/ worker'[v].pc \notin PostIO
      BY <2>4 DEF Fencing, TypeOK, WorkerState, PostIO
    <3> QED
      BY <1>1, <2>1, <2>2, <3>1, <3>2, StatusStep DEF Columns, Claimable, MaybeDelivered
  <2> QED  BY <1>3, <2>3, <2>4 DEF row
<1>4. Later(worker[w].ran_at, LEASE_SECONDS) \in Time
  BY LaterType, DispatchAssumption DEF Fencing, TypeOK, WorkerState
<1> QED  BY <1>2, <1>3, <1>4 DEF Claim, Oldest

\* Every step preserves the second part.
LEMMA DeliveryNext == Fencing /\ Delivery /\ [Next]_vars => Delivery'
<1> SUFFICES ASSUME Fencing, Delivery, [Next]_vars PROVE Delivery'  OBVIOUS
<1>1. CASE UNCHANGED vars \/ Tick
  BY <1>1, QuietStep DEF vars, history, Tick
<1>2. ASSUME NEW m \in Messages, Enqueue(m) PROVE Delivery'
  <2>1. PICK t \in Time : outbox' = [outbox EXCEPT ![m] = add(t)]
    BY <1>2, DispatchAssumption DEF Enqueue
  <2>2. add(t) \in OutboxMessage /\ Columns(add(t), "pending", NoToken, 0)
    BY NoRowType, RowValues, RowTransitions, RowFields
  <2>3. outbox[m].attempts = 0 /\ outbox[m].dispatch_status = "absent"
    BY <1>2 DEF Enqueue, Fencing, ClaimInv, RowsReadable, require_state_metadata, NoRow
  <2>4. UNCHANGED <<worker, called, accepted, reopened, attested>>
    BY <1>2 DEF Enqueue, history
  <2> QED
    BY <2>1, <2>2, <2>3, <2>4, StatusStep DEF Columns, Claimable, MaybeDelivered
<1>3. ASSUME NEW m \in Messages, ResolveDelivered(m) PROVE Delivery'
  <2> DEFINE row == resolve_uncertain_delivered(outbox[m])
  <2>1. /\ outbox[m] \in OutboxMessage
        /\ outbox[m].dispatch_status = "uncertain"
        /\ outbox' = [outbox EXCEPT ![m] = row]
        /\ attested' = attested \cup {m}
        /\ UNCHANGED <<worker, called, accepted, reopened>>
    BY <1>3 DEF ResolveDelivered, Store, Fencing, TypeOK
  <2>2. /\ row \in OutboxMessage
        /\ row.dispatch_status = "published" /\ row.attempts = outbox[m].attempts
    BY <2>1, RowValues, RowTransitions, RowFields DEF Columns
  <2> HIDE DEF row
  <2> QED  BY <2>1, <2>2, StatusStep DEF Claimable, MaybeDelivered
<1>4. ASSUME NEW m \in Messages, ResolveRetry(m) PROVE Delivery'
  BY <1>4, RetryDelivers
<1>5. ASSUME NEW w \in Workers, StartTick(w) \/ Authorize(w) PROVE Delivery'
  <2>1. UNCHANGED <<outbox, called, accepted, reopened, attested>>
    BY <1>5 DEF StartTick, Authorize, history
  <2>2. \A v \in Workers : worker'[v] = worker[v] \/ worker'[v].pc \notin PostIO
    BY <1>5 DEF StartTick, Authorize, Fencing, TypeOK, WorkerState, PostIO
  <2> QED  BY <2>1, <2>2, QuietStep
<1>6. ASSUME NEW w \in Workers, SweepExpiredSending(w) PROVE Delivery'
  <2>1. GoTo(w, "claim") /\ UNCHANGED <<called, accepted, reopened, attested>>
    BY <1>6 DEF SweepExpiredSending, history
  <2>2. \A v \in Workers : worker'[v] = worker[v] \/ worker'[v].pc \notin PostIO
    BY <2>1, WorkerTypes DEF Fencing, Pc, PostIO
  <2>3. CASE UNCHANGED <<outbox, reminders>>  BY <2>1, <2>2, <2>3, QuietStep
  <2>4. ASSUME NEW m \in Messages, outbox[m].dispatch_status = "sending",
               Store(m, mark_uncertain(outbox[m]))
        PROVE  Delivery'
    <3>1. outbox[m] \in OutboxMessage /\ require_state_metadata(outbox[m])
      BY DEF Fencing, TypeOK, ClaimInv, RowsReadable
    <3> DEFINE row == mark_uncertain(outbox[m])
    <3>2. /\ row \in OutboxMessage
          /\ row.dispatch_status = "uncertain" /\ row.attempts = outbox[m].attempts
      BY <2>4, <3>1, SendingEnds
    <3>3. outbox' = [outbox EXCEPT ![m] = row]  BY <2>4 DEF Store
    <3> HIDE DEF row
    <3> QED
      BY <2>1, <2>2, <2>4, <3>2, <3>3, StatusStep DEF Claimable, MaybeDelivered
  <2> QED  BY <1>6, <2>3, <2>4 DEF SweepExpiredSending, Oldest, is_expired_sending
<1>7. ASSUME NEW w \in Workers, Claim(w) PROVE Delivery'
  BY <1>7, ClaimDelivers
<1>8. ASSUME NEW w \in Workers,
             ReleaseBeforeIO(w) \/ RecordMalformed(w) \/ RecordResult(w)
      PROVE  Delivery'
  <2> DEFINE m == worker[w].message
  <2>1. PICK row \in OutboxMessage :
          /\ m \in Messages
          /\ Store(m, row)
          /\ EndTick(w)
          /\ UNCHANGED <<called, accepted, reopened, attested>>
          /\ row.attempts = outbox[m].attempts
          /\ worker[w].attempts = outbox[m].attempts
          /\ \/ /\ outbox[m].dispatch_status = "claimed"
                /\ row.dispatch_status = "pending"
             \/ /\ outbox[m].dispatch_status = "claimed"
                /\ row.dispatch_status = "failed"
                /\ row.attempts = 0
             \/ /\ outbox[m].dispatch_status = "sending"
                /\ row.dispatch_status \in {"published", "failed", "pending", "uncertain"}
                /\ row.dispatch_status = "published" => worker[w].result = "success"
                /\ row.dispatch_status \in {"pending", "failed"} =>
                     worker[w].result \in {"known-transient", "permanent"}
                /\ worker[w].pc = "record"
    BY <1>8, HolderLetsGo
  <2>2. /\ outbox' = [outbox EXCEPT ![m] = row]
        /\ worker'[w].pc = "idle"
        /\ \A v \in Workers \ {w} : worker'[v] = worker[v]
    BY <2>1, WorkerTypes DEF Store, Fencing
  <2>3. \A v \in Workers : worker'[v] = worker[v] \/ worker'[v].pc \notin PostIO
    BY <2>2 DEF PostIO
  <2>4. CASE outbox[m].dispatch_status = "claimed"
    <3>1. 0 \notin accepted[m]
      BY <2>1 DEF Delivery, KeyInv, SendingCommittedBeforeCall, HistoryInv, AcceptedCalled
    <3> QED
      BY <2>1, <2>2, <2>3, <2>4, <3>1, StatusStep DEF Claimable, MaybeDelivered
  <2>5. CASE outbox[m].dispatch_status = "sending"
    <3>1. worker[w].pc = "record" /\ worker[w].key = row.attempts
      BY <2>1, <2>5 DEF Fencing, ClaimInv, KeysCounted, PostIO
    <3>2. /\ worker[w].result = "success" => row.attempts \in accepted[m]
          /\ worker[w].result \in {"known-transient", "permanent"} =>
               row.attempts \notin accepted[m]
      BY <3>1 DEF Delivery, HistoryInv, ResultTrue
    <3>3. \A v \in Workers : worker'[v].pc = "send" /\ worker'[v].message = m =>
            worker'[v].key # row.attempts
      BY <2>2, <3>1 DEF Delivery, KeyInv, KeysDistinct, PostIO
    <3> QED
      BY <2>1, <2>2, <2>3, <2>5, <3>2, <3>3, StatusStep DEF Claimable, MaybeDelivered
  <2> QED  BY <2>1, <2>4, <2>5
<1>9. ASSUME NEW w \in Workers, ConfirmSending(w) PROVE Delivery'
  BY <1>9, ConfirmDelivers
<1>10. ASSUME NEW w \in Workers, Send(w) PROVE Delivery'
  BY <1>10, SendDelivers
<1>11. ASSUME NEW w \in Workers, Fenced(w) \/ Abort(w) PROVE Delivery'
  <2>1. EndTick(w) /\ UNCHANGED <<outbox, called, accepted, reopened, attested>>
    BY <1>11 DEF Fenced, Abort, history
  <2> QED  BY <2>1, WorkerTypes, QuietStep DEF Fencing, PostIO
<1> QED
  BY <1>1, <1>2, <1>3, <1>4, <1>5, <1>6, <1>7, <1>8, <1>9, <1>10, <1>11
  DEF Next, WorkerStep

\* The two parts together are an invariant.
LEMMA DeliveryInvariant == Spec => [](Fencing /\ Delivery)
<1>1. Init => Fencing /\ Delivery  BY FencingInit, DeliveryInit
<1>2. (Fencing /\ Delivery) /\ [Next]_vars => (Fencing /\ Delivery)'
  BY FencingNext, DeliveryNext
<1> QED  BY <1>1, <1>2, PTL DEF Spec

\* No two provider calls ever carry the same idempotency key.
THEOREM KeysNeverReused == Spec => []AttemptKeyFresh
BY DeliveryInvariant, PTL DEF Delivery, KeyInv

\* The outbox counts an attempt before the provider hears of it.
THEOREM CountedBeforeCalled == Spec => []SendingCommittedBeforeCall
BY DeliveryInvariant, PTL DEF Delivery, KeyInv

\* A delivered notification is resent only on an operator's word.
THEOREM NeverSilentlyDuplicated == Spec => []NoSilentDuplicate
BY DeliveryInvariant, PTL DEF Delivery, HistoryInv

\* "published" and "failed" are true of the last attempt.
THEOREM FinalStatusTrue == Spec => []FinalStatusHonest
BY DeliveryInvariant, PTL DEF Delivery, HistoryInv

-----------------------------------------------------------------------------
(* The dispatcher implements DeliveryLifecycle.                            *)

\* A change of one row, seen through the refinement mapping.
LEMMA AbstractStep ==
  ASSUME TypeOK, NEW m \in Messages, NEW row \in OutboxMessage,
         outbox' = [outbox EXCEPT ![m] = row],
         LET old == outbox[m].dispatch_status
             new == row.dispatch_status
         IN  \/ /\ row.attempts = outbox[m].attempts
                /\ \/ old = "absent" /\ new = "pending"
                   \/ old \in {"pending", "claimed"} /\ new = "claimed"
                   \/ old = "claimed" /\ new = "pending"
                   \/ /\ old \in {"pending", "claimed"} /\ new = "failed"
                      /\ row.attempts = 0
                   \/ old = "sending" /\ new \in {"published", "failed", "uncertain"}
                   \/ /\ old \in {"sending", "uncertain"} /\ new = "pending"
                      /\ row.attempts < MAX_DELIVERY_ATTEMPTS
                   \/ old = "uncertain" /\ new = "published"
             \/ /\ row.attempts = outbox[m].attempts + 1
                /\ outbox[m].attempts < MAX_DELIVERY_ATTEMPTS
                /\ old = "claimed" /\ new = "sending"
  PROVE  Lifecycle!Next
<1> DEFINE status   == [k \in Messages |-> outbox[k].dispatch_status]
           attempts == [k \in Messages |-> outbox[k].attempts]
<1>1. /\ status' = [status EXCEPT ![m] = row.dispatch_status]
      /\ attempts' = [attempts EXCEPT ![m] = row.attempts]
  BY DEF TypeOK
<1>2. row.attempts = outbox[m].attempts => attempts' = attempts
  BY DEF TypeOK
<1>3. status[m] = outbox[m].dispatch_status /\ attempts[m] = outbox[m].attempts
  OBVIOUS
<1> HIDE DEF status, attempts
<1>4. \/ Lifecycle!Request(m) \/ Lifecycle!Claim(m) \/ Lifecycle!GiveBack(m)
      \/ Lifecycle!RejectUnsent(m) \/ Lifecycle!BeginAttempt(m) \/ Lifecycle!EndAttempt(m)
      \/ Lifecycle!TryAgain(m) \/ Lifecycle!ConfirmDelivered(m)
  BY <1>1, <1>2, <1>3
  DEF Lifecycle!Request, Lifecycle!Claim, Lifecycle!GiveBack, Lifecycle!RejectUnsent,
      Lifecycle!BeginAttempt, Lifecycle!EndAttempt, Lifecycle!TryAgain,
      Lifecycle!ConfirmDelivered, Lifecycle!Move, status, attempts
<1> QED  BY <1>4 DEF Lifecycle!Next

\* The initial state maps to the initial state.
LEMMA LifecycleInit == Init => Lifecycle!Init
BY DEF Init, NoRow, Lifecycle!Init

\* Every step maps to a step of the lifecycle or changes nothing it shows.
LEMMA LifecycleNext ==
  Fencing /\ [Next]_vars => [Lifecycle!Next]_(Lifecycle!lifecycle)
<1> SUFFICES ASSUME Fencing, [Next]_vars
             PROVE  Lifecycle!Next \/ outbox' = outbox
  BY DEF Lifecycle!lifecycle
<1> USE DEF Fencing
<1>1. ASSUME NEW m \in Messages, Enqueue(m) PROVE Lifecycle!Next
  <2>1. PICK t \in Time : outbox' = [outbox EXCEPT ![m] = add(t)]
    BY <1>1, DispatchAssumption DEF Enqueue
  <2>2. add(t) \in OutboxMessage /\ Columns(add(t), "pending", NoToken, 0)
    BY NoRowType, RowValues, RowTransitions, RowFields
  <2>3. outbox[m].attempts = 0 /\ outbox[m].dispatch_status = "absent"
    BY <1>1 DEF Enqueue, ClaimInv, RowsReadable, require_state_metadata, NoRow
  <2> QED  BY <2>1, <2>2, <2>3, AbstractStep DEF Columns
<1>2. ASSUME NEW m \in Messages, ResolveDelivered(m) PROVE Lifecycle!Next
  <2> DEFINE row == resolve_uncertain_delivered(outbox[m])
  <2>1. /\ outbox[m] \in OutboxMessage /\ outbox[m].dispatch_status = "uncertain"
        /\ outbox' = [outbox EXCEPT ![m] = row]
    BY <1>2 DEF ResolveDelivered, Store, TypeOK
  <2>2. row \in OutboxMessage /\ Columns(row, "published", outbox[m].claim_token,
                                          outbox[m].attempts)
    BY <2>1, RowValues, RowTransitions, RowFields
  <2> HIDE DEF row
  <2> QED  BY <2>1, <2>2, AbstractStep DEF Columns
<1>3. ASSUME NEW m \in Messages, ResolveRetry(m) PROVE Lifecycle!Next
  <2> DEFINE row == resolve_uncertain_retry(outbox[m], clock)
  <2>1. /\ outbox[m] \in OutboxMessage /\ outbox[m].dispatch_status = "uncertain"
        /\ outbox[m].attempts < MAX_DELIVERY_ATTEMPTS
        /\ outbox' = [outbox EXCEPT ![m] = row]
        /\ clock \in Time
    BY <1>3 DEF ResolveRetry, Store, TypeOK
  <2>2. row \in OutboxMessage /\ Columns(row, "pending", outbox[m].claim_token,
                                          outbox[m].attempts)
    BY <2>1, RowValues, RowTransitions, RowFields
  <2> HIDE DEF row
  <2> QED  BY <2>1, <2>2, AbstractStep DEF Columns
<1>4. ASSUME NEW w \in Workers, SweepExpiredSending(w)
      PROVE  Lifecycle!Next \/ outbox' = outbox
  <2>1. ASSUME NEW m \in Messages, outbox[m].dispatch_status = "sending",
               Store(m, mark_uncertain(outbox[m]))
        PROVE  Lifecycle!Next
    <3> DEFINE row == mark_uncertain(outbox[m])
    <3>1. outbox[m] \in OutboxMessage /\ require_state_metadata(outbox[m])
      BY DEF TypeOK, ClaimInv, RowsReadable
    <3>2. /\ row \in OutboxMessage
          /\ row.dispatch_status = "uncertain" /\ row.attempts = outbox[m].attempts
      BY <2>1, <3>1, SendingEnds
    <3>3. outbox' = [outbox EXCEPT ![m] = row]  BY <2>1 DEF Store
    <3> HIDE DEF row
    <3> QED  BY <2>1, <3>2, <3>3, AbstractStep
  <2> QED  BY <1>4, <2>1 DEF SweepExpiredSending, Oldest, is_expired_sending
<1>5. ASSUME NEW w \in Workers, Claim(w)
      PROVE  Lifecycle!Next \/ outbox' = outbox
  <2>1. ASSUME NEW m \in Messages, NEW token \in Tokens, NEW until \in Time,
               is_due(outbox[m], worker[w].ran_at),
               \/ /\ ~HasReminder(m)
                  /\ Store(m, mark_claim_failed(claim(outbox[m], token, until)))
               \/ Store(m, claim(outbox[m], token, until))
        PROVE  Lifecycle!Next
    <3> DEFINE row    == claim(outbox[m], token, until)
               failed == mark_claim_failed(row)
    <3>1. /\ token \in Nat
          /\ outbox[m] \in OutboxMessage
          /\ outbox[m].dispatch_status \in {"pending", "claimed"}
      BY <2>1 DEF Tokens, TypeOK, is_due
    <3>2. row \in OutboxMessage /\ Columns(row, "claimed", token, outbox[m].attempts)
      BY <3>1, RowTransitions, RowFields
    <3>3. failed \in OutboxMessage /\ Columns(failed, "failed", NoToken, row.attempts)
      BY <3>1, <3>2, RowValues, RowTransitions, RowFields
    <3>4. ~HasReminder(m) => outbox[m].attempts = 0
      BY DEF ClaimInv, OnlyGoodSent, HasReminder
    <3>5. \/ ~HasReminder(m) /\ outbox' = [outbox EXCEPT ![m] = failed]
          \/ outbox' = [outbox EXCEPT ![m] = row]
      BY <2>1 DEF Store
    <3> HIDE DEF row, failed
    <3> QED  BY <3>1, <3>2, <3>3, <3>4, <3>5, AbstractStep DEF Columns
  <2>2. Later(worker[w].ran_at, LEASE_SECONDS) \in Time
    BY LaterType, DispatchAssumption DEF TypeOK, WorkerState
  <2> QED  BY <1>5, <2>1, <2>2 DEF Claim, Oldest
<1>6. ASSUME NEW w \in Workers,
             ReleaseBeforeIO(w) \/ RecordMalformed(w) \/ RecordResult(w)
      PROVE  Lifecycle!Next
  <2> DEFINE m == worker[w].message
  <2>1. PICK row \in OutboxMessage :
          /\ m \in Messages
          /\ Store(m, row)
          /\ row.attempts = outbox[m].attempts
          /\ \/ /\ outbox[m].dispatch_status = "claimed"
                /\ row.dispatch_status = "pending"
             \/ /\ outbox[m].dispatch_status = "claimed"
                /\ row.dispatch_status = "failed"
                /\ row.attempts = 0
             \/ /\ outbox[m].dispatch_status = "sending"
                /\ row.dispatch_status \in {"published", "failed", "pending", "uncertain"}
                /\ row.dispatch_status = "pending" => row.attempts < MAX_DELIVERY_ATTEMPTS
    BY <1>6, HolderLetsGo
  <2>2. outbox' = [outbox EXCEPT ![m] = row]  BY <2>1 DEF Store
  <2> QED  BY <2>1, <2>2, AbstractStep
<1>7. ASSUME NEW w \in Workers, ConfirmSending(w) PROVE Lifecycle!Next
  <2> DEFINE m   == worker[w].message
             row == mark_sending(outbox[m])
  <2>1. /\ m \in Messages
        /\ outbox[m].dispatch_status = "claimed"
        /\ row \in OutboxMessage
        /\ Columns(row, "sending", worker[w].token, outbox[m].attempts + 1)
        /\ outbox' = [outbox EXCEPT ![m] = row]
    BY <1>7, ConfirmEffect
  <2>2. outbox[m].attempts < MAX_DELIVERY_ATTEMPTS
    BY <2>1 DEF ClaimInv, AttemptsWithinLimit
  <2> HIDE DEF row, m
  <2> QED  BY <2>1, <2>2, AbstractStep DEF Columns
<1>8. CASE UNCHANGED vars \/ Tick
  BY <1>8 DEF vars, Tick
<1>9. ASSUME NEW w \in Workers,
             StartTick(w) \/ Authorize(w) \/ Send(w) \/ Fenced(w) \/ Abort(w)
      PROVE  outbox' = outbox
  BY <1>9 DEF StartTick, Authorize, Send, Fenced, Abort
<1> QED
  BY <1>1, <1>2, <1>3, <1>4, <1>5, <1>6, <1>7, <1>8, <1>9 DEF Next, WorkerStep

\* Workers, crashes and operators together implement the delivery lifecycle.
THEOREM DispatchImplementsLifecycle == Spec => ImplementsLifecycle
<1>1. Spec => []Fencing
  BY FencingInit, FencingNext, PTL DEF Spec
<1> QED
  BY <1>1, LifecycleInit, LifecycleNext, PTL DEF Spec, ImplementsLifecycle, Lifecycle!Spec

-----------------------------------------------------------------------------
(* The scheduler mirror.                                                   *)

\* The tables change together.
LEMMA MirrorNext == Fencing /\ MirrorAgrees /\ [Next]_vars => MirrorAgrees'
<1> SUFFICES ASSUME Fencing, MirrorAgrees, [Next]_vars PROVE MirrorAgrees'  OBVIOUS
<1> USE DEF Fencing
<1>1. CASE UNCHANGED <<outbox, reminders>>
  BY <1>1 DEF MirrorAgrees
<1>2. ASSUME NEW m \in Messages, NEW row, Store(m, row) PROVE MirrorAgrees'
  BY <1>2 DEF MirrorAgrees, Store, TypeOK, HasReminder
<1>3. ASSUME NEW m \in Messages, Enqueue(m) PROVE MirrorAgrees'
  <2>1. PICK t \in NotifyAt : outbox' = [outbox EXCEPT ![m] = add(t)]
    BY <1>3 DEF Enqueue
  <2>2. add(t).next_attempt_at = t  BY DEF add, NoRow
  <2>3. HasReminder(m) => reminders'[m] = scheduled
    BY <1>3 DEF Enqueue, TypeOK
  <2>4. \A k \in Messages \ {m} : outbox'[k] = outbox[k] /\ reminders'[k] = reminders[k]
    BY <1>3, <2>1 DEF Enqueue, TypeOK
  <2>5. outbox'[m] = add(t)  BY <2>1 DEF TypeOK
  <2> QED  BY <2>2, <2>3, <2>4, <2>5 DEF MirrorAgrees, HasReminder
<1>4. ASSUME NEW w \in Workers, SweepExpiredSending(w) \/ Claim(w) PROVE MirrorAgrees'
  BY <1>1, <1>2, <1>4 DEF SweepExpiredSending, Claim
<1>5. ASSUME NEW w \in Workers,
             \/ ReleaseBeforeIO(w) \/ RecordMalformed(w) \/ RecordResult(w)
             \/ ConfirmSending(w)
      PROVE  MirrorAgrees'
  <2>1. worker[w].message \in Messages
    BY <1>5 DEF ReleaseBeforeIO, RecordMalformed, RecordResult, ConfirmSending, ClaimInv,
                CarriesMessage, Busy, PreIO, PostIO
  <2> QED
    BY <1>2, <1>5, <2>1 DEF ReleaseBeforeIO, RecordMalformed, RecordResult, ConfirmSending
<1>6. ASSUME NEW m \in Messages, ResolveDelivered(m) \/ ResolveRetry(m) PROVE MirrorAgrees'
  BY <1>2, <1>6 DEF ResolveDelivered, ResolveRetry
<1>7. CASE UNCHANGED vars \/ Tick
  BY <1>1, <1>7 DEF vars, Tick
<1>8. ASSUME NEW w \in Workers,
             StartTick(w) \/ Authorize(w) \/ Send(w) \/ Fenced(w) \/ Abort(w)
      PROVE  MirrorAgrees'
  BY <1>1, <1>8 DEF StartTick, Authorize, Send, Fenced, Abort
<1> QED
  BY <1>3, <1>4, <1>5, <1>6, <1>7, <1>8 DEF Next, WorkerStep

\* The scheduler's copy always agrees with the outbox.
THEOREM MirrorAlwaysAgrees == Spec => []MirrorAgrees
<1>1. Spec => []Fencing
  BY FencingInit, FencingNext, PTL DEF Spec
<1>2. Init => MirrorAgrees
  BY DEF Init, MirrorAgrees, NoRow
<1> QED  BY <1>1, <1>2, MirrorNext, PTL DEF Spec
=============================================================================
