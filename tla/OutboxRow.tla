------------------------------- MODULE OutboxRow -------------------------------
(***************************************************************************)
(* One row of the assistant_outbox table, the delivery transitions of      *)
(* PostgresOutbox as functions on that row, and the copy of the row that   *)
(* ReminderScheduler.mirror_delivery keeps for operational reads.          *)
(*                                                                         *)
(* Data is kept as far as the transitions look at it: a claim token is a   *)
(* number that is only compared for equality, the lease end and the due    *)
(* time are instants, sending_at and published_at are TRUE when the column *)
(* is not NULL, and last_error keeps the origin of the error.  claim_owner *)
(* is set and cleared together with the token and is read by no            *)
(* transition.                                                             *)
(***************************************************************************)
EXTENDS Naturals

CONSTANT MaxTime   \* the last instant of the time axis (datetime.max)

ASSUME TimeAssumption == MaxTime \in Nat

Time == 0..MaxTime

\* The instant d after t; deadlines past the end of the axis are its end.
Later(t, d) == IF t + d > MaxTime THEN MaxTime ELSE t + d

NoToken == 0

DeliveryStatus ==
  {"pending", "claimed", "sending", "published", "failed", "uncertain"}

LastError == {"none", "known", "unknown", "invalid_payload"}

\* "absent": no row has been inserted for the message yet.
OutboxMessage ==
  [dispatch_status : DeliveryStatus \cup {"absent"},
   claim_token     : Nat,
   claimed_until   : Time,
   next_attempt_at : Time,
   attempts        : Nat,
   sending_at      : BOOLEAN,
   published_at    : BOOLEAN,
   last_error      : LastError]

NoRow ==
  [dispatch_status |-> "absent",
   claim_token     |-> NoToken,
   claimed_until   |-> 0,
   next_attempt_at |-> 0,
   attempts        |-> 0,
   sending_at      |-> FALSE,
   published_at    |-> FALSE,
   last_error      |-> "none"]

-----------------------------------------------------------------------------
(* Transitions.  Each one is the column update of the method it is named   *)
(* after; who may apply it is decided by Guarded below.                    *)

add(notify_at) ==
  [NoRow EXCEPT !.dispatch_status = "pending", !.next_attempt_at = notify_at]

\* Mutant of is_due: an expired lease makes a sending row claimable again.
is_due_reclaims_sending(row, now) ==
  \/ row.dispatch_status = "pending" /\ row.next_attempt_at <= now
  \/ row.dispatch_status \in {"claimed", "sending"} /\ row.claimed_until <= now

\* claim_due selects a pending row whose time has come or a claimed row whose
\* lease has run out; a sending row is never selected.
is_due(row, now) ==
  \/ row.dispatch_status = "pending" /\ row.next_attempt_at <= now
  \/ row.dispatch_status = "claimed" /\ row.claimed_until <= now

claim(row, token, until) ==
  [row EXCEPT !.dispatch_status = "claimed",
              !.claim_token     = token,
              !.claimed_until   = until]

\* Mutant of Guarded: the transition looks at the status only.
GuardedByStatusOnly(row, expected_status, token) ==
  row.dispatch_status = expected_status

\* The WHERE clause of every worker transition: the expected status and the
\* worker's own token.  Anything else is PERMISSION_DENIED or CONFLICT.
Guarded(row, expected_status, token) ==
  /\ row.dispatch_status = expected_status
  /\ row.claim_token = token

mark_sending(row) ==
  [row EXCEPT !.dispatch_status = "sending",
              !.sending_at      = TRUE,
              !.attempts        = @ + 1]

\* The claim columns are cleared together.
Unclaimed(row) ==
  [row EXCEPT !.claim_token = NoToken, !.claimed_until = 0]

mark_claim_failed(row) ==
  [Unclaimed(row) EXCEPT !.dispatch_status = "failed",
                         !.last_error      = "invalid_payload"]

mark_published(row) ==
  [Unclaimed(row) EXCEPT !.dispatch_status = "published",
                         !.published_at    = TRUE,
                         !.last_error      = "none"]

release(row, next) ==
  [Unclaimed(row) EXCEPT !.dispatch_status = "pending",
                         !.next_attempt_at = next,
                         !.sending_at      = FALSE]

\* Mutant of reschedule: sending_at survives the return to pending.
reschedule_keeps_sending_at(row, next) ==
  [Unclaimed(row) EXCEPT !.dispatch_status = "pending",
                         !.next_attempt_at = next,
                         !.last_error      = "known"]

reschedule(row, next) ==
  [Unclaimed(row) EXCEPT !.dispatch_status = "pending",
                         !.next_attempt_at = next,
                         !.sending_at      = FALSE,
                         !.last_error      = "known"]

mark_failed(row) ==
  [Unclaimed(row) EXCEPT !.dispatch_status = "failed", !.last_error = "known"]

\* mark_uncertain and sweep_expired_sending write the same columns.
mark_uncertain(row) ==
  [Unclaimed(row) EXCEPT !.dispatch_status = "uncertain",
                         !.last_error      = "unknown"]

resolve_uncertain_delivered(row) ==
  [row EXCEPT !.dispatch_status = "published",
              !.published_at    = TRUE,
              !.last_error      = "none"]

resolve_uncertain_retry(row, next) ==
  [row EXCEPT !.dispatch_status = "pending",
              !.next_attempt_at = next,
              !.sending_at      = FALSE,
              !.published_at    = FALSE]

\* sweep_expired_sending selects in-flight rows whose lease has run out.
is_expired_sending(row, now) ==
  row.dispatch_status = "sending" /\ row.claimed_until <= now

-----------------------------------------------------------------------------
(* OutboxMessage.require_state_metadata, which is also the CHECK constraint *)
(* assistant_outbox_state_metadata_check: what a row of each status must    *)
(* and must not carry.  The code raises on any other row, so a reachable    *)
(* row that breaks it would block the worker that reads it.                 *)
require_state_metadata(row) ==
  LET claimed == row.claim_token # NoToken
      status  == row.dispatch_status
  IN  /\ status = "absent" => row = NoRow
      /\ status = "pending" =>
           ~claimed /\ ~row.sending_at /\ ~row.published_at
      /\ status = "claimed" =>
           claimed /\ ~row.sending_at /\ ~row.published_at
      /\ status = "sending" =>
           claimed /\ row.sending_at /\ ~row.published_at /\ row.attempts >= 1
      /\ status = "published" =>
           ~claimed /\ row.published_at /\ row.last_error = "none"
      /\ status = "failed" =>
           /\ ~claimed /\ ~row.published_at /\ row.last_error # "none"
           /\ row.sending_at <=> row.attempts >= 1
      /\ status = "uncertain" =>
           /\ ~claimed /\ row.sending_at /\ ~row.published_at
           /\ row.last_error # "none" /\ row.attempts >= 1

-----------------------------------------------------------------------------
(* The scheduled_reminders row of the same reminder.                       *)
ScheduledReminder ==
  [delivery_status : DeliveryStatus \cup {"absent"},
   attempts        : Nat,
   next_attempt_at : Time,
   sending_at      : BOOLEAN,
   published_at    : BOOLEAN,
   last_error      : LastError,
   sent            : BOOLEAN]

NoReminder ==
  [delivery_status |-> "absent", attempts |-> 0, next_attempt_at |-> 0,
   sending_at |-> FALSE, published_at |-> FALSE, last_error |-> "none",
   sent |-> FALSE]

\* schedule_before_event inserts a pending job; its next_attempt_at is NULL
\* (0 here) until the first mirrored transition.
scheduled == [NoReminder EXCEPT !.delivery_status = "pending"]

mirror_delivery(row) ==
  [delivery_status |-> row.dispatch_status,
   attempts        |-> row.attempts,
   next_attempt_at |-> row.next_attempt_at,
   sending_at      |-> row.sending_at,
   published_at    |-> row.published_at,
   last_error      |-> row.last_error,
   sent            |-> row.dispatch_status # "pending"]
=============================================================================
