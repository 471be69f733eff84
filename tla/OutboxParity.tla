------------------------------ MODULE OutboxParity ------------------------------
(***************************************************************************)
(* The in-memory outbox and scheduler, which the tests, the evaluations    *)
(* and the local runtime deliver through, driven by the same calls as the  *)
(* PostgreSQL ones of OutboxRow.  The two were written separately: one     *)
(* checks the claim token before the status and validates the copy before  *)
(* it stores it, the other guards an UPDATE and explains a miss with a     *)
(* second SELECT; their claim conditions and the columns their transitions *)
(* clear are not the same either.                                          *)
(*                                                                         *)
(* Calls come one at a time and each is made against both; the moment      *)
(* "now" that a caller passes is its own clock's and may run behind an     *)
(* earlier caller's.  Row locks and SKIP LOCKED, which only matter between *)
(* concurrent calls, are in DispatchDueReminders.                          *)
(***************************************************************************)
EXTENDS OutboxRow, FiniteSets

CONSTANTS
  Tenants,
  Messages,     \* message ranks in (created_at, id) order
  TenantOf,     \* the tenant that owns each message
  TypeOf,       \* the CloudEvent type of each message
  Lease,        \* lease_seconds of claim_due
  Limits,       \* limits a caller passes
  MaxTokens     \* bound on the claims made

Types == {TypeOf[m] : m \in Messages}

ParityAssumption ==
  /\ Messages \subseteq Nat \ {0} /\ IsFiniteSet(Messages)
  /\ TenantOf \in [Messages -> Tenants]
  /\ Lease \in Nat \ {0}
  /\ Limits \subseteq Nat \ {0}
  /\ MaxTokens \in Nat

VARIABLES
  memory,     \* InMemoryOutbox._messages_by_key
  jobs,       \* LocalReminderScheduler._jobs_by_key
  postgres,   \* assistant_outbox
  reminders,  \* assistant_scheduled_reminders
  notify_at,  \* when each scheduled reminder is due
  issued,     \* claim tokens issued so far
  answers     \* what the two outboxes said to the last call

vars == <<memory, jobs, postgres, reminders, notify_at, issued, answers>>

-----------------------------------------------------------------------------
(* Answers: a code and the messages returned with it.                      *)

Answer(code, returned) == [code |-> code, returned |-> returned]

Codes == {"ok", "not_found", "denied", "conflict", "invalid"}

TypeOK ==
  /\ memory \in [Messages -> OutboxMessage]
  /\ postgres \in [Messages -> OutboxMessage]
  /\ jobs \in [Messages -> ScheduledReminder]
  /\ reminders \in [Messages -> ScheduledReminder]
  /\ notify_at \in [Messages -> Time]
  /\ issued \in 0..MaxTokens
  /\ \A s \in {"memory", "postgres"} :
       answers[s].code \in Codes /\ answers[s].returned \subseteq Messages

\* The first n of S in (created_at, id) order.
Oldest(S, n) == {m \in S : Cardinality({k \in S : k < m}) < n}

\* A token per claimed message that no claim was given before.
NewToken(S, m) == issued + Cardinality({k \in S : k <= m})

-----------------------------------------------------------------------------
(* The in-memory outbox.                                                   *)

\* The messages of the tenant, of the type asked for (or of any).
Candidates(rows, tenant, type) ==
  {m \in Messages : /\ rows[m].dispatch_status # "absent"
                    /\ TenantOf[m] = tenant
                    /\ type \in {"any", TypeOf[m]}}

\* claim_due asks an expired claim for its due time too.
MemoryDue(row, now) ==
  /\ \/ row.dispatch_status = "pending"
     \/ row.dispatch_status = "claimed" /\ row.claimed_until <= now
  /\ row.next_attempt_at <= now

MemoryExpired(row, now) ==
  row.dispatch_status = "sending" /\ row.claimed_until <= now

WorkerOps == {"mark_sending", "mark_claim_failed", "mark_published",
              "mark_failed", "mark_uncertain", "release", "reschedule"}

MemoryExpects(op) ==
  IF op \in {"mark_sending", "mark_claim_failed", "release"}
  THEN "claimed" ELSE "sending"

\* The claim columns that a transition out of a claim clears.
MemoryFreed(row) == [row EXCEPT !.claim_token = NoToken, !.claimed_until = 0]

MemoryReschedule(row, next) ==
  [MemoryFreed(row) EXCEPT !.dispatch_status = "pending",
                           !.next_attempt_at = next, !.sending_at = FALSE,
                           !.last_error = "known"]

\* The updates each method hands to _transition.  release, unlike its twin,
\* leaves sending_at alone: a claimed message has none.
MemoryUpdate(op, row, next) ==
  LET freed == MemoryFreed(row)
  IN  CASE op = "mark_sending" ->
             [row EXCEPT !.dispatch_status = "sending", !.sending_at = TRUE,
                         !.attempts = @ + 1]
        [] op = "mark_claim_failed" ->
             [freed EXCEPT !.dispatch_status = "failed",
                           !.last_error = "invalid_payload"]
        [] op = "mark_published" ->
             [freed EXCEPT !.dispatch_status = "published",
                           !.published_at = TRUE, !.last_error = "none"]
        [] op = "mark_failed" ->
             [freed EXCEPT !.dispatch_status = "failed", !.last_error = "known"]
        [] op = "mark_uncertain" ->
             [freed EXCEPT !.dispatch_status = "uncertain",
                           !.last_error = "unknown"]
        [] op = "release" ->
             [freed EXCEPT !.dispatch_status = "pending",
                           !.next_attempt_at = next]
        [] op = "reschedule" -> MemoryReschedule(row, next)

\* Mutant of MemoryVerdict: the status is looked at before the token.
MemoryVerdictStatusFirst(op, tenant, m, token, updated) ==
  IF m \notin Candidates(memory, tenant, "any") THEN "not_found"
  ELSE IF memory[m].dispatch_status # MemoryExpects(op) THEN "conflict"
  ELSE IF memory[m].claim_token # token THEN "denied"
  ELSE IF ~require_state_metadata(updated) THEN "invalid"
  ELSE "ok"

\* _transition: token, then status, then the validator on the updated copy,
\* whose ValidationError leaves the stored message as it was.
MemoryVerdict(op, tenant, m, token, updated) ==
  IF m \notin Candidates(memory, tenant, "any") THEN "not_found"
  ELSE IF memory[m].claim_token # token THEN "denied"
  ELSE IF memory[m].dispatch_status # MemoryExpects(op) THEN "conflict"
  ELSE IF ~require_state_metadata(updated) THEN "invalid"
  ELSE "ok"

\* _operator_transition of resolve_uncertain_delivered and _retry.
MemoryResolved(op, row, next) ==
  IF op = "delivered"
  THEN [row EXCEPT !.dispatch_status = "published", !.published_at = TRUE,
                   !.last_error = "none"]
  ELSE [row EXCEPT !.dispatch_status = "pending", !.next_attempt_at = next,
                   !.sending_at = FALSE, !.published_at = FALSE]

MemoryResolveVerdict(tenant, m) ==
  IF m \notin Candidates(memory, tenant, "any") THEN "not_found"
  ELSE IF memory[m].dispatch_status # "uncertain" THEN "conflict" ELSE "ok"

\* LocalReminderScheduler.mirror_delivery, which validates its copy as well.
MemoryMirror(row) ==
  [delivery_status |-> row.dispatch_status, attempts |-> row.attempts,
   next_attempt_at |-> row.next_attempt_at, sending_at |-> row.sending_at,
   published_at |-> row.published_at, last_error |-> row.last_error,
   sent |-> row.dispatch_status # "pending"]

\* LocalReminderScheduler.due.
MemoryJobDue(m, now) ==
  /\ jobs[m].delivery_status = "pending"
  /\ notify_at[m] <= now
  /\ jobs[m].next_attempt_at <= now

-----------------------------------------------------------------------------
(* The PostgreSQL outbox: the transitions are those of OutboxRow.          *)

PostgresExpects(op) ==
  IF op \in {"mark_published", "mark_failed", "mark_uncertain", "reschedule"}
  THEN "sending" ELSE "claimed"

PostgresUpdate(op, row, next) ==
  CASE op = "mark_sending" -> mark_sending(row)
    [] op = "mark_claim_failed" -> mark_claim_failed(row)
    [] op = "mark_published" -> mark_published(row)
    [] op = "mark_failed" -> mark_failed(row)
    [] op = "mark_uncertain" -> mark_uncertain(row)
    [] op = "release" -> release(row, next)
    [] op = "reschedule" -> reschedule(row, next)

\* The guarded UPDATE, which the CHECK constraint may refuse; when it matches
\* no row, the SELECT that says why.
PostgresVerdict(op, tenant, m, token, updated) ==
  LET row   == postgres[m]
      found == m \in Candidates(postgres, tenant, "any")
  IN  IF found /\ Guarded(row, PostgresExpects(op), token)
      THEN IF require_state_metadata(updated) THEN "ok" ELSE "invalid"
      ELSE IF ~found THEN "not_found"
      ELSE IF row.claim_token # token THEN "denied" ELSE "conflict"

PostgresResolveVerdict(tenant, m) ==
  IF m \notin Candidates(postgres, tenant, "any") THEN "not_found"
  ELSE IF postgres[m].dispatch_status = "uncertain" THEN "ok" ELSE "conflict"

\* The query of PostgresReminderScheduler.due.
PostgresJobDue(m, now) ==
  /\ reminders[m].delivery_status = "pending"
  /\ notify_at[m] <= now
  /\ reminders[m].next_attempt_at <= now

-----------------------------------------------------------------------------
(* Calls.                                                                  *)

\* Both stores keep what was answered "ok" and mirror it in the same
\* transaction, as the dispatch use case does.
Keep(m, mem, pg, memcode, pgcode) ==
  /\ memory' = IF memcode = "ok" THEN [memory EXCEPT ![m] = mem] ELSE memory
  /\ postgres' = IF pgcode = "ok" THEN [postgres EXCEPT ![m] = pg] ELSE postgres
  /\ jobs' = IF memcode = "ok" THEN [jobs EXCEPT ![m] = MemoryMirror(mem)] ELSE jobs
  /\ reminders' = IF pgcode = "ok" THEN [reminders EXCEPT ![m] = mirror_delivery(pg)]
                  ELSE reminders
  /\ answers' = [memory |-> Answer(memcode, {n \in {m} : memcode = "ok"}),
                 postgres |-> Answer(pgcode, {n \in {m} : pgcode = "ok"})]

Init ==
  /\ memory = [m \in Messages |-> NoRow]
  /\ postgres = [m \in Messages |-> NoRow]
  /\ jobs = [m \in Messages |-> NoReminder]
  /\ reminders = [m \in Messages |-> NoReminder]
  /\ notify_at = [m \in Messages |-> 0]
  /\ issued = 0
  /\ answers = [s \in {"memory", "postgres"} |-> Answer("ok", {})]

\* The workflow's transaction: the message, and the job it announces.
Add(m, at) ==
  /\ memory[m].dispatch_status = "absent"
  /\ memory' = [memory EXCEPT ![m] = add(at)]
  /\ postgres' = [postgres EXCEPT ![m] = add(at)]
  /\ jobs' = [jobs EXCEPT ![m] = scheduled]
  /\ reminders' = [reminders EXCEPT ![m] = scheduled]
  /\ notify_at' = [notify_at EXCEPT ![m] = at]
  /\ answers' = [s \in {"memory", "postgres"} |-> Answer("ok", {m})]
  /\ UNCHANGED issued

ClaimDue(tenant, now, limit, type) ==
  LET inMemory == Oldest({m \in Candidates(memory, tenant, type) :
                            MemoryDue(memory[m], now)}, limit)
      inPostgres == Oldest({m \in Candidates(postgres, tenant, type) :
                              is_due(postgres[m], now)}, limit)
      until == Later(now, Lease)
  IN  /\ issued + Cardinality(inMemory \cup inPostgres) <= MaxTokens
      /\ now < until   \* no lease is cut short by the end of the axis
      /\ memory' = [m \in Messages |->
                      IF m \in inMemory
                      THEN [memory[m] EXCEPT !.dispatch_status = "claimed",
                                             !.claim_token = NewToken(inMemory, m),
                                             !.claimed_until = until]
                      ELSE memory[m]]
      /\ postgres' = [m \in Messages |->
                        IF m \in inPostgres
                        THEN claim(postgres[m], NewToken(inPostgres, m), until)
                        ELSE postgres[m]]
      /\ jobs' = [m \in Messages |->
                    IF m \in inMemory THEN MemoryMirror(memory'[m]) ELSE jobs[m]]
      /\ reminders' = [m \in Messages |->
                         IF m \in inPostgres THEN mirror_delivery(postgres'[m])
                         ELSE reminders[m]]
      /\ issued' = issued + Cardinality(inMemory \cup inPostgres)
      /\ answers' = [memory |-> Answer("ok", inMemory),
                     postgres |-> Answer("ok", inPostgres)]
      /\ UNCHANGED notify_at

SweepExpiredSending(tenant, now, limit, type) ==
  LET inMemory == Oldest({m \in Candidates(memory, tenant, type) :
                            MemoryExpired(memory[m], now)}, limit)
      inPostgres == Oldest({m \in Candidates(postgres, tenant, type) :
                              is_expired_sending(postgres[m], now)}, limit)
  IN  /\ memory' = [m \in Messages |->
                      IF m \in inMemory
                      THEN MemoryUpdate("mark_uncertain", memory[m], 0)
                      ELSE memory[m]]
      /\ postgres' = [m \in Messages |->
                        IF m \in inPostgres THEN mark_uncertain(postgres[m])
                        ELSE postgres[m]]
      /\ jobs' = [m \in Messages |->
                    IF m \in inMemory THEN MemoryMirror(memory'[m]) ELSE jobs[m]]
      /\ reminders' = [m \in Messages |->
                         IF m \in inPostgres THEN mirror_delivery(postgres'[m])
                         ELSE reminders[m]]
      /\ answers' = [memory |-> Answer("ok", inMemory),
                     postgres |-> Answer("ok", inPostgres)]
      /\ UNCHANGED <<notify_at, issued>>

\* A worker's transition, with any token that was ever issued.
Transition(op, tenant, m, token, next) ==
  LET mem == MemoryUpdate(op, memory[m], next)
      pg  == PostgresUpdate(op, postgres[m], next)
  IN  /\ Keep(m, mem, pg, MemoryVerdict(op, tenant, m, token, mem),
              PostgresVerdict(op, tenant, m, token, pg))
      /\ UNCHANGED <<notify_at, issued>>

Resolve(op, tenant, m, next) ==
  /\ Keep(m, MemoryResolved(op, memory[m], next),
          IF op = "delivered" THEN resolve_uncertain_delivered(postgres[m])
          ELSE resolve_uncertain_retry(postgres[m], next),
          MemoryResolveVerdict(tenant, m), PostgresResolveVerdict(tenant, m))
  /\ UNCHANGED <<notify_at, issued>>

\* Only these methods take a next_attempt_at.
NextAttempts(op) ==
  IF op \in {"release", "reschedule", "retry"} THEN Time ELSE {0}

Next ==
  \/ \E m \in Messages, at \in Time : Add(m, at)
  \/ \E tenant \in Tenants, now \in Time, limit \in Limits,
        type \in Types \cup {"any"} :
       ClaimDue(tenant, now, limit, type) \/ SweepExpiredSending(tenant, now, limit, type)
  \/ \E tenant \in Tenants, m \in Messages :
       \/ \E op \in WorkerOps, token \in 1..issued :
            \E next \in NextAttempts(op) : Transition(op, tenant, m, token, next)
       \/ \E op \in {"delivered", "retry"} :
            \E next \in NextAttempts(op) : Resolve(op, tenant, m, next)

Spec == Init /\ [][Next]_vars

-----------------------------------------------------------------------------
(* Properties.                                                             *)

\* Whatever was called before, the two outboxes give the same answer to the
\* same call: the same error code, or the same messages claimed, swept or
\* updated.  The token-before-status order of InMemoryOutbox._transition and the
\* second SELECT of _transition_delivery_row must tell the same story.
SameAnswers == answers["memory"] = answers["postgres"]

\* After any sequence of calls, with clocks that may run behind one another, the
\* two outboxes hold the same rows and the two schedulers the same mirrors: a
\* delivery that the tests see is the one production makes.
SameRows == memory = postgres /\ jobs = reminders

\* Every message the in-memory outbox holds passes its own validator, although
\* claim_due stores its copy without running it.
MemoryRowsValid == \A m \in Messages : require_state_metadata(memory[m])

\* A reminder that either scheduler reports as due is one that the outbox would
\* hand out to a worker asking at the same moment.
DueJobsClaimable ==
  \A m \in Messages, now \in Time :
    /\ MemoryJobDue(m, now) => MemoryDue(memory[m], now)
    /\ PostgresJobDue(m, now) => is_due(postgres[m], now)

\* The outbox the tests run on is the outbox of production.
OutboxesAgree ==
  /\ TypeOK
  /\ SameAnswers
  /\ SameRows
  /\ MemoryRowsValid
  /\ DueJobsClaimable
=============================================================================
