------------------------------ MODULE StoreProofs ------------------------------
(***************************************************************************)
(* Proofs about Stores: the in-memory outbox against the PostgreSQL one    *)
(* (OutboxParity) and the idempotent writes of both kinds of store         *)
(* (StoreParity).  Each is proved of its component, from the assumptions   *)
(* the component's module states, and holds in Stores because a behaviour  *)
(* follows one component and leaves the other alone.                       *)
(***************************************************************************)
EXTENDS Stores, Integers, FiniteSets, FiniteSetTheorems, TLAPS

-----------------------------------------------------------------------------
(* The two outboxes.                                                       *)
(*                                                                         *)
(* Equal rows are what makes equal answers, and equal answers what keeps   *)
(* the rows equal.  The updates differ in the columns they clear and the   *)
(* claim conditions in the times they look at; the columns a status may    *)
(* carry, and a lease that never ends before the message is due, make the  *)
(* differences disappear.                                                  *)

OutboxAssumption == O!ParityAssumption /\ MaxTime \in Nat

\* A row as the stores keep it: its columns fit its status, and a claim's lease does
\* not end before the message is due.
RowSound(row) ==
  /\ row \in O!OutboxMessage
  /\ O!require_state_metadata(row)
  /\ row.dispatch_status = "claimed" => row.next_attempt_at <= row.claimed_until

\* The scheduler's row is the outbox row's copy, except before the first transition.
Mirrored(row, job, at) ==
  \/ job = O!MemoryMirror(row)
  \/ row = O!add(at) /\ job = O!scheduled
  \/ row = O!NoRow /\ job = O!NoReminder

OutboxInv ==
  /\ O!TypeOK
  /\ O!SameAnswers
  /\ O!SameRows
  /\ \A m \in Messages : RowSound(memory[m]) /\ Mirrored(memory[m], jobs[m], notify_at[m])

LEMMA SameCount ==
  /\ \A S : O!Cardinality(S) = Cardinality(S)
  /\ \A S : O!IsFiniteSet(S) <=> IsFiniteSet(S)
<1>1. \A S : O!Cardinality(S) = Cardinality(S)
  BY DEF O!Cardinality, Cardinality
<1>2. \A S : O!IsFiniteSet(S) <=> IsFiniteSet(S)
  BY Zenon DEF O!IsFiniteSet, IsFiniteSet
<1> QED
  BY <1>1, <1>2

\* A claim's token is a number of its own, never NoToken.
LEMMA TokenIsNew ==
  ASSUME OutboxAssumption, issued \in Nat, NEW S \in SUBSET Messages, NEW m \in S
  PROVE  O!NewToken(S, m) \in Nat \ {0}
<1> DEFINE upto == {k \in S : k <= m}
<1>1. IsFiniteSet(Messages) /\ Messages \subseteq Nat
  BY SameCount DEF OutboxAssumption, O!ParityAssumption
<1>2. IsFiniteSet(upto) /\ m \in upto
  <2>1. upto \subseteq Messages /\ m \in Messages
    OBVIOUS
  <2>2. m \in Nat
    BY <1>1, <2>1
  <2> QED
    BY <1>1, <2>1, <2>2, FS_Subset
<1>3. Cardinality(upto) \in Nat /\ Cardinality(upto) # 0
  BY <1>2, FS_CardinalityType, FS_EmptySet
<1>4. O!NewToken(S, m) = issued + Cardinality(upto)
  BY SameCount DEF O!NewToken
<1> QED
  BY <1>3, <1>4

LEMMA CountIsNumber ==
  ASSUME OutboxAssumption, NEW S \in SUBSET Messages
  PROVE  O!Cardinality(S) \in Nat
<1>1. IsFiniteSet(Messages)
  BY SameCount DEF OutboxAssumption, O!ParityAssumption
<1> QED
  BY <1>1, FS_Subset, FS_CardinalityType, SameCount

\* claim_due of the in-memory outbox asks an expired claim for its due time as well;
\* of the rows the stores keep, none fails that.
LEMMA DueAgree ==
  ASSUME MaxTime \in Nat, NEW row, RowSound(row), NEW moment \in O!Time
  PROVE  O!MemoryDue(row, moment) <=> O!is_due(row, moment)
BY DEF RowSound, O!MemoryDue, O!is_due, O!OutboxMessage, O!Time

\* The updates of a row that has the status they expect.
LEMMA UpdatesAgree ==
  ASSUME MaxTime \in Nat, NEW row, RowSound(row), NEW op \in O!WorkerOps, NEW next \in O!Time,
         row.dispatch_status = O!MemoryExpects(op)
  PROVE  /\ O!MemoryUpdate(op, row, next) = O!PostgresUpdate(op, row, next)
         /\ O!MemoryUpdate(op, row, next) \in O!OutboxMessage
         /\ O!MemoryUpdate(op, row, next).dispatch_status # "claimed"
<1>0. row \in O!OutboxMessage /\ 0 \in O!Time
  BY DEF RowSound, O!Time
<1> DEFINE freed == O!MemoryFreed(row)
<1>1. freed \in O!OutboxMessage /\ freed = O!Unclaimed(row) /\ freed.sending_at = row.sending_at
  BY <1>0 DEF O!MemoryFreed, O!Unclaimed, O!OutboxMessage, O!NoToken
<1>2. CASE op = "mark_sending"
  <2>1. /\ O!MemoryUpdate(op, row, next) = O!mark_sending(row)
        /\ O!PostgresUpdate(op, row, next) = O!mark_sending(row)
    BY <1>2 DEF O!MemoryUpdate, O!PostgresUpdate, O!mark_sending
  <2>2. row.attempts + 1 \in Nat
    BY <1>0 DEF O!OutboxMessage
  <2>3. /\ O!mark_sending(row) \in O!OutboxMessage
        /\ O!mark_sending(row).dispatch_status = "sending"
    BY <1>0, <2>2 DEF O!mark_sending, O!OutboxMessage, O!DeliveryStatus
  <2> QED
    BY <2>1, <2>3
<1> HIDE DEF freed
<1>3. CASE op = "mark_claim_failed"
  BY <1>1, <1>3 DEF O!MemoryUpdate, O!PostgresUpdate, O!mark_claim_failed, O!OutboxMessage,
     O!DeliveryStatus, O!LastError, freed
<1>4. CASE op = "mark_published"
  BY <1>1, <1>4 DEF O!MemoryUpdate, O!PostgresUpdate, O!mark_published, O!OutboxMessage,
     O!DeliveryStatus, O!LastError, freed
<1>5. CASE op = "mark_failed"
  BY <1>1, <1>5 DEF O!MemoryUpdate, O!PostgresUpdate, O!mark_failed, O!OutboxMessage,
     O!DeliveryStatus, O!LastError, freed
<1>6. CASE op = "mark_uncertain"
  BY <1>1, <1>6 DEF O!MemoryUpdate, O!PostgresUpdate, O!mark_uncertain, O!OutboxMessage,
     O!DeliveryStatus, O!LastError, freed
<1>7. CASE op = "release"
  BY <1>1, <1>7 DEF O!MemoryUpdate, O!PostgresUpdate, O!release, O!OutboxMessage,
     O!DeliveryStatus, O!LastError, freed, RowSound, O!require_state_metadata, O!MemoryExpects
<1>8. CASE op = "reschedule"
  BY <1>1, <1>8 DEF O!MemoryUpdate, O!PostgresUpdate, O!reschedule, O!MemoryReschedule,
     O!OutboxMessage, O!DeliveryStatus, O!LastError, freed
<1> QED
  BY <1>2, <1>3, <1>4, <1>5, <1>6, <1>7, <1>8 DEF O!WorkerOps

\* A reminder that a scheduler reports is one the outbox would hand out.
LEMMA MirroredIsDue ==
  ASSUME MaxTime \in Nat, OutboxInv
  PROVE  O!DueJobsClaimable
<1> SUFFICES ASSUME NEW m \in Messages, NEW moment \in O!Time, O!MemoryJobDue(m, moment)
             PROVE  O!MemoryDue(memory[m], moment)
  BY DueAgree DEF O!DueJobsClaimable, OutboxInv, O!SameRows, O!PostgresJobDue, O!MemoryJobDue
<1>1. CASE jobs[m] = O!MemoryMirror(memory[m])
  BY <1>1 DEF O!MemoryJobDue, O!MemoryDue, O!MemoryMirror
<1>2. CASE memory[m] = O!add(notify_at[m])
  BY <1>2 DEF O!MemoryJobDue, O!MemoryDue, O!add, O!NoRow
<1>3. CASE jobs[m] = O!NoReminder
  BY <1>3 DEF O!MemoryJobDue, O!NoReminder
<1> QED
  BY <1>1, <1>2, <1>3 DEF OutboxInv, Mirrored

LEMMA MirrorType ==
  ASSUME NEW row \in O!OutboxMessage
  PROVE  /\ O!MemoryMirror(row) \in O!ScheduledReminder
         /\ O!MemoryMirror(row) = O!mirror_delivery(row)
BY DEF O!MemoryMirror, O!mirror_delivery, O!OutboxMessage, O!ScheduledReminder

\* A call that both stores answer alike, and whose update they agree on when it is made.
LEMMA KeepInv ==
  ASSUME OutboxInv, NEW m \in Messages, NEW mem, NEW pg, NEW code \in O!Codes,
         O!Keep(m, mem, pg, code, code), UNCHANGED <<notify_at, issued>>,
         code = "ok" => mem = pg /\ RowSound(mem)
  PROVE  OutboxInv'
<1>1. O!TypeOK' /\ O!SameAnswers'
  <2>1. /\ memory' \in [Messages -> O!OutboxMessage]
        /\ postgres' \in [Messages -> O!OutboxMessage]
    BY DEF OutboxInv, O!TypeOK, O!Keep, RowSound
  <2>2. /\ jobs' \in [Messages -> O!ScheduledReminder]
        /\ reminders' \in [Messages -> O!ScheduledReminder]
    BY MirrorType DEF OutboxInv, O!TypeOK, O!Keep, RowSound
  <2>3. /\ answers'["memory"] = O!Answer(code, {n \in {m} : code = "ok"})
        /\ answers'["postgres"] = O!Answer(code, {n \in {m} : code = "ok"})
    BY DEF O!Keep
  <2>4. notify_at' = notify_at /\ issued' = issued
    OBVIOUS
  <2> QED
    BY <2>1, <2>2, <2>3, <2>4 DEF OutboxInv, O!TypeOK, O!SameAnswers, O!Answer, O!Time
<1>2. O!SameRows'
  BY MirrorType DEF OutboxInv, O!TypeOK, O!Keep, O!SameRows, RowSound
<1>3. \A k \in Messages : /\ RowSound(memory[k])'
                          /\ Mirrored(memory[k], jobs[k], notify_at[k])'
  <2>1. ASSUME NEW k \in Messages
        PROVE  \/ /\ memory'[k] = memory[k] /\ jobs'[k] = jobs[k]
               \/ /\ RowSound(memory'[k]) /\ jobs'[k] = O!MemoryMirror(memory'[k])
    BY DEF OutboxInv, O!TypeOK, O!Keep
  <2>2. notify_at' = notify_at
    OBVIOUS
  <2>3. ASSUME NEW k \in Messages
        PROVE  RowSound(memory'[k]) /\ Mirrored(memory'[k], jobs'[k], notify_at'[k])
    BY <2>1, <2>2 DEF OutboxInv, Mirrored
  <2> QED
    BY <2>3 DEF RowSound, Mirrored, O!OutboxMessage, O!require_state_metadata, O!Time
<1> QED
  BY <1>1, <1>2, <1>3 DEF OutboxInv

\* The stores say the same to a worker's call, and the update they make keeps the row sound.
LEMMA VerdictsAgree ==
  ASSUME OutboxAssumption, OutboxInv, NEW op \in O!WorkerOps, NEW tenant \in Tenants,
         NEW m \in Messages, NEW token, NEW next \in O!Time
  PROVE  LET mem  == O!MemoryUpdate(op, memory[m], next)
             pg   == O!PostgresUpdate(op, postgres[m], next)
             code == O!MemoryVerdict(op, tenant, m, token, mem)
         IN  /\ code \in O!Codes
             /\ O!PostgresVerdict(op, tenant, m, token, pg) = code
             /\ code = "ok" => mem = pg /\ RowSound(mem)
<1> DEFINE row == memory[m]
           mem == O!MemoryUpdate(op, row, next)
           pg  == O!PostgresUpdate(op, postgres[m], next)
           valid == O!require_state_metadata(mem)
<1>1. memory = postgres /\ RowSound(row)
  BY DEF OutboxInv, O!SameRows
<1>2. O!Candidates(memory, tenant, "any") = O!Candidates(postgres, tenant, "any")
  BY <1>1
<1>3. O!PostgresExpects(op) = O!MemoryExpects(op)
  BY DEF O!PostgresExpects, O!MemoryExpects, O!WorkerOps
<1>4. row.dispatch_status = O!MemoryExpects(op) =>
        mem = pg /\ mem \in O!OutboxMessage /\ mem.dispatch_status # "claimed"
  BY <1>1, UpdatesAgree DEF OutboxAssumption
<1>5. row = postgres[m]
  BY <1>1
<1> HIDE DEF row, mem, pg
<1>6. O!MemoryVerdict(op, tenant, m, token, mem) =
        IF m \notin O!Candidates(memory, tenant, "any") THEN "not_found"
        ELSE IF row.claim_token # token THEN "denied"
        ELSE IF row.dispatch_status # O!MemoryExpects(op) THEN "conflict"
        ELSE IF ~valid THEN "invalid" ELSE "ok"
  BY DEF O!MemoryVerdict, row
<1>7. O!PostgresVerdict(op, tenant, m, token, pg) =
        IF /\ m \in O!Candidates(memory, tenant, "any")
           /\ row.dispatch_status = O!MemoryExpects(op) /\ row.claim_token = token
        THEN IF valid THEN "ok" ELSE "invalid"
        ELSE IF m \notin O!Candidates(memory, tenant, "any") THEN "not_found"
        ELSE IF row.claim_token # token THEN "denied" ELSE "conflict"
  BY <1>2, <1>3, <1>4, <1>5 DEF O!PostgresVerdict, O!Guarded
<1> HIDE DEF valid
<1>8. O!PostgresVerdict(op, tenant, m, token, pg) = O!MemoryVerdict(op, tenant, m, token, mem)
  BY <1>6, <1>7
<1>9. O!MemoryVerdict(op, tenant, m, token, mem) \in O!Codes
  BY <1>6 DEF O!Codes
<1>10. O!MemoryVerdict(op, tenant, m, token, mem) = "ok" => mem = pg /\ RowSound(mem)
  BY <1>4, <1>6 DEF RowSound, valid
<1> QED
  BY <1>8, <1>9, <1>10 DEF mem, pg, row

LEMMA TransitionInv ==
  ASSUME OutboxAssumption, OutboxInv, NEW op \in O!WorkerOps, NEW tenant \in Tenants,
         NEW m \in Messages, NEW token, NEW next \in O!NextAttempts(op),
         O!Transition(op, tenant, m, token, next)
  PROVE  OutboxInv'
<1> DEFINE mem  == O!MemoryUpdate(op, memory[m], next)
           pg   == O!PostgresUpdate(op, postgres[m], next)
           code == O!MemoryVerdict(op, tenant, m, token, mem)
<1>1. next \in O!Time
  BY DEF O!NextAttempts, O!Time, OutboxAssumption
<1>2. /\ code \in O!Codes
      /\ O!PostgresVerdict(op, tenant, m, token, pg) = code
      /\ code = "ok" => mem = pg /\ RowSound(mem)
  BY <1>1, VerdictsAgree
<1>3. O!Keep(m, mem, pg, code, code) /\ UNCHANGED <<notify_at, issued>>
  BY <1>2 DEF O!Transition
<1> HIDE DEF mem, pg, code
<1> QED
  BY <1>2, <1>3, KeepInv

LEMMA ResolveInv ==
  ASSUME OutboxAssumption, OutboxInv, NEW op \in {"delivered", "retry"}, NEW tenant \in Tenants,
         NEW m \in Messages, NEW next \in O!NextAttempts(op), O!Resolve(op, tenant, m, next)
  PROVE  OutboxInv'
<1> DEFINE row  == memory[m]
           mem  == O!MemoryResolved(op, row, next)
           pg   == IF op = "delivered" THEN O!resolve_uncertain_delivered(postgres[m])
                   ELSE O!resolve_uncertain_retry(postgres[m], next)
           code == O!MemoryResolveVerdict(tenant, m)
<1>1. next \in O!Time
  BY DEF O!NextAttempts, O!Time, OutboxAssumption
<1>2. memory = postgres /\ RowSound(row)
  BY DEF OutboxInv, O!SameRows
<1>3. code \in O!Codes /\ code = O!PostgresResolveVerdict(tenant, m)
  BY <1>2 DEF O!MemoryResolveVerdict, O!PostgresResolveVerdict, O!Codes
<1>4. code = "ok" => row.dispatch_status = "uncertain"
  BY DEF O!MemoryResolveVerdict
<1>5. mem = pg
  BY <1>2 DEF O!MemoryResolved, O!resolve_uncertain_delivered, O!resolve_uncertain_retry
<1> HIDE DEF row
<1>6. ASSUME row.dispatch_status = "uncertain"
      PROVE  RowSound(mem)
  <2>1. CASE op = "delivered"
    <3>1. mem = [row EXCEPT !.dispatch_status = "published", !.published_at = TRUE,
                            !.last_error = "none"]
      BY <2>1 DEF O!MemoryResolved
    <3> QED
      BY <1>2, <1>6, <3>1 DEF RowSound, O!OutboxMessage, O!DeliveryStatus, O!LastError,
         O!require_state_metadata
  <2>2. CASE op = "retry"
    <3>1. mem = [row EXCEPT !.dispatch_status = "pending", !.next_attempt_at = next,
                            !.sending_at = FALSE, !.published_at = FALSE]
      BY <2>2 DEF O!MemoryResolved
    <3> QED
      BY <1>1, <1>2, <1>6, <3>1 DEF RowSound, O!OutboxMessage, O!DeliveryStatus,
         O!require_state_metadata
  <2> QED
    BY <2>1, <2>2
<1>7. O!Keep(m, mem, pg, code, code) /\ UNCHANGED <<notify_at, issued>>
  BY <1>3 DEF O!Resolve, row
<1> HIDE DEF mem, pg, code
<1> QED
  BY <1>3, <1>4, <1>5, <1>6, <1>7, KeepInv

LEMMA AddInv ==
  ASSUME OutboxAssumption, OutboxInv, NEW m \in Messages, NEW at \in O!Time, O!Add(m, at)
  PROVE  OutboxInv'
<1>1. RowSound(O!add(at)) /\ O!scheduled \in O!ScheduledReminder
  <2>1. O!NoRow \in O!OutboxMessage
    BY DEF O!NoRow, O!NoToken, O!OutboxMessage, O!LastError, O!Time, OutboxAssumption
  <2>2. O!add(at) \in O!OutboxMessage
    BY <2>1 DEF O!add, O!OutboxMessage, O!DeliveryStatus
  <2>3. /\ O!add(at).dispatch_status = "pending" /\ O!add(at).claim_token = O!NoToken
        /\ ~O!add(at).sending_at /\ ~O!add(at).published_at
    BY DEF O!add, O!NoRow
  <2>4. O!NoReminder \in O!ScheduledReminder
    BY DEF O!NoReminder, O!ScheduledReminder, O!LastError, O!Time, OutboxAssumption
  <2>5. O!scheduled \in O!ScheduledReminder
    BY <2>4 DEF O!scheduled, O!ScheduledReminder, O!DeliveryStatus
  <2> QED
    BY <2>2, <2>3, <2>5 DEF RowSound, O!require_state_metadata
<1>2. /\ memory' \in [Messages -> O!OutboxMessage] /\ postgres' = memory'
      /\ jobs' \in [Messages -> O!ScheduledReminder] /\ reminders' = jobs'
      /\ notify_at' \in [Messages -> O!Time]
  BY <1>1 DEF OutboxInv, O!TypeOK, O!SameRows, O!Add, RowSound
<1>3. O!SameAnswers' /\ \A s \in {"memory", "postgres"} :
        answers'[s].code \in O!Codes /\ answers'[s].returned \subseteq Messages
  BY DEF O!Add, O!Answer, O!SameAnswers, O!Codes
<1>4. O!TypeOK'
  BY <1>2, <1>3 DEF OutboxInv, O!TypeOK, O!Add, O!OutboxMessage, O!ScheduledReminder, O!Time
<1>5. ASSUME NEW k \in Messages
      PROVE  RowSound(memory'[k]) /\ Mirrored(memory'[k], jobs'[k], notify_at'[k])
  <2>1. CASE k = m
    <3>1. memory'[m] = O!add(at) /\ jobs'[m] = O!scheduled /\ notify_at'[m] = at
      BY DEF OutboxInv, O!TypeOK, O!Add
    <3> QED
      BY <1>1, <2>1, <3>1 DEF Mirrored
  <2>2. CASE k # m
    <3>1. memory'[k] = memory[k] /\ jobs'[k] = jobs[k] /\ notify_at'[k] = notify_at[k]
      BY <2>2 DEF OutboxInv, O!TypeOK, O!Add
    <3> QED
      BY <3>1 DEF OutboxInv
  <2> QED
    BY <2>1, <2>2
<1> QED
  BY <1>2, <1>3, <1>4, <1>5 DEF OutboxInv, O!SameRows, RowSound, Mirrored

\* Several rows at once: the same ones in both stores, each to the same sound row.
LEMMA BatchInv ==
  ASSUME OutboxInv, NEW S \in SUBSET Messages,
         memory' = [m \in Messages |-> memory'[m]],
         \A m \in Messages : IF m \in S THEN RowSound(memory'[m]) ELSE memory'[m] = memory[m],
         postgres' = memory',
         jobs' = [m \in Messages |-> IF m \in S THEN O!MemoryMirror(memory'[m]) ELSE jobs[m]],
         reminders' = [m \in Messages |-> IF m \in S THEN O!mirror_delivery(postgres'[m])
                                          ELSE reminders[m]],
         notify_at' = notify_at, issued' \in 0 .. MaxTokens,
         answers' = [memory |-> O!Answer("ok", S), postgres |-> O!Answer("ok", S)]
  PROVE  OutboxInv'
<1>1. memory' \in [Messages -> O!OutboxMessage]
  BY DEF OutboxInv, O!TypeOK, RowSound
<1>2. jobs' \in [Messages -> O!ScheduledReminder]
  BY <1>1, MirrorType DEF OutboxInv, O!TypeOK
<1>3. \A m \in Messages : O!MemoryMirror(memory'[m]) = O!mirror_delivery(postgres'[m])
  BY <1>1, MirrorType
<1>4. reminders' = jobs'
  BY <1>3 DEF OutboxInv, O!SameRows
<1>5. O!SameAnswers' /\ \A s \in {"memory", "postgres"} :
        answers'[s].code \in O!Codes /\ answers'[s].returned \subseteq Messages
  BY DEF O!Answer, O!SameAnswers, O!Codes
<1>6. O!TypeOK'
  BY <1>1, <1>2, <1>4, <1>5 DEF OutboxInv, O!TypeOK, O!OutboxMessage, O!ScheduledReminder, O!Time
<1>7. ASSUME NEW k \in Messages
      PROVE  RowSound(memory'[k]) /\ Mirrored(memory'[k], jobs'[k], notify_at'[k])
  <2>1. CASE k \in S
    BY <2>1 DEF Mirrored
  <2>2. CASE k \notin S
    BY <2>2 DEF OutboxInv
  <2> QED
    BY <2>1, <2>2
<1> QED
  BY <1>4, <1>5, <1>6, <1>7 DEF OutboxInv, O!SameRows, RowSound, Mirrored

LEMMA ClaimInv ==
  ASSUME OutboxAssumption, OutboxInv, NEW tenant \in Tenants, NEW moment \in O!Time,
         NEW limit \in Limits, NEW type \in O!Types \cup {"any"},
         O!ClaimDue(tenant, moment, limit, type)
  PROVE  OutboxInv'
<1> DEFINE due   == {m \in O!Candidates(memory, tenant, type) : O!MemoryDue(memory[m], moment)}
           S     == O!Oldest(due, limit)
           until == O!Later(moment, Lease)
           new(m) == O!claim(memory[m], O!NewToken(S, m), until)
<1>1. memory = postgres /\ \A m \in Messages : RowSound(memory[m])
  BY DEF OutboxInv, O!SameRows
<1>2. {m \in O!Candidates(postgres, tenant, type) : O!is_due(postgres[m], moment)} = due
  BY <1>1, DueAgree DEF O!Candidates, OutboxAssumption
<1>3. S \in SUBSET Messages /\ \A m \in S : O!MemoryDue(memory[m], moment)
  BY DEF O!Oldest, O!Candidates
<1>4. /\ issued + O!Cardinality(S) <= MaxTokens
      /\ moment < until
      /\ memory' = [m \in Messages |-> IF m \in S THEN new(m) ELSE memory[m]]
      /\ postgres' = [m \in Messages |-> IF m \in S THEN new(m) ELSE postgres[m]]
      /\ jobs' = [m \in Messages |-> IF m \in S THEN O!MemoryMirror(memory'[m]) ELSE jobs[m]]
      /\ reminders' = [m \in Messages |-> IF m \in S THEN O!mirror_delivery(postgres'[m])
                                          ELSE reminders[m]]
      /\ issued' = issued + O!Cardinality(S)
      /\ answers' = [memory |-> O!Answer("ok", S), postgres |-> O!Answer("ok", S)]
      /\ notify_at' = notify_at
  <2>1. S \cup S = S
    OBVIOUS
  <2> HIDE DEF S
  <2> QED
    BY <1>1, <1>2, <2>1 DEF O!ClaimDue, O!claim, S
<1>5. issued \in Nat /\ O!Cardinality(S) \in Nat
  BY <1>3, CountIsNumber DEF OutboxInv, O!TypeOK
<1>6. ASSUME NEW m \in S
      PROVE  RowSound(new(m))
  <2> DEFINE row == memory[m]
             token == O!NewToken(S, m)
  <2>1. token \in Nat \ {0}
    BY <1>3, <1>5, TokenIsNew
  <2>2. RowSound(row) /\ O!MemoryDue(row, moment)
    BY <1>1, <1>3
  <2>3. until \in O!Time
    BY DEF O!Later, O!Time, OutboxAssumption, O!ParityAssumption
  <2> HIDE DEF row, token, until, due, S
  <2> DEFINE claimed == O!claim(row, token, until)
  <2>4. /\ claimed \in O!OutboxMessage
        /\ claimed.dispatch_status = "claimed" /\ claimed.claim_token = token
        /\ claimed.claimed_until = until /\ claimed.next_attempt_at = row.next_attempt_at
        /\ claimed.sending_at = row.sending_at /\ claimed.published_at = row.published_at
    BY <2>1, <2>2, <2>3 DEF RowSound, O!claim, O!OutboxMessage, O!DeliveryStatus
  <2>5. /\ ~row.sending_at /\ ~row.published_at /\ row.next_attempt_at <= moment
        /\ row.next_attempt_at \in Nat /\ moment \in Nat /\ until \in Nat
    BY <2>2, <2>3 DEF RowSound, O!MemoryDue, O!require_state_metadata, O!OutboxMessage, O!Time
  <2> HIDE DEF claimed
  <2>6. RowSound(claimed)
    BY <1>4, <2>1, <2>4, <2>5 DEF RowSound, O!require_state_metadata, O!NoToken
  <2> QED
    BY <2>6 DEF claimed, row, token
<1>7. issued' \in 0 .. MaxTokens /\ postgres' = memory'
  BY <1>1, <1>4, <1>5 DEF OutboxAssumption, O!ParityAssumption
<1>8. /\ memory' = [m \in Messages |-> memory'[m]]
      /\ \A m \in Messages : IF m \in S THEN RowSound(memory'[m]) ELSE memory'[m] = memory[m]
  BY <1>4, <1>6
<1> HIDE DEF S, new
<1> QED
  BY <1>3, <1>4, <1>7, <1>8, BatchInv

LEMMA SweepInv ==
  ASSUME OutboxAssumption, OutboxInv, NEW tenant \in Tenants, NEW moment \in O!Time,
         NEW limit \in Limits, NEW type \in O!Types \cup {"any"},
         O!SweepExpiredSending(tenant, moment, limit, type)
  PROVE  OutboxInv'
<1> DEFINE late == {m \in O!Candidates(memory, tenant, type) : O!MemoryExpired(memory[m], moment)}
           S    == O!Oldest(late, limit)
           new(m) == O!mark_uncertain(memory[m])
<1>1. memory = postgres /\ \A m \in Messages : RowSound(memory[m])
  BY DEF OutboxInv, O!SameRows
<1>2. {m \in O!Candidates(postgres, tenant, type) : O!is_expired_sending(postgres[m], moment)} = late
  BY <1>1 DEF O!is_expired_sending, O!MemoryExpired
<1>3. S \in SUBSET Messages /\ \A m \in S : memory[m].dispatch_status = "sending"
  BY DEF O!Oldest, O!Candidates, O!MemoryExpired
<1>4. /\ memory' = [m \in Messages |-> IF m \in S
                                       THEN O!MemoryUpdate("mark_uncertain", memory[m], 0)
                                       ELSE memory[m]]
      /\ postgres' = [m \in Messages |-> IF m \in S THEN new(m) ELSE postgres[m]]
      /\ jobs' = [m \in Messages |-> IF m \in S THEN O!MemoryMirror(memory'[m]) ELSE jobs[m]]
      /\ reminders' = [m \in Messages |-> IF m \in S THEN O!mirror_delivery(postgres'[m])
                                          ELSE reminders[m]]
      /\ answers' = [memory |-> O!Answer("ok", S), postgres |-> O!Answer("ok", S)]
      /\ notify_at' = notify_at /\ issued' = issued
  <2> HIDE DEF S
  <2> QED
    BY <1>1, <1>2 DEF O!SweepExpiredSending, S
<1>5. \A m \in Messages : O!MemoryUpdate("mark_uncertain", memory[m], 0) = new(m)
  BY DEF O!MemoryUpdate, O!mark_uncertain, O!MemoryFreed, O!Unclaimed
<1>6. ASSUME NEW m \in S
      PROVE  RowSound(new(m))
  <2> DEFINE row == memory[m]
             freed == O!Unclaimed(row)
  <2>1. RowSound(row) /\ row.dispatch_status = "sending" /\ 0 \in O!Time
    BY <1>1, <1>3 DEF O!Time, OutboxAssumption
  <2> HIDE DEF row
  <2>2. /\ freed \in O!OutboxMessage /\ freed.claim_token = O!NoToken
        /\ freed.sending_at = row.sending_at /\ freed.published_at = row.published_at
        /\ freed.attempts = row.attempts
    BY <2>1 DEF RowSound, O!Unclaimed, O!OutboxMessage, O!NoToken
  <2> DEFINE marked == O!mark_uncertain(row)
  <2>3. /\ marked \in O!OutboxMessage /\ marked.claim_token = O!NoToken
        /\ marked.sending_at = row.sending_at /\ marked.published_at = row.published_at
        /\ marked.attempts = row.attempts /\ marked.dispatch_status = "uncertain"
        /\ marked.last_error = "unknown"
    <3> HIDE DEF freed
    <3> QED
      BY <2>2 DEF O!mark_uncertain, O!OutboxMessage, O!DeliveryStatus, O!LastError, freed
  <2> HIDE DEF marked
  <2>4. RowSound(marked)
    BY <2>1, <2>3 DEF RowSound, O!require_state_metadata
  <2> QED
    BY <2>4 DEF marked, row
<1>7. issued' \in 0 .. MaxTokens /\ postgres' = memory'
  BY <1>1, <1>4, <1>5 DEF OutboxInv, O!TypeOK
<1>8. memory' = [m \in Messages |-> IF m \in S THEN new(m) ELSE memory[m]]
  BY <1>4, <1>5
<1>9. /\ memory' = [m \in Messages |-> memory'[m]]
      /\ \A m \in Messages : IF m \in S THEN RowSound(memory'[m]) ELSE memory'[m] = memory[m]
  BY <1>6, <1>8
<1> HIDE DEF S, new
<1> QED
  BY <1>3, <1>4, <1>7, <1>9, BatchInv

LEMMA OutboxInitial ==
  ASSUME OutboxAssumption, O!Init
  PROVE  OutboxInv
<1>1. O!NoRow \in O!OutboxMessage /\ O!NoReminder \in O!ScheduledReminder /\ 0 \in O!Time
  BY DEF O!NoRow, O!NoToken, O!OutboxMessage, O!LastError, O!Time, OutboxAssumption,
     O!NoReminder, O!ScheduledReminder
<1>2. RowSound(O!NoRow)
  BY <1>1 DEF RowSound, O!NoRow, O!require_state_metadata, O!NoToken
<1>3. O!TypeOK
  BY <1>1 DEF O!Init, O!TypeOK, O!Answer, O!Codes, OutboxAssumption, O!ParityAssumption
<1> QED
  BY <1>2, <1>3 DEF O!Init, OutboxInv, O!SameAnswers, O!SameRows, Mirrored

LEMMA OutboxInvariant ==
  ASSUME OutboxAssumption
  PROVE  O!Spec => []OutboxInv
<1>1. O!Init => OutboxInv
  BY OutboxInitial
<1>2. OutboxInv /\ [O!Next]_O!vars => OutboxInv'
  <2> SUFFICES ASSUME OutboxInv, [O!Next]_O!vars
               PROVE  OutboxInv'
    OBVIOUS
  <2>1. ASSUME NEW m \in Messages, NEW at \in O!Time, O!Add(m, at)
        PROVE  OutboxInv'
    BY <2>1, AddInv
  <2>2. ASSUME NEW tenant \in Tenants, NEW moment \in O!Time, NEW limit \in Limits,
               NEW type \in O!Types \cup {"any"},
               \/ O!ClaimDue(tenant, moment, limit, type)
               \/ O!SweepExpiredSending(tenant, moment, limit, type)
        PROVE  OutboxInv'
    BY <2>2, ClaimInv, SweepInv
  <2>3. ASSUME NEW tenant \in Tenants, NEW m \in Messages, NEW op \in O!WorkerOps,
               NEW token \in 1 .. issued, NEW next \in O!NextAttempts(op),
               O!Transition(op, tenant, m, token, next)
        PROVE  OutboxInv'
    BY <2>3, TransitionInv
  <2>4. ASSUME NEW tenant \in Tenants, NEW m \in Messages, NEW op \in {"delivered", "retry"},
               NEW next \in O!NextAttempts(op), O!Resolve(op, tenant, m, next)
        PROVE  OutboxInv'
    BY <2>4, ResolveInv
  <2>5. CASE UNCHANGED O!vars
    BY <2>5 DEF O!vars, OutboxInv, O!TypeOK, O!SameAnswers, O!SameRows, RowSound, Mirrored
  <2> QED
    BY <2>1, <2>2, <2>3, <2>4, <2>5 DEF O!Next
<1> QED
  BY <1>1, <1>2, PTL DEF O!Spec

\* The component on its own.
LEMMA OutboxPart ==
  ASSUME OutboxAssumption
  PROVE  O!Spec => []O!OutboxesAgree
<1>1. OutboxInv => O!OutboxesAgree
  BY MirroredIsDue DEF OutboxInv, RowSound, O!OutboxesAgree, O!MemoryRowsValid, OutboxAssumption
<1> QED
  BY <1>1, OutboxInvariant, PTL

\* For every number of messages, tenants, limits and instants: after any sequence of
\* calls, with clocks that may run behind one another, InMemoryOutbox and PostgresOutbox
\* have given the same answers and hold the same rows, every row passes the validator,
\* and what a scheduler reports as due the outbox would hand out.
THEOREM OutboxesAlwaysAgree ==
  ASSUME OutboxAssumption
  PROVE  Spec => []OutboxesAgree
<1> DEFINE followed == part = "outbox"
<1>1. Init => (followed => O!Init)
  BY DEF Init
<1>2. [Next]_vars => (followed' <=> followed) /\ (followed => [O!Next]_O!vars)
  BY DEF Next, vars, outboxVars, insertVars, O!vars
<1>3. (followed => O!OutboxesAgree) => OutboxesAgree
  BY DEF OutboxesAgree
<1>4. O!Spec => []O!OutboxesAgree
  BY OutboxPart
<1> HIDE DEF followed
<1> QED
  BY <1>1, <1>2, <1>3, <1>4, PTL DEF Spec, O!Spec

-----------------------------------------------------------------------------
(* Idempotent inserts.                                                     *)
(*                                                                         *)
(* The unique indexes keep the rows, committed or not, from clashing, so   *)
(* at most one row can be under a key.  A row that stopped an INSERT is    *)
(* one the caller's later SELECTs see, since rows are never removed and a  *)
(* SERIALIZABLE transaction only goes on when the row is in its snapshot.  *)

Positions == {"begin", "insert", "commit", "by_key", "by_id", "done"}

\* A row is what its caller asked for.
RowOf(r) == r.by \in Callers /\ r = I!Row(r.by)

InsertTypes ==
  /\ request \in [Callers -> Requests]
  /\ pc \in [Callers -> Positions]
  /\ answer = [c \in Callers |-> answer[c]]
  /\ twin = [c \in Callers |-> twin[c]]
  /\ snapshot \in [Callers -> SUBSET rows]

\* Committed rows, and those of open transactions.
RowsInv ==
  /\ \A r \in rows : RowOf(r) /\ pc[r.by] = "done" /\ answer[r.by] = "stored"
  /\ \A r \in inserted : RowOf(r) /\ pc[r.by] = "commit"
  /\ \A c \in Callers : pc[c] = "commit" => I!Row(c) \in inserted
  /\ \A r, s \in rows \cup inserted : r # s => ~I!Clash(r, s)

\* What a call has found out, or was told.
CallSound(c) ==
  /\ pc[c] # "done" => answer[c] = "none"
  /\ pc[c] \in {"insert", "commit", "by_key", "by_id"} =>
       request[c].tenant = request[c].caller_tenant
  /\ pc[c] = "by_key" => \E s \in I!Visible(c) : I!Clash(I!Row(c), s)
  /\ pc[c] = "by_id" =>
       twin[c] = "conflict" /\ \E s \in I!Visible(c) : I!SameDurableId(I!Row(c), s)
  /\ answer[c] # "internal"
  /\ I!Done(c) => answer[c] = twin[c]
  /\ I!Done(c) /\ answer[c] = "existing" =>
       \E s \in rows : /\ I!SameKey(I!Row(c), s)
                       /\ s.asked.event = request[c].event /\ s.asked.body = request[c].body
                       /\ s.by # c

InsertInv == InsertTypes /\ RowsInv /\ \A c \in Callers : CallSound(c)

\* Keys and ids as relations between rows.
LEMMA KeysRelate ==
  ASSUME NEW r, NEW s, NEW t
  PROVE  /\ I!SameKey(r, s) => I!SameKey(s, r)
         /\ I!SameKey(r, s) /\ I!SameKey(r, t) => I!SameKey(s, t)
         /\ I!Clash(r, s) => I!Clash(s, r)
         /\ I!Clash(r, s) <=> I!SameKey(r, s) \/ I!SameDurableId(r, s)
         /\ I!SameKey(r, s) => r.asked.kind = s.asked.kind
BY DEF I!SameKey, I!SameTenant, I!SameDurableId, I!Clash

LEMMA RowFields ==
  ASSUME NEW c \in Callers
  PROVE  I!Row(c).by = c /\ I!Row(c).asked = request[c] /\ I!Row(c).id = I!DurableId(c)
BY DEF I!Row

\* The fingerprint column tells apart what the in-memory store compares field by field.
LEMMA FingerprintsCompare ==
  ASSUME I!StoreAssumption, NEW a \in Requests, NEW b \in Requests, a.kind = b.kind
  PROVE  LET same == I!Fingerprint(b) \in I!Compatible(a)
         IN  /\ a.kind = "event" => (same <=> b.event = a.event /\ b.body = a.body)
             /\ a.kind = "outbox" =>
                  (same <=> b.event = a.event /\ b.body = a.body /\ b.id = a.id)
             /\ a.kind = "approval" => (same <=> b.body = a.body /\ b.id = a.id)
             /\ a.kind \in {"calendar", "reminder"} => (same <=> b.body = a.body)
<1>1. a.kind \in I!Kinds /\ (a.kind # "outbox" => b.event = a.event)
  BY DEF I!StoreAssumption
<1>2. CASE a.kind = "event"
  BY <1>2 DEF I!Fingerprint, I!Compatible
<1>3. CASE a.kind = "outbox"
  BY <1>3 DEF I!Fingerprint, I!Compatible
<1>4. CASE a.kind = "approval"
  BY <1>1, <1>4 DEF I!Fingerprint, I!Compatible
<1>5. CASE a.kind = "calendar"
  BY <1>1, <1>5 DEF I!Fingerprint, I!Compatible
<1>6. CASE a.kind = "reminder"
  BY <1>1, <1>6 DEF I!Fingerprint, I!Compatible
<1> QED
  BY <1>1, <1>2, <1>3, <1>4, <1>5, <1>6 DEF I!Kinds

\* What the in-memory store answers, in the terms of the PostgreSQL one.
TwinSays(S, c) ==
  IF request[c].tenant # request[c].caller_tenant THEN "denied"
  ELSE IF \E s \in S : /\ I!SameKey(I!Row(c), s)
                       /\ I!Fingerprint(s.asked) \in I!Compatible(request[c])
       THEN "existing"
  ELSE IF \E s \in S : I!Clash(I!Row(c), s) THEN "conflict" ELSE "stored"

LEMMA TwinAnswers ==
  ASSUME I!StoreAssumption, request \in [Callers -> Requests], NEW c \in Callers,
         NEW S, \A s \in S : RowOf(s)
  PROVE  I!Twin(S, I!Row(c)) = TwinSays(S, c)
<1> DEFINE r == I!Row(c)
           a == request[c]
           Same(s, compared) == \A field \in compared : s.asked[field] = r.asked[field]
           Fits(s) == I!Fingerprint(s.asked) \in I!Compatible(a)
<1>1. r.asked = a /\ a \in Requests /\ a.kind \in I!Kinds
  BY RowFields DEF I!StoreAssumption
<1>2. ASSUME NEW compared, \A s \in S : I!SameKey(r, s) => (Same(s, compared) <=> Fits(s))
      PROVE  I!MemoryAnswer(S, r, compared) = TwinSays(S, c)
  <2>1. (\E s \in S : I!Clash(r, s)) <=>
          {s \in S : I!SameKey(r, s)} # {} \/ {s \in S : I!SameDurableId(r, s)} # {}
    BY DEF I!Clash
  <2>2. (\E s \in {t \in S : I!SameKey(r, t)} : Same(s, compared))
          <=> \E s \in S : I!SameKey(r, s) /\ Fits(s)
    BY <1>2
  <2>3. I!MemoryAnswer(S, r, compared) =
          IF a.tenant # a.caller_tenant THEN "denied"
          ELSE IF \E s \in {t \in S : I!SameKey(r, t)} : Same(s, compared) THEN "existing"
          ELSE IF \/ {s \in S : I!SameKey(r, s)} # {}
                  \/ {s \in S : I!SameDurableId(r, s)} # {} THEN "conflict" ELSE "stored"
    <3> HIDE DEF r
    <3> QED
      BY <1>1 DEF I!MemoryAnswer
  <2>4. TwinSays(S, c) =
          IF a.tenant # a.caller_tenant THEN "denied"
          ELSE IF \E s \in S : I!SameKey(r, s) /\ Fits(s) THEN "existing"
          ELSE IF \E s \in S : I!Clash(r, s) THEN "conflict" ELSE "stored"
    BY DEF TwinSays
  <2> HIDE DEF Same, Fits, r, a
  <2> QED
    BY <2>1, <2>2, <2>3, <2>4
<1>3. ASSUME NEW s \in S, I!SameKey(r, s)
      PROVE  /\ a.kind = "event" => (Same(s, {"event", "body"}) <=> Fits(s))
             /\ a.kind = "outbox" => (Same(s, {"event", "body", "id"}) <=> Fits(s))
             /\ a.kind = "approval" => (Same(s, {"body", "id"}) <=> Fits(s))
             /\ a.kind \in {"calendar", "reminder"} => (Same(s, {"body"}) <=> Fits(s))
  <2> DEFINE b == s.asked
  <2>1. b \in Requests /\ b.kind = a.kind
    BY <1>1, <1>3, KeysRelate, RowFields DEF RowOf
  <2> HIDE DEF a, b, r
  <2> QED
    BY <1>1, <2>1, FingerprintsCompare DEF b
<1> HIDE DEF Same, Fits, r, a
<1>4. CASE a.kind = "event"
  BY <1>1, <1>2, <1>3, <1>4 DEF I!Twin, I!memory_append, r
<1>5. CASE a.kind = "outbox"
  BY <1>1, <1>2, <1>3, <1>5 DEF I!Twin, I!memory_add, r
<1>6. CASE a.kind = "approval"
  BY <1>1, <1>2, <1>3, <1>6 DEF I!Twin, I!memory_create, r
<1>7. CASE a.kind = "calendar"
  BY <1>1, <1>2, <1>3, <1>7 DEF I!Twin, I!memory_create_event, r
<1>8. CASE a.kind = "reminder"
  BY <1>1, <1>2, <1>3, <1>8 DEF I!Twin, I!memory_schedule, r
<1> QED
  BY <1>1, <1>4, <1>5, <1>6, <1>7, <1>8 DEF I!Kinds

\* No step changes what a caller asks.
LEMMA AskedStays ==
  ASSUME request' = request
  PROVE  /\ \A c : I!Row(c)' = I!Row(c)
         /\ \A r : RowOf(r)' <=> RowOf(r)
<1>1. \A c : I!Row(c)' = I!Row(c)
  BY DEF I!Row, I!DurableId
<1> QED
  BY <1>1 DEF RowOf

\* A step of one caller leaves what the others know true: no row goes away.
LEMMA OthersKeep ==
  ASSUME InsertInv, NEW c \in Callers, request' = request, rows \subseteq rows',
         NEW d \in Callers, d # c, pc'[d] = pc[d], answer'[d] = answer[d],
         twin'[d] = twin[d], snapshot'[d] = snapshot[d]
  PROVE  CallSound(d)'
<1>1. I!Row(d)' = I!Row(d)
  BY AskedStays
<1>2. I!Visible(d) \subseteq I!Visible(d)'
  BY DEF I!Visible
<1>3. CallSound(d)
  BY DEF InsertInv
<1> DEFINE r == I!Row(d)
<1>4. /\ pc[d] = "by_key" => \E s \in I!Visible(d)' : I!Clash(r, s)
      /\ pc[d] = "by_id" => \E s \in I!Visible(d)' : I!SameDurableId(r, s)
  BY <1>2, <1>3 DEF CallSound
<1>5. I!Done(d)' <=> I!Done(d)
  BY DEF I!Done
<1>6. I!Done(d) /\ answer[d] = "existing" =>
        \E s \in rows' : /\ I!SameKey(r, s)
                         /\ s.asked.event = request[d].event /\ s.asked.body = request[d].body
                         /\ s.by # d
  BY <1>3 DEF CallSound
<1> HIDE DEF r
<1>7. r = I!Row(d)'
  BY <1>1 DEF r
<1> QED
  BY <1>3, <1>4, <1>5, <1>6, <1>7 DEF CallSound

\* A step of one caller that touches no row but through its own call.
LEMMA StepInv ==
  ASSUME InsertInv, NEW c \in Callers, NEW to \in Positions, request' = request,
         pc' = [pc EXCEPT ![c] = to], rows \subseteq rows',
         answer' = [d \in Callers |-> answer'[d]], twin' = [d \in Callers |-> twin'[d]],
         snapshot' \in [Callers -> SUBSET rows'],
         \A d \in Callers \ {c} : /\ answer'[d] = answer[d] /\ twin'[d] = twin[d]
                                  /\ snapshot'[d] = snapshot[d],
         RowsInv', CallSound(c)'
  PROVE  InsertInv'
<1>1. InsertTypes'
  BY DEF InsertInv, InsertTypes
<1>2. ASSUME NEW d \in Callers
      PROVE  CallSound(d)'
  <2>1. CASE d = c
    BY <2>1
  <2>2. CASE d # c
    <3>1. pc'[d] = pc[d]
      BY <2>2 DEF InsertInv, InsertTypes
    <3> QED
      BY <2>2, <3>1, OthersKeep
  <2> QED
    BY <2>1, <2>2
<1> QED
  BY <1>1, <1>2 DEF InsertInv

\* Rows stay as they are while a caller that has none moves on without one.
LEMMA RowsStay ==
  ASSUME InsertInv, NEW c \in Callers, pc[c] \notin {"done", "commit"}, request' = request,
         NEW to \in Positions \ {"commit"}, pc' = [pc EXCEPT ![c] = to],
         UNCHANGED <<rows, inserted>>,
         \A d \in Callers \ {c} : answer'[d] = answer[d]
  PROVE  RowsInv'
<1>1. \A r \in rows : r.by \in Callers \ {c} /\ pc'[r.by] = pc[r.by]
  BY DEF InsertInv, InsertTypes, RowsInv, RowOf
<1>2. \A r \in inserted : r.by \in Callers \ {c} /\ pc'[r.by] = pc[r.by]
  BY DEF InsertInv, InsertTypes, RowsInv, RowOf
<1>3. \A d \in Callers : pc'[d] = "commit" => pc[d] = "commit"
  BY DEF InsertInv, InsertTypes
<1>4. rows' = rows /\ inserted' = inserted
  OBVIOUS
<1>5. \A r \in rows' : RowOf(r)' /\ pc'[r.by] = "done" /\ answer'[r.by] = "stored"
  BY <1>1, <1>4, AskedStays DEF InsertInv, RowsInv
<1>6. \A r \in inserted' : RowOf(r)' /\ pc'[r.by] = "commit"
  BY <1>2, <1>4, AskedStays DEF InsertInv, RowsInv
<1>7. \A d \in Callers : pc'[d] = "commit" => I!Row(d)' \in inserted'
  BY <1>3, <1>4, AskedStays DEF InsertInv, RowsInv
<1>8. \A r, s \in rows' \cup inserted' : r # s => ~I!Clash(r, s)
  BY <1>4 DEF InsertInv, RowsInv
<1> QED
  BY <1>5, <1>6, <1>7, <1>8 DEF RowsInv

\* The rows a caller sees are committed rows.
LEMMA VisibleAreRows ==
  ASSUME InsertInv, NEW c \in Callers
  PROVE  I!Visible(c) \subseteq rows
BY DEF InsertInv, InsertTypes, I!Visible

\* What the in-memory store is asked, on rows that the caller sees.
LEMMA TwinOfSeen ==
  ASSUME I!StoreAssumption, InsertInv, NEW c \in Callers, NEW S \in SUBSET rows
  PROVE  I!Twin(S, I!Row(c)) = TwinSays(S, c)
<1>1. request \in [Callers -> Requests] /\ \A s \in S : RowOf(s)
  BY DEF InsertInv, InsertTypes, RowsInv
<1> QED
  BY <1>1, TwinAnswers

LEMMA RefuseInv ==
  ASSUME I!StoreAssumption, InsertInv, NEW c \in Callers, I!Refuse(c)
  PROVE  InsertInv'
<1>1. I!Twin(rows, I!Row(c)) = "denied"
  BY TwinOfSeen DEF TwinSays, I!Refuse
<1>2. /\ pc[c] = "begin" /\ pc' = [pc EXCEPT ![c] = "done"] /\ request' = request
      /\ rows' = rows /\ inserted' = inserted /\ snapshot' = snapshot
      /\ answer' = [answer EXCEPT ![c] = "denied"]
      /\ twin' = [twin EXCEPT ![c] = "denied"]
  BY <1>1 DEF I!Refuse, I!End
<1>3. CallSound(c)'
  <2>1. pc'[c] = "done" /\ answer'[c] = "denied" /\ twin'[c] = "denied"
    BY <1>2 DEF InsertInv, InsertTypes
  <2> QED
    BY <2>1 DEF CallSound, I!Done
<1>4. RowsInv'
  BY <1>2, RowsStay DEF Positions, InsertInv, InsertTypes
<1> QED
  BY <1>2, <1>3, <1>4, StepInv DEF InsertInv, InsertTypes, Positions

LEMMA BeginInv ==
  ASSUME I!StoreAssumption, InsertInv, NEW c \in Callers, I!Begin(c)
  PROVE  InsertInv'
<1>1. /\ pc[c] = "begin" /\ pc' = [pc EXCEPT ![c] = "insert"] /\ request' = request
      /\ request[c].tenant = request[c].caller_tenant
      /\ rows' = rows /\ inserted' = inserted /\ answer' = answer /\ twin' = twin
      /\ snapshot' = [snapshot EXCEPT ![c] = IF c \in Serializable THEN rows ELSE {}]
  BY DEF I!Begin
<1>2. CallSound(c)'
  <2>1. pc'[c] = "insert" /\ answer'[c] = "none"
    BY <1>1 DEF InsertInv, InsertTypes, CallSound
  <2> QED
    BY <1>1, <2>1 DEF CallSound, I!Done
<1>3. RowsInv'
  BY <1>1, RowsStay DEF Positions
<1> QED
  BY <1>1, <1>2, <1>3, StepInv DEF InsertInv, InsertTypes, Positions

LEMMA InsertedInv ==
  ASSUME I!StoreAssumption, InsertInv, NEW c \in Callers, I!Insert(c)
  PROVE  InsertInv'
<1> DEFINE r == I!Row(c)
           taken == {s \in rows : I!Clash(r, s)}
<1>1. /\ pc[c] = "insert" /\ request' = request /\ rows' = rows /\ snapshot' = snapshot
      /\ answer' = answer /\ twin' = twin
      /\ \A s \in inserted : ~I!Clash(r, s)
  BY DEF I!Insert
<1>2. answer[c] = "none" /\ request[c].tenant = request[c].caller_tenant
  BY <1>1 DEF InsertInv, CallSound
<1>3. CASE /\ taken = {} /\ inserted' = inserted \cup {r}
           /\ pc' = [pc EXCEPT ![c] = "commit"]
  <2>1. CallSound(c)'
    <3>1. pc'[c] = "commit" /\ answer'[c] = "none" /\ request'[c] = request[c]
      BY <1>1, <1>2, <1>3 DEF InsertInv, InsertTypes
    <3> QED
      BY <1>2, <3>1 DEF CallSound, I!Done
  <2>2. RowsInv'
    <3>1. RowOf(r) /\ r.by = c
      BY RowFields DEF RowOf
    <3>2. \A s \in rows \cup inserted : s.by \in Callers \ {c} /\ pc'[s.by] = pc[s.by]
      BY <1>1, <1>3 DEF InsertInv, InsertTypes, RowsInv, RowOf
    <3>3. \A s \in rows' : RowOf(s)' /\ pc'[s.by] = "done" /\ answer'[s.by] = "stored"
      BY <1>1, <3>2, AskedStays DEF InsertInv, RowsInv
    <3>4. \A s \in inserted' : RowOf(s)' /\ pc'[s.by] = "commit"
      <4>1. pc'[c] = "commit"
        BY <1>3 DEF InsertInv, InsertTypes
      <4> HIDE DEF r
      <4> QED
        BY <1>1, <1>3, <3>1, <3>2, <4>1, AskedStays DEF InsertInv, RowsInv
    <3>5. \A d \in Callers : pc'[d] = "commit" => I!Row(d)' \in inserted'
      BY <1>1, <1>3, AskedStays DEF InsertInv, InsertTypes, RowsInv
    <3>6. \A s \in rows \cup inserted : ~I!Clash(r, s) /\ ~I!Clash(s, r)
      <4> HIDE DEF r
      <4> QED
        BY <1>1, <1>3, KeysRelate
    <3>7. \A s, t \in rows' \cup inserted' : s # t => ~I!Clash(s, t)
      <4> HIDE DEF r, taken
      <4> QED
        BY <1>1, <1>3, <3>6 DEF InsertInv, RowsInv
    <3> QED
      BY <3>3, <3>4, <3>5, <3>7 DEF RowsInv
  <2> QED
    BY <1>1, <1>3, <2>1, <2>2, StepInv DEF InsertInv, InsertTypes, Positions
<1>4. CASE /\ taken # {} /\ inserted' = inserted
           /\ c \in Serializable => taken \subseteq snapshot[c]
           /\ pc' = [pc EXCEPT ![c] = "by_key"]
  <2>1. CallSound(c)'
    <3>1. pc'[c] = "by_key" /\ answer'[c] = "none" /\ request'[c] = request[c]
      BY <1>1, <1>2, <1>4 DEF InsertInv, InsertTypes
    <3>2. \E s \in I!Visible(c)' : I!Clash(r, s)
      BY <1>1, <1>4 DEF I!Visible
    <3>3. r = I!Row(c)'
      BY <1>1, AskedStays
    <3> HIDE DEF r
    <3> QED
      BY <1>2, <3>1, <3>2, <3>3 DEF CallSound, I!Done
  <2>2. RowsInv'
    BY <1>1, <1>4, RowsStay DEF Positions
  <2> QED
    BY <1>1, <1>4, <2>1, <2>2, StepInv DEF InsertInv, InsertTypes, Positions
<1> QED
  BY <1>3, <1>4 DEF I!Insert

LEMMA RollbackInv ==
  ASSUME I!StoreAssumption, InsertInv, NEW c \in Callers, I!Rollback(c)
  PROVE  InsertInv'
<1>1. /\ pc[c] \in {"insert", "by_key", "by_id", "commit"} /\ request' = request
      /\ rows' = rows /\ snapshot' = snapshot /\ twin' = twin
      /\ inserted' = {s \in inserted : s.by # c}
      /\ pc' = [pc EXCEPT ![c] = "done"]
      /\ answer' = [answer EXCEPT ![c] = "rolled_back"]
  BY DEF I!Rollback
<1>2. CallSound(c)'
  <2>1. pc'[c] = "done" /\ answer'[c] = "rolled_back"
    BY <1>1 DEF InsertInv, InsertTypes
  <2> QED
    BY <2>1 DEF CallSound, I!Done
<1>3. RowsInv'
  <2>1. \A s \in rows \cup inserted' : /\ s.by \in Callers \ {c} /\ pc'[s.by] = pc[s.by]
                                       /\ answer'[s.by] = answer[s.by]
    BY <1>1 DEF InsertInv, InsertTypes, RowsInv, RowOf
  <2>2. \A s \in rows' : RowOf(s)' /\ pc'[s.by] = "done" /\ answer'[s.by] = "stored"
    BY <1>1, <2>1, AskedStays DEF InsertInv, RowsInv
  <2>3. \A s \in inserted' : RowOf(s)' /\ pc'[s.by] = "commit"
    BY <1>1, <2>1, AskedStays DEF InsertInv, RowsInv
  <2>4. \A d \in Callers : pc'[d] = "commit" => I!Row(d)' \in inserted'
    <3> SUFFICES ASSUME NEW d \in Callers, pc'[d] = "commit" PROVE I!Row(d)' \in inserted'
      OBVIOUS
    <3>1. d # c /\ pc[d] = "commit"
      BY <1>1 DEF InsertInv, InsertTypes
    <3>2. I!Row(d) \in inserted /\ I!Row(d).by = d
      BY <3>1, RowFields DEF InsertInv, RowsInv
    <3> QED
      BY <1>1, <3>1, <3>2, AskedStays
  <2>5. \A s, t \in rows' \cup inserted' : s # t => ~I!Clash(s, t)
    BY <1>1 DEF InsertInv, RowsInv
  <2> QED
    BY <2>2, <2>3, <2>4, <2>5 DEF RowsInv
<1> QED
  BY <1>1, <1>2, <1>3, StepInv DEF InsertInv, InsertTypes, Positions

LEMMA CommitInv ==
  ASSUME I!StoreAssumption, InsertInv, NEW c \in Callers, I!Commit(c)
  PROVE  InsertInv'
<1> DEFINE r == I!Row(c)
<1>1. pc[c] = "commit" /\ r \in inserted /\ RowOf(r) /\ r.by = c
  BY RowFields DEF InsertInv, RowsInv, I!Commit, RowOf
<1>2. \A s \in rows : ~I!Clash(r, s) /\ r # s
  <2>1. \A s \in rows : s # r
    BY <1>1 DEF InsertInv, RowsInv
  <2> QED
    BY <1>1, <2>1 DEF InsertInv, RowsInv
<1>3. I!Twin(rows, r) = "stored"
  <2>1. request[c].tenant = request[c].caller_tenant
    BY <1>1 DEF InsertInv, CallSound
  <2>2. I!Twin(rows, r) = TwinSays(rows, c)
    BY TwinOfSeen
  <2> QED
    BY <1>2, <2>1, <2>2 DEF TwinSays, I!Clash
<1>4. /\ pc' = [pc EXCEPT ![c] = "done"] /\ request' = request /\ snapshot' = snapshot
      /\ rows' = rows \cup {r} /\ inserted' = inserted \ {r}
      /\ answer' = [answer EXCEPT ![c] = "stored"]
      /\ twin' = [twin EXCEPT ![c] = "stored"]
  BY <1>3 DEF I!Commit, I!End
<1>5. pc'[c] = "done" /\ answer'[c] = "stored" /\ twin'[c] = "stored"
  BY <1>4 DEF InsertInv, InsertTypes
<1>6. CallSound(c)'
  BY <1>5 DEF CallSound, I!Done
<1>7. RowsInv'
  <2>1. \A s \in rows : s.by \in Callers \ {c}
    BY <1>1 DEF InsertInv, RowsInv, RowOf
  <2>2. \A s \in inserted \ {r} : s.by \in Callers \ {c}
    BY DEF InsertInv, RowsInv, RowOf
  <2>3. \A d \in Callers \ {c} : pc'[d] = pc[d] /\ answer'[d] = answer[d]
    BY <1>4 DEF InsertInv, InsertTypes
  <2>4. \A s \in rows' : RowOf(s)' /\ pc'[s.by] = "done" /\ answer'[s.by] = "stored"
    <3> HIDE DEF r
    <3> QED
      BY <1>1, <1>4, <1>5, <2>1, <2>3, AskedStays DEF InsertInv, RowsInv
  <2>5. \A s \in inserted' : RowOf(s)' /\ pc'[s.by] = "commit"
    <3> HIDE DEF r
    <3> QED
      BY <1>4, <2>2, <2>3, AskedStays DEF InsertInv, RowsInv
  <2>6. \A d \in Callers : pc'[d] = "commit" => I!Row(d)' \in inserted'
    <3> SUFFICES ASSUME NEW d \in Callers, pc'[d] = "commit" PROVE I!Row(d)' \in inserted'
      OBVIOUS
    <3>1. d # c /\ pc[d] = "commit"
      BY <1>4, <1>5, <2>3
    <3>2. I!Row(d) \in inserted /\ I!Row(d).by = d
      BY <3>1, RowFields DEF InsertInv, RowsInv
    <3> HIDE DEF r
    <3> QED
      BY <1>1, <1>4, <3>1, <3>2, AskedStays
  <2>7. \A s, t \in rows' \cup inserted' : s # t => ~I!Clash(s, t)
    <3> HIDE DEF r
    <3> QED
      BY <1>1, <1>4 DEF InsertInv, RowsInv
  <2> QED
    BY <2>4, <2>5, <2>6, <2>7 DEF RowsInv
<1> HIDE DEF r
<1> QED
  BY <1>4, <1>6, <1>7, StepInv DEF InsertInv, InsertTypes, Positions

\* The caller that looks its key up was stopped by a row that it sees.
LEMMA LookUpKeyInv ==
  ASSUME I!StoreAssumption, InsertInv, NEW c \in Callers, I!LookUpKey(c)
  PROVE  InsertInv'
<1> DEFINE r == I!Row(c)
           a == request[c]
           seen == I!Visible(c)
           Fits(s) == I!Fingerprint(s.asked) \in I!Compatible(a)
           said == I!Twin(seen, r)
<1>1. /\ pc[c] = "by_key" /\ request' = request /\ rows' = rows /\ inserted' = inserted
      /\ snapshot' = snapshot
  BY DEF I!LookUpKey
<1>2. seen \subseteq rows /\ \A s \in seen : RowOf(s) /\ s.asked \in Requests
  BY VisibleAreRows, RowFields DEF InsertInv, InsertTypes, RowsInv, RowOf
<1>3. said = TwinSays(seen, c)
  BY <1>2, TwinOfSeen
<1>4. a.tenant = a.caller_tenant /\ a \in Requests /\ answer[c] = "none"
  BY <1>1 DEF InsertInv, InsertTypes, CallSound
<1>5. PICK s0 \in seen : I!Clash(r, s0)
  BY <1>1 DEF InsertInv, CallSound
<1>6. ASSUME NEW s \in seen, NEW t \in seen, I!SameKey(r, s), I!SameKey(r, t)
      PROVE  s = t
  <2> HIDE DEF r
  <2> QED
    BY <1>2, <1>6, KeysRelate DEF InsertInv, RowsInv
<1>7. said = IF \E s \in seen : I!SameKey(r, s) /\ Fits(s) THEN "existing" ELSE "conflict"
  BY <1>3, <1>4, <1>5 DEF TwinSays
<1>8. r.asked = a /\ I!Row(c)' = r
  BY <1>1, RowFields, AskedStays
<1> HIDE DEF r, seen, said
<1>9. CASE /\ \E s \in seen : I!SameKey(r, s) /\ Fits(s)
           /\ I!End(c, "existing", seen)
  <2>1. /\ pc' = [pc EXCEPT ![c] = "done"] /\ answer' = [answer EXCEPT ![c] = "existing"]
        /\ twin' = [twin EXCEPT ![c] = "existing"]
    BY <1>7, <1>9 DEF I!End, said, r
  <2>2. PICK s \in seen : I!SameKey(r, s) /\ Fits(s)
    BY <1>9
  <2>3. s.asked.event = a.event /\ s.asked.body = a.body
    <3>1. s.asked.kind = a.kind /\ a.kind \in I!Kinds
      BY <1>4, <1>8, <2>2, KeysRelate DEF I!StoreAssumption
    <3>2. a.kind # "outbox" => s.asked.event = a.event
      BY <1>2, <1>4, <3>1 DEF I!StoreAssumption
    <3> DEFINE b == s.asked
    <3>3. b \in Requests /\ I!Fingerprint(b) \in I!Compatible(a)
      BY <1>2, <2>2
    <3> HIDE DEF b
    <3>4. a.kind \in {"event", "outbox", "approval", "calendar", "reminder"}
      BY <3>1 DEF I!Kinds
    <3>5. b.body = a.body /\ (a.kind = "outbox" => b.event = a.event)
      BY <1>4, <3>1, <3>3, <3>4, FingerprintsCompare DEF b
    <3> QED
      BY <3>2, <3>5 DEF b
  <2>4. s \in rows' /\ s.by # c
    BY <1>1, <1>2 DEF InsertInv, RowsInv
  <2>5. CallSound(c)'
    <3>1. pc'[c] = "done" /\ answer'[c] = "existing" /\ twin'[c] = "existing"
      BY <2>1 DEF InsertInv, InsertTypes
    <3> QED
      BY <1>1, <1>8, <2>2, <2>3, <2>4, <3>1 DEF CallSound, I!Done
  <2>6. RowsInv'
    BY <1>1, <2>1, RowsStay DEF Positions, InsertInv, InsertTypes
  <2> QED
    BY <1>1, <2>1, <2>5, <2>6, StepInv DEF InsertInv, InsertTypes, Positions
<1>10. CASE /\ \E s \in seen : I!SameKey(r, s) /\ ~Fits(s)
            /\ I!End(c, "conflict", seen)
  <2>1. said = "conflict"
    BY <1>6, <1>7, <1>10
  <2>2. /\ pc' = [pc EXCEPT ![c] = "done"] /\ answer' = [answer EXCEPT ![c] = "conflict"]
        /\ twin' = [twin EXCEPT ![c] = "conflict"]
    BY <1>10, <2>1 DEF I!End, said, r
  <2>3. CallSound(c)'
    <3>1. pc'[c] = "done" /\ answer'[c] = "conflict" /\ twin'[c] = "conflict"
      BY <2>2 DEF InsertInv, InsertTypes
    <3> QED
      BY <3>1 DEF CallSound, I!Done
  <2>4. RowsInv'
    BY <1>1, <2>2, RowsStay DEF Positions, InsertInv, InsertTypes
  <2> QED
    BY <1>1, <2>2, <2>3, <2>4, StepInv DEF InsertInv, InsertTypes, Positions
<1>11. ASSUME {s \in seen : I!SameKey(r, s)} = {}
       PROVE  I!SameDurableId(r, s0) /\ a.kind \in {"outbox", "calendar", "reminder"}
  BY <1>5, <1>8, <1>11 DEF I!Clash, I!SameDurableId
<1>12. CASE /\ {s \in seen : I!SameKey(r, s)} = {} /\ a.kind \notin {"event", "approval"}
            /\ pc' = [pc EXCEPT ![c] = "by_id"]
            /\ twin' = [twin EXCEPT ![c] = said] /\ answer' = answer
  <2>1. said = "conflict"
    BY <1>7, <1>12
  <2>2. pc'[c] = "by_id" /\ answer'[c] = "none" /\ twin'[c] = "conflict"
    BY <1>4, <1>12, <2>1 DEF InsertInv, InsertTypes
  <2>3. I!Visible(c)' = seen
    BY <1>1 DEF I!Visible, seen
  <2>4. CallSound(c)'
    BY <1>1, <1>4, <1>8, <1>11, <1>12, <2>2, <2>3 DEF CallSound, I!Done
  <2>5. RowsInv'
    BY <1>1, <1>12, RowsStay DEF Positions
  <2> QED
    BY <1>1, <1>12, <2>4, <2>5, StepInv DEF InsertInv, InsertTypes, Positions
<1>13. \/ (\E s \in seen : I!SameKey(r, s) /\ Fits(s)) /\ I!End(c, "existing", seen)
       \/ (\E s \in seen : I!SameKey(r, s) /\ ~Fits(s)) /\ I!End(c, "conflict", seen)
       \/ {s \in seen : I!SameKey(r, s)} = {} /\ a.kind \in {"event", "approval"}
       \/ /\ {s \in seen : I!SameKey(r, s)} = {} /\ a.kind \notin {"event", "approval"}
          /\ pc' = [pc EXCEPT ![c] = "by_id"]
          /\ twin' = [twin EXCEPT ![c] = said] /\ answer' = answer
  BY DEF I!LookUpKey, seen, r, said
<1> QED
  BY <1>9, <1>10, <1>11, <1>12, <1>13

LEMMA LookUpIdInv ==
  ASSUME I!StoreAssumption, InsertInv, NEW c \in Callers, I!LookUpId(c)
  PROVE  InsertInv'
<1>1. pc[c] = "by_id" /\ \E s \in I!Visible(c) : I!SameDurableId(I!Row(c), s)
  BY DEF I!LookUpId, InsertInv, CallSound
<1>2. /\ request' = request /\ rows' = rows /\ inserted' = inserted /\ snapshot' = snapshot
      /\ twin' = twin /\ twin[c] = "conflict"
      /\ pc' = [pc EXCEPT ![c] = "done"] /\ answer' = [answer EXCEPT ![c] = "conflict"]
  BY <1>1 DEF I!LookUpId, InsertInv, CallSound
<1>3. CallSound(c)'
  <2>1. pc'[c] = "done" /\ answer'[c] = "conflict" /\ twin'[c] = "conflict"
    BY <1>2 DEF InsertInv, InsertTypes
  <2> QED
    BY <2>1 DEF CallSound, I!Done
<1>4. RowsInv'
  BY <1>1, <1>2, RowsStay DEF Positions, InsertInv, InsertTypes
<1> QED
  BY <1>2, <1>3, <1>4, StepInv DEF InsertInv, InsertTypes, Positions

LEMMA InsertInvariant ==
  ASSUME I!StoreAssumption
  PROVE  I!Spec => []InsertInv
<1>1. I!Init => InsertInv
  BY DEF I!Init, InsertInv, InsertTypes, RowsInv, CallSound, I!Done, Positions
<1>2. InsertInv /\ [I!Next]_I!vars => InsertInv'
  <2> SUFFICES ASSUME InsertInv, [I!Next]_I!vars
               PROVE  InsertInv'
    OBVIOUS
  <2>1. ASSUME NEW c \in Callers,
               \/ I!append(c) \/ I!add(c) \/ I!create(c) \/ I!create_event(c)
               \/ I!schedule_before_event(c) \/ I!Rollback(c)
        PROVE  InsertInv'
    <3>1. \/ I!Refuse(c) \/ I!Begin(c) \/ I!Insert(c) \/ I!Commit(c) \/ I!LookUpKey(c)
          \/ I!LookUpId(c) \/ I!Rollback(c)
      BY <2>1 DEF I!append, I!add, I!create, I!create_event, I!schedule_before_event
    <3> QED
      BY <3>1, RefuseInv, BeginInv, InsertedInv, CommitInv, LookUpKeyInv, LookUpIdInv,
         RollbackInv
  <2>2. CASE UNCHANGED I!vars
    BY <2>2, AskedStays DEF I!vars, InsertInv, InsertTypes, RowsInv, RowOf, CallSound, I!Done,
       I!Visible
  <2> QED
    BY <2>1, <2>2 DEF I!Next
<1> QED
  BY <1>1, <1>2, PTL DEF I!Spec

\* The component on its own.
LEMMA InsertsPart ==
  ASSUME I!StoreAssumption
  PROVE  I!Spec => []I!InsertsAgree
<1>1. ASSUME InsertInv
      PROVE  I!InsertsAgree
  <2>1. I!SameAnswer /\ I!NeverInternal
    BY <1>1 DEF InsertInv, CallSound, I!SameAnswer, I!NeverInternal
  <2>2. I!ExistingIsSame
    <3> SUFFICES ASSUME NEW c \in Callers, I!Done(c), answer[c] = "existing"
                 PROVE  \E s \in rows : /\ I!SameKey(I!Row(c), s)
                                        /\ s.asked.event = request[c].event
                                        /\ s.asked.body = request[c].body
                                        /\ s.by # c /\ answer[s.by] = "stored"
      BY DEF I!ExistingIsSame
    <3> QED
      BY <1>1 DEF InsertInv, CallSound, RowsInv
  <2>3. I!StoredOnce
    BY <1>1 DEF InsertInv, RowsInv, I!StoredOnce, I!Clash
  <2> QED
    BY <2>1, <2>2, <2>3 DEF I!InsertsAgree
<1> QED
  BY <1>1, InsertInvariant, PTL

\* For every set of callers and of requests, inside the unit of work or on their own: the
\* INSERT and the SELECTs of append, add, create, create_event and schedule_before_event,
\* whatever runs between them, answer as the in-memory store does in one step, never with
\* an internal error, and no two rows share a key or a durable id.
THEOREM InsertsAlwaysAgree ==
  ASSUME I!StoreAssumption
  PROVE  Spec => []InsertsAgree
<1> DEFINE followed == part = "inserts"
<1>1. Init => (followed => I!Init)
  BY DEF Init
<1>2. [Next]_vars => (followed' <=> followed) /\ (followed => [I!Next]_I!vars)
  BY DEF Next, vars, outboxVars, insertVars, I!vars
<1>3. (followed => I!InsertsAgree) => InsertsAgree
  BY DEF InsertsAgree
<1>4. I!Spec => []I!InsertsAgree
  BY InsertsPart
<1> HIDE DEF followed
<1> QED
  BY <1>1, <1>2, <1>3, <1>4, PTL DEF Spec, I!Spec
=============================================================================
