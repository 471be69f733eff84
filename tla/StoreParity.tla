------------------------------ MODULE StoreParity ------------------------------
(***************************************************************************)
(* The idempotent writes of the stores: EventStore.append, Outbox.add,     *)
(* ApprovalStore.create, Calendar.create_event and                         *)
(* ReminderScheduler.schedule_before_event.  Each is written twice: over   *)
(* dictionaries, under a lock of the store (but for the approvals', which  *)
(* have none), and over PostgreSQL as                                      *)
(*                                                                         *)
(*     INSERT ... ON CONFLICT DO NOTHING RETURNING payload                 *)
(*     SELECT ... by idempotency key     (when nothing was inserted)       *)
(*     SELECT ... by durable id          (when the key is not there)       *)
(*                                                                         *)
(* with other callers between the statements.  Here several callers make   *)
(* one call each against PostgreSQL; every answer is compared with what    *)
(* the in-memory store says to the same call on the same rows.             *)
(*                                                                         *)
(* A stand-alone call runs in its own READ COMMITTED transaction; a call   *)
(* inside the reminder unit of work runs in a SERIALIZABLE one, which      *)
(* reads the snapshot its first statement took.                            *)
(***************************************************************************)
EXTENDS Naturals, FiniteSets

CONSTANTS
  Callers,
  Serializable,   \* the callers that run inside the unit of work
  Requests        \* the calls a caller may make

Kinds == {"event", "outbox", "approval", "calendar", "reminder"}

\* No message_id, event_id or reminder_id given: the store makes one up.
NoId == "no_id"

StoreAssumption ==
  /\ Serializable \subseteq Callers
  /\ \A r \in Requests :
       /\ r.kind \in Kinds
       /\ r.kind \in {"calendar", "reminder"} => r.tenant = r.caller_tenant
       \* only an outbox message carries a CloudEvent of its own
       /\ r.kind # "outbox" => \A s \in Requests : s.kind = r.kind => s.event = r.event
       \* _approval_id derives an approval's id from its key
       /\ r.kind = "approval" => \A s \in Requests :
            (s.kind = "approval" /\ s.tenant = r.tenant /\ s.id = r.id) => s.key = r.key

VARIABLES
  request,   \* what each caller asks
  pc,        \* where its call stands
  rows,      \* the committed rows
  inserted,  \* rows of transactions that have not ended
  snapshot,  \* what a SERIALIZABLE transaction sees
  answer,    \* what PostgreSQL's store answered
  twin       \* what the in-memory store answers

vars == <<request, pc, rows, inserted, snapshot, answer, twin>>

-----------------------------------------------------------------------------
(* Rows and their identity.  "event" is the CloudEvent an outbox message   *)
(* carries and "body" everything else that the caller chose.               *)

\* The durable id: given, or a uuid that no other call gets.
DurableId(c) ==
  IF request[c].id = NoId THEN <<"uuid", c>> ELSE <<"given", request[c].id>>

Row(c) == [by |-> c, asked |-> request[c], id |-> DurableId(c)]

SameTenant(r, s) == r.asked.kind = s.asked.kind /\ r.asked.tenant = s.asked.tenant

\* The idempotency key; an event is its own key.
SameKey(r, s) ==
  /\ SameTenant(r, s)
  /\ IF r.asked.kind = "event" THEN r.id = s.id ELSE r.asked.key = s.asked.key

\* A unique index other than the key's: message, event or reminder id, and for
\* the outbox the CloudEvent's id as well.  The approvals' index on their id
\* refuses nothing that the one on the key does not (StoreAssumption).
SameDurableId(r, s) ==
  /\ SameTenant(r, s)
  /\ \/ r.asked.kind \in {"outbox", "calendar", "reminder"} /\ r.id = s.id
     \/ r.asked.kind = "outbox" /\ r.asked.event = s.asked.event

\* What the unique indexes of the table refuse.
Clash(r, s) == SameKey(r, s) \/ SameDurableId(r, s)

-----------------------------------------------------------------------------
(* The in-memory stores.                                                   *)

\* The stored row under the key when the caller asks for the same, as far as the
\* store compares it, or a conflict with it or with the row whose durable id is
\* taken.
MemoryAnswer(S, r, compared) ==
  LET byKey == {s \in S : SameKey(r, s)}
      byId  == {s \in S : SameDurableId(r, s)}
  IN  IF r.asked.tenant # r.asked.caller_tenant THEN "denied"
      ELSE IF \E s \in byKey : \A field \in compared : s.asked[field] = r.asked[field]
           THEN "existing"
      ELSE IF byKey # {} \/ byId # {} THEN "conflict" ELSE "stored"

memory_append(S, r) == MemoryAnswer(S, r, {"event", "body"})

\* The message id that was given is part of what is hashed.
memory_add(S, r) == MemoryAnswer(S, r, {"event", "body", "id"})

\* The approval's own id is hashed too.  Callers only ask for tiers that need an
\* approval, so the check of the tier is left out.
memory_create(S, r) == MemoryAnswer(S, r, {"body", "id"})

\* The event id is left out: the first one stays.
memory_create_event(S, r) == MemoryAnswer(S, r, {"body"})

\* The fields of the job are compared, which its id is not among.
memory_schedule(S, r) == MemoryAnswer(S, r, {"body"})

Twin(S, r) ==
  CASE r.asked.kind = "event" -> memory_append(S, r)
    [] r.asked.kind = "outbox" -> memory_add(S, r)
    [] r.asked.kind = "approval" -> memory_create(S, r)
    [] r.asked.kind = "calendar" -> memory_create_event(S, r)
    [] r.asked.kind = "reminder" -> memory_schedule(S, r)

-----------------------------------------------------------------------------
(* The PostgreSQL stores.                                                  *)

\* The fingerprint column.  The outbox hashes the event alone when neither a
\* message id nor a time was given, as releases before the delivery worker did.
Fingerprint(a) ==
  CASE a.kind = "outbox" ->
         IF a.id = NoId /\ a.body = "untimed" THEN <<a.event>>
         ELSE <<a.event, a.body, a.id>>
    [] a.kind = "approval" -> <<a.event, a.body, a.id>>
    [] OTHER -> <<a.event, a.body>>

\* create_event also accepts the fingerprint older rows were written with.
Compatible(a) ==
  IF a.kind = "calendar" THEN {Fingerprint(a), <<a.event, a.body, a.id>>}
  ELSE {Fingerprint(a)}

\* Mutant of Visible: the SELECT reads what there was before the INSERT waited.
VisibleStale(c) == snapshot[c]

\* What a SELECT of the caller's transaction sees.
Visible(c) == IF c \in Serializable THEN snapshot[c] ELSE rows

-----------------------------------------------------------------------------
Init ==
  /\ \E kind \in Kinds :
       request \in [Callers -> {r \in Requests : r.kind = kind}]
  /\ pc = [c \in Callers |-> "begin"]
  /\ rows = {}
  /\ inserted = {}
  /\ snapshot = [c \in Callers |-> {}]
  /\ answer = [c \in Callers |-> "none"]
  /\ twin = [c \in Callers |-> "none"]

\* The call ends with PostgreSQL's answer; the in-memory store is asked the same
\* on the rows that the answer was given from.
End(c, said, seen) ==
  /\ pc' = [pc EXCEPT ![c] = "done"]
  /\ answer' = [answer EXCEPT ![c] = said]
  /\ twin' = [twin EXCEPT ![c] = Twin(seen, Row(c))]

\* A principal of another tenant is refused before any statement; the calendar and the
\* scheduler take the tenant from the principal.
Refuse(c) ==
  /\ pc[c] = "begin"
  /\ request[c].tenant # request[c].caller_tenant
  /\ End(c, "denied", rows)
  /\ UNCHANGED <<request, rows, inserted, snapshot>>

Begin(c) ==
  /\ pc[c] = "begin"
  /\ request[c].tenant = request[c].caller_tenant
  /\ pc' = [pc EXCEPT ![c] = "insert"]
  /\ snapshot' = [snapshot EXCEPT ![c] = IF c \in Serializable THEN rows ELSE {}]
  /\ UNCHANGED <<request, rows, inserted, answer, twin>>

\* INSERT ... ON CONFLICT DO NOTHING waits for an open transaction that has
\* inserted a clashing row and then looks again.
Insert(c) ==
  /\ pc[c] = "insert"
  /\ \A s \in inserted : ~Clash(Row(c), s)
  /\ LET taken == {s \in rows : Clash(Row(c), s)}
     IN  \/ /\ taken = {}
            /\ inserted' = inserted \cup {Row(c)}
            /\ pc' = [pc EXCEPT ![c] = "commit"]
         \/ /\ taken # {}
            /\ c \in Serializable => taken \subseteq snapshot[c]
            /\ pc' = [pc EXCEPT ![c] = "by_key"]
            /\ UNCHANGED inserted
  /\ UNCHANGED <<request, rows, snapshot, answer, twin>>

\* A SERIALIZABLE transaction that meets a row committed after its snapshot gets
\* 40001; any transaction may fail for another reason of its own.  Nothing it
\* wrote stays.
Rollback(c) ==
  /\ pc[c] \in {"insert", "by_key", "by_id", "commit"}
  /\ inserted' = {s \in inserted : s.by # c}
  /\ pc' = [pc EXCEPT ![c] = "done"]
  /\ answer' = [answer EXCEPT ![c] = "rolled_back"]
  /\ UNCHANGED <<request, rows, snapshot, twin>>

Commit(c) ==
  /\ pc[c] = "commit"
  /\ rows' = rows \cup {Row(c)}
  /\ inserted' = inserted \ {Row(c)}
  /\ End(c, "stored", rows)
  /\ UNCHANGED <<request, snapshot>>

\* The SELECT by key, and the comparison with what it finds.
LookUpKey(c) ==
  LET found == {s \in Visible(c) : SameKey(Row(c), s)}
  IN  /\ pc[c] = "by_key"
      /\ \/ /\ \E s \in found : Fingerprint(s.asked) \in Compatible(request[c])
            /\ End(c, "existing", Visible(c))
         \/ /\ \E s \in found : Fingerprint(s.asked) \notin Compatible(request[c])
            /\ End(c, "conflict", Visible(c))
         \/ /\ found = {} /\ request[c].kind \in {"event", "approval"}
            /\ End(c, "internal", Visible(c))
         \/ /\ found = {} /\ request[c].kind \notin {"event", "approval"}
            /\ pc' = [pc EXCEPT ![c] = "by_id"]
            /\ twin' = [twin EXCEPT ![c] = Twin(Visible(c), Row(c))]
            /\ UNCHANGED answer
      /\ UNCHANGED <<request, rows, inserted, snapshot>>

\* The SELECT by durable id; another caller may have stored the key meanwhile.
LookUpId(c) ==
  /\ pc[c] = "by_id"
  /\ pc' = [pc EXCEPT ![c] = "done"]
  /\ answer' = [answer EXCEPT ![c] =
                  IF \E s \in Visible(c) : SameDurableId(Row(c), s)
                  THEN "conflict" ELSE "internal"]
  /\ UNCHANGED <<request, rows, inserted, snapshot, twin>>

\* The five operations, statement by statement.
append(c) ==
  /\ request[c].kind = "event"
  /\ Refuse(c) \/ Begin(c) \/ Insert(c) \/ Commit(c) \/ LookUpKey(c)

add(c) ==
  /\ request[c].kind = "outbox"
  /\ Refuse(c) \/ Begin(c) \/ Insert(c) \/ Commit(c) \/ LookUpKey(c) \/ LookUpId(c)

create(c) ==
  /\ request[c].kind = "approval"
  /\ Refuse(c) \/ Begin(c) \/ Insert(c) \/ Commit(c) \/ LookUpKey(c)

create_event(c) ==
  /\ request[c].kind = "calendar"
  /\ Begin(c) \/ Insert(c) \/ Commit(c) \/ LookUpKey(c) \/ LookUpId(c)

schedule_before_event(c) ==
  /\ request[c].kind = "reminder"
  /\ Begin(c) \/ Insert(c) \/ Commit(c) \/ LookUpKey(c) \/ LookUpId(c)

Next ==
  \E c \in Callers :
    \/ append(c) \/ add(c) \/ create(c) \/ create_event(c) \/ schedule_before_event(c)
    \/ Rollback(c)

Spec == Init /\ [][Next]_vars

-----------------------------------------------------------------------------
(* Properties.                                                             *)

Done(c) == pc[c] = "done" /\ answer[c] # "rolled_back"

\* However the statements of concurrent calls interleave, each call that is not
\* rolled back gets the answer the in-memory store gives in one step: stored,
\* the existing row, a conflict or a refusal.
SameAnswer == \A c \in Callers : Done(c) => answer[c] = twin[c]

\* The row that stopped an INSERT is there when the SELECT looks for it: the
\* "insert failed" branches of the stores are never taken, neither when the
\* other transaction was still open nor when it committed after a snapshot.
NeverInternal == \A c \in Callers : answer[c] # "internal"

\* For one key at most one caller is told its call was stored, and whoever is
\* told that it existed asked for the very same thing as a caller whose row is
\* committed.
ExistingIsSame ==
  \A c \in Callers :
    Done(c) /\ answer[c] = "existing" =>
      \E s \in rows : /\ SameKey(Row(c), s)
                      /\ s.asked.event = request[c].event
                      /\ s.asked.body = request[c].body
                      /\ s.by # c /\ answer[s.by] = "stored"

\* No two committed rows share a key or a durable id, and only calls answered
\* "stored" have a row: the unit of work's rollback takes its insert with it.
StoredOnce ==
  /\ \A r, s \in rows : r # s => ~SameKey(r, s) /\ ~SameDurableId(r, s)
  /\ \A r \in rows : answer[r.by] = "stored"

\* An idempotent write is one step, whichever store makes it.
InsertsAgree == SameAnswer /\ NeverInternal /\ ExistingIsSame /\ StoredOnce
=============================================================================
