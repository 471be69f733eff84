-------------------------------- MODULE Stores --------------------------------
(***************************************************************************)
(* The two implementations of the stores side by side: the outboxes call   *)
(* by call (OutboxParity), and concurrent idempotent inserts (StoreParity). *)
(* The parts share no state, so a behaviour follows one of them and the    *)
(* variables of the other are Off.                                         *)
(***************************************************************************)
CONSTANTS
  MaxTime, Tenants, Messages, TenantOf, TypeOf, Lease, Limits, MaxTokens, \* OutboxParity
  Callers, Serializable, Requests                                         \* StoreParity

VARIABLES part,
  memory, jobs, postgres, reminders, notify_at, issued, answers,
  request, pc, rows, inserted, snapshot, answer, twin

outboxVars == <<memory, jobs, postgres, reminders, notify_at, issued, answers>>
insertVars == <<request, pc, rows, inserted, snapshot, answer, twin>>
vars == <<part, outboxVars, insertVars>>

Off == "off"

O == INSTANCE OutboxParity
I == INSTANCE StoreParity

OutboxOff ==
  /\ memory = Off /\ jobs = Off /\ postgres = Off /\ reminders = Off
  /\ notify_at = Off /\ issued = Off /\ answers = Off
InsertsOff ==
  /\ request = Off /\ pc = Off /\ rows = Off /\ inserted = Off
  /\ snapshot = Off /\ answer = Off /\ twin = Off

Init ==
  \/ part = "outbox" /\ O!Init /\ InsertsOff
  \/ part = "inserts" /\ I!Init /\ OutboxOff

Next ==
  \/ part = "outbox" /\ O!Next /\ UNCHANGED <<part, insertVars>>
  \/ part = "inserts" /\ I!Next /\ UNCHANGED <<part, outboxVars>>

Spec == Init /\ [][Next]_vars

\* InMemoryOutbox with LocalReminderScheduler answers every call as PostgresOutbox
\* does, and keeps the same rows.
OutboxesAgree == part = "outbox" => O!OutboxesAgree

\* An INSERT ... ON CONFLICT of _insert_idempotently is one step whichever store
\* makes it: the answer is the in-memory store's, and never an internal error.
InsertsAgree == part = "inserts" => I!InsertsAgree
=============================================================================
