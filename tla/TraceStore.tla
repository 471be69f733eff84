----------------------------- MODULE TraceStore -----------------------------
(***************************************************************************)
(* The table of trace events and who writes it: the recorder of the        *)
(* running service, and two commands an operator runs beside it, the       *)
(* sanitizer of historical rows (infrastructure/trace_sanitizer.py) and    *)
(* retention pruning (infrastructure/trace_retention.py).                  *)
(*                                                                         *)
(* Transactions are PostgreSQL's READ COMMITTED ones: every statement sees *)
(* what is committed when it begins, rows are locked one by one, a locked  *)
(* row is waited for, and what a transaction did shows when it commits.    *)
(***************************************************************************)
EXTENDS Integers, FiniteSets

CONSTANTS
  Ids,         \* primary keys, numbers in the order of the sanitizer's SELECT
  Pruners, Sanitizers,
  DaysGiven,   \* what --days or TRACE_RETENTION_DAYS may say
  MaxDays,     \* MAX_RETENTION_DAYS (3650)
  MaxTime,     \* bound on the days that pass
  MaxWrites,   \* bound on the recorder's writes
  MaxCommands  \* bound on the commands that are started

IdsAssumption == Ids \subseteq Nat /\ IsFiniteSet(Ids)
DaysAssumption ==
  /\ DaysGiven \subseteq Int /\ MaxDays \in Nat
  /\ MaxTime \in Nat /\ MaxDays <= MaxTime
  /\ MaxWrites \in Nat /\ MaxCommands \in Nat

VARIABLES
  rows,        \* the committed rows
  locks,       \* the command that holds a row's lock
  cmd,         \* the commands
  now,         \* the day
  writer,      \* the recorder's write
  writes,      \* how many there were
  sanitized    \* a sanitizer has been applied

vars == <<rows, locks, cmd, now, writer, writes, sanitized>>

Commands == Pruners \cup Sanitizers
Free == "free"
CommandsAssumption == Pruners \cap Sanitizers = {} /\ Free \notin Commands
Contents == {"raw", "safe", "malformed", "otherkey"}
NoRow == [created |-> -1, content |-> "none"]
Present(id) == rows[id] # NoRow

Idle == [pc |-> "idle", apply |-> FALSE, cutoff |-> 0, left |-> {}, held |-> {},
         matched |-> 0, done |-> 0, failure |-> "none", late |-> FALSE]
NoWrite == [pc |-> "idle", id |-> 0, result |-> "none"]

\* Historical rows of any age: not redacted, redacted, unreadable, or with a
\* primary key that redaction would change.
Init ==
  /\ now = MaxDays
  /\ rows \in [Ids -> {NoRow} \cup [created : 0 .. now, content : Contents]]
  /\ locks = [id \in Ids |-> Free]
  /\ cmd = [c \in Commands |-> Idle]
  /\ writer = NoWrite
  /\ writes = 0
  /\ sanitized = FALSE

Unlocked(c) == [id \in Ids |-> IF locks[id] = c THEN Free ELSE locks[id]]

\* A command ends: its transaction, and with it its locks.
Ends(c, with) ==
  /\ cmd' = [cmd EXCEPT ![c] = [with EXCEPT !.left = {}, !.held = {}, !.cutoff = 0]]
  /\ locks' = Unlocked(c)

----------------------------------------------------------------------------
\* The command lines.

\* A command that has not run.
MayStart(c) ==
  /\ cmd[c].pc = "idle"
  /\ Cardinality({d \in Commands : cmd[d].pc # "idle"}) < MaxCommands

ValidDays(days) == days >= 1 /\ days <= MaxDays

\* --apply needs its confirmation and is refused before anything is opened, and
\* so is a confirmation without it.
Refuse(c) ==
  /\ MayStart(c)
  /\ \/ \E apply, confirm \in BOOLEAN : apply # confirm
     \/ c \in Pruners /\ \E days \in DaysGiven : ~ValidDays(days)
  /\ cmd' = [cmd EXCEPT ![c].pc = "refused"]
  /\ UNCHANGED <<rows, locks, now, writer, writes, sanitized>>

\* The cutoff is computed once, from the transaction's now().
PruneBegin(c) ==
  /\ MayStart(c)
  /\ \E days \in DaysGiven, apply \in BOOLEAN :
       /\ ValidDays(days)
       /\ cmd' = [cmd EXCEPT ![c] = [Idle EXCEPT !.pc = "count", !.apply = apply,
                                                 !.cutoff = now - days]]
  /\ UNCHANGED <<rows, locks, now, writer, writes, sanitized>>

TooOld(c, id) == Present(id) /\ rows[id].created < cmd[c].cutoff

PruneCount(c) ==
  LET old == {id \in Ids : TooOld(c, id)}
  IN  /\ cmd[c].pc = "count"
      /\ cmd' = [cmd EXCEPT ![c].pc = IF cmd[c].apply THEN "delete" ELSE "done",
                            ![c].matched = Cardinality(old)]
      /\ UNCHANGED <<rows, locks, now, writer, writes, sanitized>>

\* DELETE begins with its own view of what is committed ...
PruneDelete(c) ==
  /\ cmd[c].pc = "delete"
  /\ cmd' = [cmd EXCEPT ![c].pc = "lock",
                        ![c].left = {<<id, rows[id].created>> :
                                       id \in {i \in Ids : TooOld(c, i)}}]
  /\ UNCHANGED <<rows, locks, now, writer, writes, sanitized>>

\* ... and locks the rows in any order.  A row that has gone meanwhile is passed
\* over, also when its key was written again.
Take(c, target) ==
  LET id == target[1]
      still == rows[id].created = target[2]
  IN  /\ locks[id] = Free
      /\ locks' = IF still THEN [locks EXCEPT ![id] = c] ELSE locks
      /\ cmd' = [cmd EXCEPT ![c].left = @ \ {target},
                            ![c].held = IF still THEN @ \cup {id} ELSE @]

PruneLock(c) ==
  /\ cmd[c].pc = "lock"
  /\ \E target \in cmd[c].left : Take(c, target)
  /\ UNCHANGED <<rows, now, writer, writes, sanitized>>

\* Fault: the count is reported.
DeletedAsCounted(c) == cmd[c].matched

Deleted(c) == Cardinality(cmd[c].held)

PruneCommit(c) ==
  /\ cmd[c].pc = "lock"
  /\ cmd[c].left = {}
  /\ rows' = [id \in Ids |-> IF id \in cmd[c].held THEN NoRow ELSE rows[id]]
  /\ Ends(c, [cmd[c] EXCEPT !.pc = "done", !.done = Deleted(c)])
  /\ UNCHANGED <<now, writer, writes, sanitized>>

----------------------------------------------------------------------------
\* The sanitizer.

\* _sanitize_row: what does not validate or would change its key is refused.
Refused(id) == rows[id].content \in {"malformed", "otherkey"}

Changed(c) == {id \in cmd[c].held : rows[id].content # "safe"}

\* A dry run reads without locks and is done.
SanitizeDryRun(c) ==
  LET seen == {id \in Ids : Present(id)}
      bad == \E id \in seen : Refused(id)
  IN  /\ MayStart(c)
      /\ cmd' = [cmd EXCEPT ![c] =
           [Idle EXCEPT !.pc = IF bad THEN "failed" ELSE "done",
                        !.failure = IF bad THEN "refused" ELSE "none",
                        !.matched = Cardinality({i \in seen : rows[i].content # "safe"}),
                        !.late = sanitized]]
      /\ UNCHANGED <<rows, locks, now, writer, writes, sanitized>>

\* SELECT ... ORDER BY ... FOR UPDATE sees the committed rows ...
SanitizeRead(c) ==
  /\ MayStart(c)
  /\ cmd' = [cmd EXCEPT ![c] =
       [Idle EXCEPT !.pc = "lock", !.apply = TRUE, !.late = sanitized,
                    !.left = {<<id, rows[id].created>> : id \in {i \in Ids : Present(i)}}]]
  /\ UNCHANGED <<rows, locks, now, writer, writes, sanitized>>

\* Fault: read without FOR UPDATE.
NextRowUnlocked(c, target) ==
  cmd' = [cmd EXCEPT ![c].left = @ \ {target}, ![c].held = @ \cup {target[1]}]
    /\ UNCHANGED locks

NextRow(c, target) == Take(c, target)

\* ... and locks them in order, each in its latest version.
SanitizeLock(c) ==
  /\ cmd[c].pc = "lock"
  /\ \E target \in cmd[c].left :
       /\ \A other \in cmd[c].left : target[1] <= other[1]
       /\ NextRow(c, target)
  /\ UNCHANGED <<rows, now, writer, writes, sanitized>>

\* Every row must be acceptable.
Sanitizes(c) == \A id \in cmd[c].held : ~Refused(id)

\* The rows that change are rewritten, columns, fingerprint and payload, each
\* UPDATE expecting one row; or the transaction is rolled back.
SanitizeCommit(c) ==
  LET gone == {id \in Changed(c) : ~Present(id)}
      failure == IF ~Sanitizes(c) THEN "refused"
                 ELSE IF gone # {} THEN "changed" ELSE "none"
  IN  /\ cmd[c].pc = "lock"
      /\ cmd[c].left = {}
      /\ IF failure = "none"
         THEN /\ rows' = [id \in Ids |-> IF id \in Changed(c)
                                         THEN [rows[id] EXCEPT !.content = "safe"]
                                         ELSE rows[id]]
              /\ sanitized' = TRUE
              /\ Ends(c, [cmd[c] EXCEPT !.pc = "done",
                            !.matched = Cardinality(Changed(c)),
                            !.done = Cardinality(Changed(c))])
         ELSE /\ Ends(c, [cmd[c] EXCEPT !.pc = "failed", !.failure = failure])
              /\ UNCHANGED <<rows, sanitized>>
      /\ UNCHANGED <<now, writer, writes>>

\* A deadlock's victim, a lost connection, a killed command: rolled back.
Fail(c) ==
  /\ cmd[c].pc \in {"count", "delete", "lock"}
  /\ Ends(c, [cmd[c] EXCEPT !.pc = "failed", !.failure = "database"])
  /\ UNCHANGED <<rows, now, writer, writes, sanitized>>

----------------------------------------------------------------------------
\* The recorder: the event is redacted, inserted unless its key is there, and
\* if it is, compared by fingerprint.

\* An insert waits for a transaction that is deleting the key.
Waits(id) == locks[id] \in Pruners

Persisted == "safe"

Insert(id) ==
  /\ writer.pc = "idle"
  /\ writes < MaxWrites
  /\ ~Waits(id)
  /\ writes' = writes + 1
  /\ IF Present(id)
     THEN writer' = [pc |-> "compare", id |-> id, result |-> "none"] /\ UNCHANGED rows
     ELSE /\ rows' = [rows EXCEPT ![id] = [created |-> now, content |-> Persisted]]
          /\ writer' = [NoWrite EXCEPT !.result = "stored"]
  /\ UNCHANGED <<locks, cmd, now, sanitized>>

\* The event may be the one stored or another; the row may be gone again.
Compare ==
  /\ writer.pc = "compare"
  /\ \E same \in BOOLEAN :
       writer' = [NoWrite EXCEPT !.result =
         IF ~Present(writer.id) THEN "dropped"
         ELSE IF same /\ rows[writer.id].content = "safe" THEN "replayed"
         ELSE "conflict"]
  /\ UNCHANGED <<rows, locks, cmd, now, writes, sanitized>>

\* trace_run_id_lookup_candidates: a raw run id looks under the digest, too.
lookup_candidates(run) == IF run = "raw" THEN {"digest", "raw"} ELSE {"digest"}

\* What a row's run_id column holds for a run that began with a chat message.
RunColumn(id) == IF rows[id].content = "safe" THEN "digest" ELSE "raw"

list_for_run(run) ==
  {id \in Ids : Present(id) /\ RunColumn(id) \in lookup_candidates(run)}

DayPasses ==
  /\ now < MaxTime
  /\ now' = now + 1
  /\ UNCHANGED <<rows, locks, cmd, writer, writes, sanitized>>

Next ==
  \/ \E c \in Pruners : \/ PruneBegin(c) \/ PruneCount(c) \/ PruneDelete(c)
                        \/ PruneLock(c) \/ PruneCommit(c)
  \/ \E c \in Sanitizers : \/ SanitizeDryRun(c) \/ SanitizeRead(c)
                           \/ SanitizeLock(c) \/ SanitizeCommit(c)
  \/ \E c \in Commands : Refuse(c) \/ Fail(c)
  \/ \E id \in Ids : Insert(id)
  \/ Compare
  \/ DayPasses

Spec == Init /\ [][Next]_vars

----------------------------------------------------------------------------
\* Properties.

\* The locks are exactly those running commands hold, on rows that are there;
\* counters and stamps are in range.
TypeOK ==
  /\ rows \in [Ids -> {NoRow} \cup [created : 0 .. now, content : Contents]]
  /\ now \in MaxDays .. MaxTime
  /\ writes \in 0 .. MaxWrites
  /\ sanitized \in BOOLEAN
  /\ writer.result \in {"none", "stored", "replayed", "conflict", "dropped"}
  /\ \A id \in Ids : locks[id] # Free =>
       /\ Present(id)
       /\ cmd[locks[id]].pc = "lock" /\ id \in cmd[locks[id]].held
  /\ \A c \in Commands : cmd[c].failure \in {"none", "refused", "changed", "database"}

\* No step removes a row that is less than a whole day old, the shortest
\* retention there is, whatever the operator typed and whoever else writes.
YoungRowsStay ==
  \A id \in Ids : (Present(id) /\ ~Present(id)') => now - rows[id].created > 1

\* Once a sanitizer has been applied no row is left as it was, and none comes
\* back; a later run that succeeds finds nothing to change.
SanitizedForGood ==
  sanitized => /\ \A id \in Ids : Present(id) => rows[id].content = "safe"
               /\ \A c \in Sanitizers : cmd[c].pc = "done" /\ cmd[c].late
                                          => cmd[c].matched = 0

\* No UPDATE of the sanitizer misses its row: "a trace row changed concurrently"
\* is never what the operator reads.
UpdatesFindTheirRow == \A c \in Sanitizers : cmd[c].failure # "changed"

\* The number a command reports is the number of rows its commit changed.
ReportsMatchEffects ==
  \A c \in Commands : (cmd[c].pc = "lock" /\ cmd'[c].pc = "done") =>
    cmd'[c].done = Cardinality({id \in Ids : rows'[id] # rows[id]})

\* A raw run identifier finds every row of the run, before, during and after
\* sanitization.
FoundByRun == \A id \in Ids : Present(id) => id \in list_for_run("raw")

\* The sanitizer finishes what it starts, for good, and nobody loses a row over it.
SanitizerSound ==
  /\ TypeOK
  /\ SanitizedForGood
  /\ UpdatesFindTheirRow
  /\ FoundByRun

\* No step of a command removes what is young or misreports what it did.
CommandsHonest == [][YoungRowsStay /\ ReportsMatchEffects]_vars
=============================================================================
