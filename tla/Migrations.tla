------------------------------ MODULE Migrations ------------------------------
(***************************************************************************)
(* Schema migrations: apply_migrations run by any number of deploying      *)
(* processes, possibly of different releases, and migration_status, which  *)
(* the readiness probe calls without the advisory lock.                    *)
(*                                                                         *)
(* A migration is a model value that stands for a name and a checksum: two *)
(* releases agree on a version when they ship the same value.  Each        *)
(* statement outside a transaction, and each transaction, is one action.   *)
(***************************************************************************)
EXTENDS Naturals, Sequences

CONSTANTS
  Runners,     \* processes that run apply_migrations
  Probes,      \* processes that answer readiness probes
  Migration,   \* the migrations that any release ships
  MaxVersion,  \* the highest version number of any release
  Files        \* Files[p][v]: version v in the release of process p

NoMigration == "none"
NoRunner == "none"

Version == 1..MaxVersion

\* The rows of a history table, or the files of a release, by version.
Rows == [Version -> Migration \cup {NoMigration}]

\* discover_migrations refuses a sequence that is not 0001, 0002, ...
contiguous(rows) ==
  \A u, v \in Version : u < v /\ rows[v] # NoMigration => rows[u] # NoMigration

ASSUME MigrationsAssumption ==
  /\ MaxVersion \in Nat
  /\ NoMigration \notin Migration
  /\ NoRunner \notin Runners
  /\ Files \in [Runners \cup Probes -> Rows]
  /\ \A p \in Runners \cup Probes : contiguous(Files[p])

VARIABLES
  lock,            \* who holds the schema's advisory lock
  history_exists,  \* assistant_schema_migrations has been created
  history,         \* its rows
  schema,          \* history: the migrations whose SQL took effect, in order
  runner,          \* what each run of apply_migrations holds
  probe            \* what each readiness probe holds and last reported

vars == <<lock, history_exists, history, schema, runner, probe>>

-----------------------------------------------------------------------------
RunnerPc == {"idle", "wait", "ensure", "before", "apply", "after", "unlock"}

RunnerState ==
  [pc      : RunnerPc,
   pending : SUBSET Version,
   result  : {"none", "ok", "failed"}]

ProbeState ==
  [pc     : {"idle", "read"},
   report : {"none", "ready", "not_ready"}]

TypeOK ==
  /\ lock \in Runners \cup {NoRunner}
  /\ history_exists \in BOOLEAN
  /\ history \in Rows
  /\ schema \in Seq(Migration)
  /\ runner \in [Runners -> RunnerState]
  /\ probe \in [Probes -> ProbeState]

Init ==
  /\ lock = NoRunner
  /\ history_exists = FALSE
  /\ history = [v \in Version |-> NoMigration]
  /\ schema = << >>
  /\ runner = [r \in Runners |-> [pc |-> "idle", pending |-> {}, result |-> "none"]]
  /\ probe = [q \in Probes |-> [pc |-> "idle", report |-> "none"]]

-----------------------------------------------------------------------------
(* _build_status: it raises on a row this release does not know, or knows  *)
(* under another name or checksum, and on a gap.                           *)

\* Mutant of Compatible: checksums of applied migrations are not compared.
CompatibleUnchecked(p) ==
  \A v \in Version : history[v] # NoMigration => Files[p][v] # NoMigration

Compatible(p) ==
  /\ \A v \in Version : history[v] # NoMigration => Files[p][v] = history[v]
  /\ contiguous(history)

\* Mutant of Pending: the last file of the release is left out.
PendingButLast(p) ==
  {v \in Version : Files[p][v] # NoMigration /\ history[v] = NoMigration
                   /\ v < MaxVersion}

Pending(p) ==
  {v \in Version : Files[p][v] # NoMigration /\ history[v] = NoMigration}

-----------------------------------------------------------------------------
(* apply_migrations.                                                       *)

GoTo(r, pc) == runner' = [runner EXCEPT ![r].pc = pc]

\* The body of the with statement is left, by return or by exception.
Ends(r, result) ==
  runner' = [runner EXCEPT ![r].pc = "unlock", ![r].pending = {}, ![r].result = result]

Start(r) ==
  /\ runner[r].pc = "idle"
  /\ GoTo(r, "wait")
  /\ UNCHANGED <<lock, history_exists, history, schema, probe>>

\* pg_advisory_lock blocks until the lock is free.
Lock(r) ==
  /\ runner[r].pc = "wait"
  /\ lock = NoRunner
  /\ lock' = r
  /\ GoTo(r, "ensure")
  /\ UNCHANGED <<history_exists, history, schema, probe>>

\* _ensure_history: CREATE TABLE IF NOT EXISTS, in a transaction.
EnsureHistory(r) ==
  /\ runner[r].pc = "ensure"
  /\ history_exists' = TRUE
  /\ GoTo(r, "before")
  /\ UNCHANGED <<lock, history, schema, probe>>

ReadBefore(r) ==
  /\ runner[r].pc = "before"
  /\ \/ /\ Compatible(r)
        /\ runner' = [runner EXCEPT ![r].pc = "apply", ![r].pending = Pending(r)]
     \/ ~Compatible(r) /\ Ends(r, "failed")
  /\ UNCHANGED <<lock, history_exists, history, schema, probe>>

\* Mutant of ApplyOne: the row and the SQL are not one transaction.
ApplyOneInTwo(r) ==
  /\ runner[r].pc = "apply"
  /\ \E v \in runner[r].pending :
       /\ \A u \in runner[r].pending : v <= u
       /\ \/ /\ history[v] = NoMigration
             /\ history' = [history EXCEPT ![v] = Files[r][v]]
             /\ schema' = Append(schema, Files[r][v])
             /\ runner' = [runner EXCEPT ![r].pending = @ \ {v}]
          \/ /\ Ends(r, "failed")
             /\ schema' = Append(schema, Files[r][v])
             /\ UNCHANGED history
  /\ UNCHANGED <<lock, history_exists, probe>>

\* _apply_one: the SQL and its history row commit together, or the SQL fails,
\* or the primary key refuses the row, and both are rolled back.
ApplyOne(r) ==
  /\ runner[r].pc = "apply"
  /\ \E v \in runner[r].pending :
       /\ \A u \in runner[r].pending : v <= u
       /\ \/ /\ history[v] = NoMigration
             /\ history' = [history EXCEPT ![v] = Files[r][v]]
             /\ schema' = Append(schema, Files[r][v])
             /\ runner' = [runner EXCEPT ![r].pending = @ \ {v}]
          \/ Ends(r, "failed") /\ UNCHANGED <<history, schema>>
  /\ UNCHANGED <<lock, history_exists, probe>>

\* The loop over the pending migrations is done.
Applied(r) ==
  /\ runner[r].pc = "apply"
  /\ runner[r].pending = {}
  /\ GoTo(r, "after")
  /\ UNCHANGED <<lock, history_exists, history, schema, probe>>

ReadAfter(r) ==
  /\ runner[r].pc = "after"
  /\ Ends(r, IF Compatible(r) THEN "ok" ELSE "failed")
  /\ UNCHANGED <<lock, history_exists, history, schema, probe>>

\* Mutant of Unlock: the lock is released on success only.
UnlockOnSuccess(r) ==
  /\ runner[r].pc = "unlock"
  /\ lock' = IF runner[r].result = "ok" THEN NoRunner ELSE lock
  /\ GoTo(r, "idle")
  /\ UNCHANGED <<history_exists, history, schema, probe>>

\* pg_advisory_unlock, in the finally clause.
Unlock(r) ==
  /\ runner[r].pc = "unlock"
  /\ lock' = NoRunner
  /\ GoTo(r, "idle")
  /\ UNCHANGED <<history_exists, history, schema, probe>>

\* The process dies; the server ends its session and with it the lock.
Crash(r) ==
  /\ runner[r].pc # "idle"
  /\ lock' = IF lock = r THEN NoRunner ELSE lock
  /\ runner' = [runner EXCEPT ![r].pc = "idle", ![r].pending = {}]
  /\ UNCHANGED <<history_exists, history, schema, probe>>

-----------------------------------------------------------------------------
(* migration_status, as _readiness_snapshot calls it: two statements, no   *)
(* transaction and no lock.                                                *)

\* Without a history table every migration of the release is pending.
CheckHistory(q) ==
  /\ probe[q].pc = "idle"
  /\ probe' = [probe EXCEPT ![q] =
                 IF history_exists THEN [pc |-> "read", report |-> @.report]
                 ELSE [pc |-> "idle", report |-> "not_ready"]]
  /\ UNCHANGED <<lock, history_exists, history, schema, runner>>

ReadHistory(q) ==
  /\ probe[q].pc = "read"
  /\ probe' = [probe EXCEPT ![q] =
                 [pc     |-> "idle",
                  report |-> IF Compatible(q) /\ Pending(q) = {} THEN "ready"
                             ELSE "not_ready"]]
  /\ UNCHANGED <<lock, history_exists, history, schema, runner>>

-----------------------------------------------------------------------------
\* The steps of a run that holds the lock.
Proceed(r) ==
  \/ EnsureHistory(r) \/ ReadBefore(r) \/ ApplyOne(r) \/ Applied(r)
  \/ ReadAfter(r) \/ Unlock(r)

Next ==
  \/ \E r \in Runners : Start(r) \/ Lock(r) \/ Proceed(r) \/ Crash(r)
  \/ \E q \in Probes : CheckHistory(q) \/ ReadHistory(q)

Spec == Init /\ [][Next]_vars

\* A run that holds the lock goes on or dies, and the server grants the lock in
\* the order in which it was asked for.
Fairness ==
  \A r \in Runners : WF_vars(Proceed(r)) /\ SF_vars(Lock(r))

FairSpec == Spec /\ Fairness

-----------------------------------------------------------------------------
(* Properties.                                                             *)

\* Every migration took effect exactly once and in version order, and the
\* history lists exactly those that did: no crash, failure or concurrent
\* deployment lets the two diverge.  So the gap check never fires.
HistoryIsSchema ==
  /\ Len(schema) <= MaxVersion
  /\ \A v \in Version :
       history[v] = IF v <= Len(schema) THEN schema[v] ELSE NoMigration

\* All of the release's migrations have taken effect, as it ships them.
Installed(p) ==
  \A v \in Version :
    Files[p][v] # NoMigration => v <= Len(schema) /\ schema[v] = Files[p][v]

\* The schema is always an initial part of one release's sequence: releases
\* that disagree never build on each other's migrations.
OneLineage ==
  schema # << >> =>
    \E r \in Runners : \A v \in 1..Len(schema) : v \in Version /\ schema[v] = Files[r][v]

\* A probe says ready, and a run ends without an error, only if the whole
\* release is installed; it stays so, although the probe takes no lock.
ReportsTrue ==
  /\ \A q \in Probes : probe[q].report = "ready" => Installed(q)
  /\ \A r \in Runners : runner[r].result = "ok" => Installed(r)

\* Every deployment that waits for the lock gets it and ends.
RunsEnd == \A r \in Runners : runner[r].pc = "wait" ~> runner[r].pc = "idle"
=============================================================================
