--------------------------- MODULE MigrationsProofs ---------------------------
(***************************************************************************)
(* Proofs about Migrations, for any number of deployments, probes and      *)
(* releases.                                                               *)
(*                                                                         *)
(* The invariant adds to the properties what a run knows while it holds    *)
(* the lock: the history still is the one it compared with its files, and  *)
(* the versions it has left are exactly those the history lacks.  So the   *)
(* lowest of them is the next version of the schema.                       *)
(***************************************************************************)
EXTENDS Migrations, TLAPS

Holding == {"ensure", "before", "apply", "after", "unlock"}

\* The lock is held by the one run that is past it.
LockInv == \A r \in Runners : runner[r].pc \in Holding <=> lock = r

\* What a run read under the lock is still true.
PlanInv ==
  \A r \in Runners :
    /\ runner[r].pc = "apply" => Compatible(r) /\ runner[r].pending = Pending(r)
    /\ runner[r].pc = "after" => Compatible(r) /\ Pending(r) = {}

Inv ==
  /\ TypeOK
  /\ LockInv
  /\ PlanInv
  /\ HistoryIsSchema
  /\ OneLineage
  /\ ReportsTrue

-----------------------------------------------------------------------------
(* The history and the schema.                                             *)

\* The versions with a history row are the first Len(schema).
LEMMA AppliedVersions ==
  ASSUME TypeOK, HistoryIsSchema
  PROVE  /\ Len(schema) \in Nat
         /\ \A v \in Version : history[v] # NoMigration <=> v <= Len(schema)
         /\ \A v \in Version : v <= Len(schema) => history[v] = schema[v]
<1>1. Len(schema) \in Nat
  BY DEF TypeOK
<1>2. ASSUME NEW v \in Version, v <= Len(schema)
      PROVE  history[v] = schema[v] /\ history[v] # NoMigration
  <2>1. v \in 1..Len(schema)
    BY <1>1, <1>2, MigrationsAssumption DEF Version
  <2>2. schema[v] \in Migration
    BY <2>1 DEF TypeOK
  <2> QED
    BY <1>2, <2>2, MigrationsAssumption DEF HistoryIsSchema
<1>3. ASSUME NEW v \in Version, ~(v <= Len(schema))
      PROVE  history[v] = NoMigration
  BY <1>3 DEF HistoryIsSchema
<1> QED
  BY <1>1, <1>2, <1>3

\* The lowest pending version of a compatible release follows the schema.
LEMMA NextVersion ==
  ASSUME TypeOK, HistoryIsSchema, NEW r \in Runners, Compatible(r),
         NEW v \in Pending(r), \A u \in Pending(r) : v <= u
  PROVE  v = Len(schema) + 1
<1>1. v \in Version /\ Files[r][v] # NoMigration /\ history[v] = NoMigration
  BY DEF Pending
<1>2. Len(schema) \in Nat /\ ~(v <= Len(schema))
  BY <1>1, AppliedVersions
<1>3. CASE Len(schema) + 1 < v
  <2>1. Len(schema) + 1 \in Version
    BY <1>1, <1>2, <1>3, MigrationsAssumption DEF Version
  <2>2. Files[r][Len(schema) + 1] # NoMigration
    BY <1>1, <1>3, <2>1, MigrationsAssumption DEF contiguous
  <2>3. history[Len(schema) + 1] = NoMigration
    <3>1. ~(Len(schema) + 1 <= Len(schema))
      BY <1>2
    <3> QED
      BY <2>1, <3>1, AppliedVersions
  <2>4. Len(schema) + 1 \in Pending(r)
    BY <2>1, <2>2, <2>3 DEF Pending
  <2> QED
    BY <1>1, <1>2, <1>3, <2>4, MigrationsAssumption DEF Version
<1> QED
  BY <1>1, <1>2, <1>3, MigrationsAssumption DEF Version

\* A release whose history is complete and compatible is installed.
LEMMA CompleteIsInstalled ==
  ASSUME TypeOK, HistoryIsSchema, NEW p \in Runners \cup Probes,
         Compatible(p), Pending(p) = {}
  PROVE  Installed(p)
<1> SUFFICES ASSUME NEW v \in Version, Files[p][v] # NoMigration
             PROVE  v <= Len(schema) /\ schema[v] = Files[p][v]
  BY DEF Installed
<1>1. history[v] # NoMigration
  BY DEF Pending
<1>2. Files[p][v] = history[v]
  BY <1>1 DEF Compatible
<1> QED
  BY <1>1, <1>2, AppliedVersions

-----------------------------------------------------------------------------
(* Steps that leave the tables alone.                                      *)

\* Definitions that only look at the tables keep their values.
LEMMA SameTables ==
  ASSUME UNCHANGED <<history, schema>>
  PROVE  /\ HistoryIsSchema' <=> HistoryIsSchema
         /\ OneLineage' <=> OneLineage
         /\ \A p \in Runners \cup Probes :
              /\ Compatible(p)' <=> Compatible(p)
              /\ Pending(p)' = Pending(p)
              /\ Installed(p)' <=> Installed(p)
BY DEF HistoryIsSchema, OneLineage, Compatible, Pending, Installed, contiguous

\* A step of one run that leaves the tables and the probes alone.
LEMMA RunnerStep ==
  ASSUME Inv, NEW r \in Runners,
         UNCHANGED <<history, schema, probe>>,
         history_exists' \in BOOLEAN,
         lock' \in Runners \cup {NoRunner},
         runner' \in [Runners -> RunnerState],
         \A s \in Runners \ {r} : runner'[s] = runner[s] /\ (lock' = s <=> lock = s),
         runner'[r].pc \in Holding <=> lock' = r,
         runner'[r].pc = "apply" => Compatible(r) /\ runner'[r].pending = Pending(r),
         runner'[r].pc = "after" => Compatible(r) /\ Pending(r) = {},
         runner'[r].result = "ok" => Installed(r)
  PROVE  Inv'
<1>1. TypeOK'
  BY DEF Inv, TypeOK
<1>2. LockInv'
  BY DEF Inv, LockInv
<1>3. HistoryIsSchema' /\ OneLineage'
  BY SameTables DEF Inv
<1>4. PlanInv'
  <2> SUFFICES ASSUME NEW s \in Runners
               PROVE  /\ runner'[s].pc = "apply" =>
                           Compatible(s)' /\ runner'[s].pending = Pending(s)'
                      /\ runner'[s].pc = "after" => Compatible(s)' /\ Pending(s)' = {}
    BY DEF PlanInv
  <2>1. (Compatible(s)' <=> Compatible(s)) /\ Pending(s)' = Pending(s)
    BY SameTables
  <2>2. CASE s = r
    BY <2>1, <2>2
  <2>3. CASE s # r
    <3>1. runner'[s] = runner[s]
      BY <2>3
    <3> QED
      BY <2>1, <3>1 DEF Inv, PlanInv
  <2> QED
    BY <2>2, <2>3
<1>5. ReportsTrue'
  <2>1. ASSUME NEW q \in Probes, probe'[q].report = "ready"
        PROVE  Installed(q)'
    <3>1. Installed(q)
      BY <2>1 DEF Inv, ReportsTrue
    <3> QED
      BY <3>1, SameTables
  <2>2. ASSUME NEW s \in Runners, runner'[s].result = "ok"
        PROVE  Installed(s)'
    <3>1. Installed(s)
      <4>1. CASE s = r
        BY <2>2, <4>1
      <4>2. CASE s # r
        BY <2>2, <4>2 DEF Inv, ReportsTrue
      <4> QED
        BY <4>1, <4>2
    <3> QED
      BY <3>1, SameTables
  <2> QED
    BY <2>1, <2>2 DEF ReportsTrue
<1> QED
  BY <1>1, <1>2, <1>3, <1>4, <1>5 DEF Inv

-----------------------------------------------------------------------------
(* Actions.                                                                *)

LEMMA InitInv == Init => Inv
<1> SUFFICES ASSUME Init PROVE Inv
  OBVIOUS
<1>1. Len(schema) = 0 /\ schema \in Seq(Migration)
  BY DEF Init
<1>2. TypeOK
  <2>1. history \in Rows
    BY DEF Init, Rows
  <2>2. runner \in [Runners -> RunnerState]
    BY DEF Init, RunnerState, RunnerPc
  <2>3. probe \in [Probes -> ProbeState]
    BY DEF Init, ProbeState
  <2> QED
    BY <1>1, <2>1, <2>2, <2>3 DEF Init, TypeOK
<1>3. LockInv
  BY MigrationsAssumption DEF Init, LockInv, Holding
<1>4. PlanInv
  BY DEF Init, PlanInv
<1>5. HistoryIsSchema
  BY <1>1, MigrationsAssumption DEF Init, HistoryIsSchema, Version
<1>6. OneLineage
  BY DEF Init, OneLineage
<1>7. ReportsTrue
  BY DEF Init, ReportsTrue
<1> QED
  BY <1>2, <1>3, <1>4, <1>5, <1>6, <1>7 DEF Inv

LEMMA StartInv == ASSUME Inv, NEW r \in Runners, Start(r) PROVE Inv'
<1>1. runner' \in [Runners -> RunnerState]
  BY DEF Start, GoTo, Inv, TypeOK, RunnerState, RunnerPc
<1>2. /\ runner'[r].pc = "wait" /\ runner'[r].result = runner[r].result
      /\ \A s \in Runners \ {r} : runner'[s] = runner[s]
  BY DEF Start, GoTo, Inv, TypeOK, RunnerState
<1>3. lock # r /\ lock' = lock
  BY DEF Start, Inv, LockInv, Holding
<1>4. runner'[r].result = "ok" => Installed(r)
  BY <1>2 DEF Inv, ReportsTrue
<1>5. UNCHANGED <<history, schema, probe, history_exists>>
  BY DEF Start
<1>6. history_exists \in BOOLEAN /\ lock \in Runners \cup {NoRunner}
  BY DEF Inv, TypeOK
<1> QED
  BY <1>1, <1>2, <1>3, <1>4, <1>5, <1>6, RunnerStep DEF Holding

LEMMA LockStepInv == ASSUME Inv, NEW r \in Runners, Lock(r) PROVE Inv'
<1>1. runner' \in [Runners -> RunnerState]
  BY DEF Lock, GoTo, Inv, TypeOK, RunnerState, RunnerPc
<1>2. /\ runner'[r].pc = "ensure" /\ runner'[r].result = runner[r].result
      /\ \A s \in Runners \ {r} : runner'[s] = runner[s]
  BY DEF Lock, GoTo, Inv, TypeOK, RunnerState
<1>3. lock = NoRunner /\ lock' = r /\ NoRunner \notin Runners
  BY MigrationsAssumption DEF Lock
<1>4. runner'[r].result = "ok" => Installed(r)
  BY <1>2 DEF Inv, ReportsTrue
<1>5. UNCHANGED <<history, schema, probe, history_exists>>
  BY DEF Lock
<1>6. history_exists \in BOOLEAN
  BY DEF Inv, TypeOK
<1> QED
  BY <1>1, <1>2, <1>3, <1>4, <1>5, <1>6, RunnerStep DEF Holding

LEMMA EnsureHistoryInv == ASSUME Inv, NEW r \in Runners, EnsureHistory(r) PROVE Inv'
<1>1. runner' \in [Runners -> RunnerState]
  BY DEF EnsureHistory, GoTo, Inv, TypeOK, RunnerState, RunnerPc
<1>2. /\ runner'[r].pc = "before" /\ runner'[r].result = runner[r].result
      /\ \A s \in Runners \ {r} : runner'[s] = runner[s]
  BY DEF EnsureHistory, GoTo, Inv, TypeOK, RunnerState
<1>3. lock = r /\ lock' = lock
  BY DEF EnsureHistory, Inv, LockInv, Holding
<1>4. runner'[r].result = "ok" => Installed(r)
  BY <1>2 DEF Inv, ReportsTrue
<1>5. UNCHANGED <<history, schema, probe>> /\ history_exists' \in BOOLEAN
  BY DEF EnsureHistory
<1> QED
  BY <1>1, <1>2, <1>3, <1>4, <1>5, RunnerStep DEF Holding

\* Leaving the body of the run with a true result.
LEMMA EndsInv ==
  ASSUME Inv, NEW r \in Runners, lock = r,
         NEW result \in {"ok", "failed"}, Ends(r, result),
         result = "ok" => Installed(r),
         UNCHANGED <<lock, history_exists, history, schema, probe>>
  PROVE  Inv'
<1>1. runner' \in [Runners -> RunnerState]
  BY DEF Ends, Inv, TypeOK, RunnerState, RunnerPc
<1>2. /\ runner'[r].pc = "unlock" /\ runner'[r].result = result
      /\ \A s \in Runners \ {r} : runner'[s] = runner[s]
  BY DEF Ends, Inv, TypeOK, RunnerState
<1>3. history_exists \in BOOLEAN
  BY DEF Inv, TypeOK
<1> QED
  BY <1>1, <1>2, <1>3, RunnerStep DEF Holding

LEMMA ReadBeforeInv == ASSUME Inv, NEW r \in Runners, ReadBefore(r) PROVE Inv'
<1>1. lock = r
  BY DEF ReadBefore, Inv, LockInv, Holding
<1>2. UNCHANGED <<lock, history_exists, history, schema, probe>>
  BY DEF ReadBefore
<1>3. CASE ~Compatible(r) /\ Ends(r, "failed")
  BY <1>1, <1>2, <1>3, EndsInv
<1>4. CASE /\ Compatible(r)
           /\ runner' = [runner EXCEPT ![r].pc = "apply", ![r].pending = Pending(r)]
  <2>1. Pending(r) \in SUBSET Version
    BY DEF Pending
  <2>2. runner' \in [Runners -> RunnerState]
    BY <1>4, <2>1 DEF Inv, TypeOK, RunnerState, RunnerPc
  <2>3. /\ runner'[r].pc = "apply" /\ runner'[r].result = runner[r].result
        /\ runner'[r].pending = Pending(r)
        /\ \A s \in Runners \ {r} : runner'[s] = runner[s]
    BY <1>4 DEF Inv, TypeOK, RunnerState
  <2>4. runner'[r].result = "ok" => Installed(r)
    BY <2>3 DEF Inv, ReportsTrue
  <2>5. history_exists \in BOOLEAN
    BY DEF Inv, TypeOK
  <2> QED
    BY <1>1, <1>2, <1>4, <2>2, <2>3, <2>4, <2>5, RunnerStep DEF Holding
<1> QED
  BY <1>3, <1>4 DEF ReadBefore

LEMMA AppliedInv == ASSUME Inv, NEW r \in Runners, Applied(r) PROVE Inv'
<1>1. runner' \in [Runners -> RunnerState]
  BY DEF Applied, GoTo, Inv, TypeOK, RunnerState, RunnerPc
<1>2. /\ runner'[r].pc = "after" /\ runner'[r].result = runner[r].result
      /\ \A s \in Runners \ {r} : runner'[s] = runner[s]
  BY DEF Applied, GoTo, Inv, TypeOK, RunnerState
<1>3. lock = r /\ lock' = lock
  BY DEF Applied, Inv, LockInv, Holding
<1>4. runner'[r].result = "ok" => Installed(r)
  BY <1>2 DEF Inv, ReportsTrue
<1>5. UNCHANGED <<history, schema, probe, history_exists>>
  BY DEF Applied
<1>6. history_exists \in BOOLEAN
  BY DEF Inv, TypeOK
<1>7. Compatible(r) /\ Pending(r) = {}
  BY DEF Applied, Inv, PlanInv
<1> QED
  BY <1>1, <1>2, <1>3, <1>4, <1>5, <1>6, <1>7, RunnerStep DEF Holding

LEMMA ReadAfterInv == ASSUME Inv, NEW r \in Runners, ReadAfter(r) PROVE Inv'
<1>1. lock = r
  BY DEF ReadAfter, Inv, LockInv, Holding
<1>2. Compatible(r) /\ Pending(r) = {}
  BY DEF ReadAfter, Inv, PlanInv
<1>3. Installed(r)
  BY <1>2, CompleteIsInstalled DEF Inv
<1>4. Ends(r, "ok")
  BY <1>2 DEF ReadAfter
<1> QED
  BY <1>1, <1>3, <1>4, EndsInv DEF ReadAfter

LEMMA UnlockInv == ASSUME Inv, NEW r \in Runners, Unlock(r) PROVE Inv'
<1>1. runner' \in [Runners -> RunnerState]
  BY DEF Unlock, GoTo, Inv, TypeOK, RunnerState, RunnerPc
<1>2. /\ runner'[r].pc = "idle" /\ runner'[r].result = runner[r].result
      /\ \A s \in Runners \ {r} : runner'[s] = runner[s]
  BY DEF Unlock, GoTo, Inv, TypeOK, RunnerState
<1>3. lock = r /\ lock' = NoRunner /\ NoRunner \notin Runners
  BY MigrationsAssumption DEF Unlock, Inv, LockInv, Holding
<1>4. runner'[r].result = "ok" => Installed(r)
  BY <1>2 DEF Inv, ReportsTrue
<1>5. UNCHANGED <<history, schema, probe, history_exists>>
  BY DEF Unlock
<1>6. history_exists \in BOOLEAN
  BY DEF Inv, TypeOK
<1> QED
  BY <1>1, <1>2, <1>3, <1>4, <1>5, <1>6, RunnerStep DEF Holding

LEMMA CrashInv == ASSUME Inv, NEW r \in Runners, Crash(r) PROVE Inv'
<1>1. runner' \in [Runners -> RunnerState]
  BY DEF Crash, Inv, TypeOK, RunnerState, RunnerPc
<1>2. /\ runner'[r].pc = "idle" /\ runner'[r].result = runner[r].result
      /\ \A s \in Runners \ {r} : runner'[s] = runner[s]
  BY DEF Crash, Inv, TypeOK, RunnerState
<1>3. /\ lock' # r /\ NoRunner \notin Runners
      /\ lock' \in Runners \cup {NoRunner}
      /\ \A s \in Runners \ {r} : lock' = s <=> lock = s
  BY MigrationsAssumption DEF Crash, Inv, TypeOK
<1>4. runner'[r].result = "ok" => Installed(r)
  BY <1>2 DEF Inv, ReportsTrue
<1>5. UNCHANGED <<history, schema, probe, history_exists>>
  BY DEF Crash
<1>6. history_exists \in BOOLEAN
  BY DEF Inv, TypeOK
<1> QED
  BY <1>1, <1>2, <1>3, <1>4, <1>5, <1>6, RunnerStep DEF Holding

\* The tables after one more migration.
LEMMA AppendedTables ==
  ASSUME TypeOK, HistoryIsSchema, NEW r \in Runners, Compatible(r),
         NEW v \in Version, v = Len(schema) + 1, Files[r][v] # NoMigration,
         history' = [history EXCEPT ![v] = Files[r][v]],
         schema' = Append(schema, Files[r][v])
  PROVE  /\ history' \in Rows
         /\ schema' \in Seq(Migration)
         /\ HistoryIsSchema'
         /\ OneLineage'
         /\ Compatible(r)'
         /\ \A p \in Runners \cup Probes : Installed(p) => Installed(p)'
<1>1. Files[r][v] \in Migration
  BY MigrationsAssumption DEF Rows
<1>2. Len(schema) \in Nat /\ schema \in Seq(Migration)
  BY DEF TypeOK
<1>3. /\ schema' \in Seq(Migration)
      /\ Len(schema') = v
      /\ schema'[v] = Files[r][v]
      /\ \A u \in 1..Len(schema) : schema'[u] = schema[u]
  BY <1>1, <1>2
<1>4. /\ history' \in Rows
      /\ history'[v] = Files[r][v]
      /\ \A u \in Version \ {v} : history'[u] = history[u]
  BY <1>1 DEF TypeOK, Rows
<1>5. v \in Nat /\ v <= MaxVersion /\ MaxVersion \in Nat
  BY MigrationsAssumption DEF Version
<1>6. \A u \in Version : u # v /\ u <= v => u <= Len(schema) /\ u \in 1..Len(schema)
  BY <1>2, <1>5, MigrationsAssumption DEF Version
<1>7. HistoryIsSchema'
  <2> SUFFICES ASSUME NEW u \in Version
               PROVE  history'[u] = IF u <= v THEN schema'[u] ELSE NoMigration
    BY <1>3, <1>5 DEF HistoryIsSchema
  <2>1. CASE u = v
    BY <1>3, <1>4, <1>5, <2>1
  <2>2. CASE u # v /\ u <= v
    <3>1. history[u] = schema[u]
      BY <1>6, <2>2, AppliedVersions
    <3> QED
      BY <1>3, <1>4, <1>6, <2>2, <3>1
  <2>3. CASE ~(u <= v)
    <3>1. u # v /\ ~(u <= Len(schema))
      BY <1>2, <1>5, <2>3, MigrationsAssumption DEF Version
    <3>2. history[u] = NoMigration
      BY <3>1 DEF HistoryIsSchema
    <3> QED
      BY <1>4, <2>3, <3>1, <3>2
  <2> QED
    BY <2>1, <2>2, <2>3
<1>8. \A u \in Version : history'[u] # NoMigration => Files[r][u] = history'[u]
  BY <1>4 DEF Compatible
<1>9. \A u \in Version : u <= v => history'[u] # NoMigration /\ history'[u] = schema'[u]
  <2> SUFFICES ASSUME NEW u \in Version, u <= v
               PROVE  history'[u] # NoMigration /\ history'[u] = schema'[u]
    OBVIOUS
  <2>1. CASE u = v
    BY <1>3, <1>4, <2>1
  <2>2. CASE u # v
    <3>1. history[u] # NoMigration /\ history[u] = schema[u]
      BY <1>6, <2>2, AppliedVersions
    <3> QED
      BY <1>3, <1>4, <1>6, <2>2, <3>1
  <2> QED
    BY <2>1, <2>2
<1>10. \A u \in Version : history'[u] # NoMigration => u <= v
  <2> SUFFICES ASSUME NEW u \in Version, ~(u <= v)
               PROVE  history'[u] = NoMigration
    OBVIOUS
  <2> QED
    BY <1>3, <1>7 DEF HistoryIsSchema
<1>11. Compatible(r)'
  <2>1. ASSUME NEW u \in Version, NEW w \in Version, u < w, history'[w] # NoMigration
        PROVE  history'[u] # NoMigration
    <3>1. w <= v
      BY <1>10, <2>1
    <3>2. u <= v
      BY <1>5, <2>1, <3>1, MigrationsAssumption DEF Version
    <3> QED
      BY <1>9, <3>2
  <2> QED
    BY <1>8, <2>1 DEF Compatible, contiguous
<1>12. OneLineage'
  <2>1. ASSUME NEW u \in 1..v
        PROVE  u \in Version /\ schema'[u] = Files[r][u]
    <3>1. u \in Version /\ u <= v
      BY <1>5, <2>1 DEF Version
    <3> QED
      BY <1>8, <1>9, <3>1
  <2> QED
    BY <1>3, <2>1 DEF OneLineage
<1>13. ASSUME NEW p \in Runners \cup Probes, Installed(p)
       PROVE  Installed(p)'
  <2> SUFFICES ASSUME NEW u \in Version, Files[p][u] # NoMigration
               PROVE  u <= Len(schema') /\ schema'[u] = Files[p][u]
    BY DEF Installed
  <2>1. u <= Len(schema) /\ schema[u] = Files[p][u]
    BY <1>13 DEF Installed
  <2>2. u \in 1..Len(schema) /\ u <= v
    BY <1>2, <1>5, <2>1, MigrationsAssumption DEF Version
  <2> QED
    BY <1>3, <2>1, <2>2
<1> QED
  BY <1>3, <1>4, <1>7, <1>11, <1>12, <1>13

LEMMA ApplyOneInv == ASSUME Inv, NEW r \in Runners, ApplyOne(r) PROVE Inv'
<1>1. lock = r
  BY DEF ApplyOne, Inv, LockInv, Holding
<1>2. Compatible(r) /\ runner[r].pending = Pending(r)
  BY DEF ApplyOne, Inv, PlanInv
<1>3. UNCHANGED <<lock, history_exists, probe>>
  BY DEF ApplyOne
<1>4. CASE Ends(r, "failed") /\ UNCHANGED <<history, schema>>
  BY <1>1, <1>3, <1>4, EndsInv
<1>5. ASSUME NEW v \in Pending(r), \A u \in Pending(r) : v <= u,
             history[v] = NoMigration,
             history' = [history EXCEPT ![v] = Files[r][v]],
             schema' = Append(schema, Files[r][v]),
             runner' = [runner EXCEPT ![r].pending = @ \ {v}]
      PROVE  Inv'
  <2>1. v \in Version /\ Files[r][v] # NoMigration
    BY DEF Pending
  <2>2. v = Len(schema) + 1
    BY <1>2, <1>5, NextVersion DEF Inv
  <2>3. /\ history' \in Rows /\ schema' \in Seq(Migration)
        /\ HistoryIsSchema' /\ OneLineage' /\ Compatible(r)'
        /\ \A p \in Runners \cup Probes : Installed(p) => Installed(p)'
    BY <1>2, <1>5, <2>1, <2>2, AppendedTables DEF Inv
  <2>4. runner' \in [Runners -> RunnerState]
    BY <1>5 DEF Inv, TypeOK, RunnerState
  <2>5. /\ runner'[r].pending = Pending(r) \ {v}
        /\ \A s \in Runners : runner'[s].pc = runner[s].pc
        /\ \A s \in Runners : runner'[s].result = runner[s].result
    BY <1>2, <1>5 DEF Inv, TypeOK, RunnerState
  <2>6. Pending(r)' = Pending(r) \ {v}
    <3>1. history \in Rows
      BY DEF Inv, TypeOK
    <3>2. /\ history'[v] # NoMigration
          /\ \A u \in Version \ {v} : history'[u] = history[u]
      BY <1>5, <2>1, <3>1 DEF Rows
    <3> QED
      BY <3>2 DEF Pending
  <2>7. TypeOK'
    BY <1>3, <2>3, <2>4 DEF Inv, TypeOK
  <2>8. LockInv'
    BY <1>3, <2>5 DEF Inv, LockInv
  <2>9. PlanInv'
    <3>1. ASSUME NEW s \in Runners, s # r
          PROVE  runner'[s].pc \notin {"apply", "after"}
      BY <1>1, <2>5, <3>1 DEF Inv, LockInv, Holding
    <3>2. runner'[r].pc = "apply"
      BY <2>5 DEF ApplyOne
    <3> QED
      BY <2>3, <2>5, <2>6, <3>1, <3>2 DEF PlanInv
  <2>10. ReportsTrue'
    BY <1>3, <2>3, <2>5 DEF Inv, ReportsTrue
  <2> QED
    BY <2>3, <2>7, <2>8, <2>9, <2>10 DEF Inv
<1> QED
  BY <1>2, <1>4, <1>5 DEF ApplyOne

\* A step of one probe whose report is true.
LEMMA ProbeStep ==
  ASSUME Inv, NEW q \in Probes,
         UNCHANGED <<lock, history_exists, history, schema, runner>>,
         probe' \in [Probes -> ProbeState],
         \A s \in Probes \ {q} : probe'[s] = probe[s],
         probe'[q].report = "ready" => Installed(q)
  PROVE  Inv'
<1>1. TypeOK'
  BY DEF Inv, TypeOK
<1>2. LockInv'
  BY DEF Inv, LockInv
<1>3. HistoryIsSchema' /\ OneLineage'
  BY SameTables DEF Inv
<1>4. PlanInv'
  BY SameTables DEF Inv, PlanInv
<1>5. ReportsTrue'
  <2>1. ASSUME NEW s \in Probes, probe'[s].report = "ready"
        PROVE  Installed(s)
    <3>1. CASE s = q
      BY <2>1, <3>1
    <3>2. CASE s # q
      BY <2>1, <3>2 DEF Inv, ReportsTrue
    <3> QED
      BY <3>1, <3>2
  <2>2. \A s \in Runners : runner'[s].result = "ok" => Installed(s)
    BY DEF Inv, ReportsTrue
  <2> QED
    BY <2>1, <2>2, SameTables DEF ReportsTrue
<1> QED
  BY <1>1, <1>2, <1>3, <1>4, <1>5 DEF Inv

LEMMA CheckHistoryInv == ASSUME Inv, NEW q \in Probes, CheckHistory(q) PROVE Inv'
<1>1. probe' \in [Probes -> ProbeState]
  BY DEF CheckHistory, Inv, TypeOK, ProbeState
<1>2. /\ \A s \in Probes \ {q} : probe'[s] = probe[s]
      /\ probe'[q].report \in {probe[q].report, "not_ready"}
  BY DEF CheckHistory, Inv, TypeOK, ProbeState
<1>3. probe'[q].report = "ready" => Installed(q)
  BY <1>2 DEF Inv, ReportsTrue
<1> QED
  BY <1>1, <1>2, <1>3, ProbeStep DEF CheckHistory

LEMMA ReadHistoryInv == ASSUME Inv, NEW q \in Probes, ReadHistory(q) PROVE Inv'
<1>1. probe' \in [Probes -> ProbeState]
  BY DEF ReadHistory, Inv, TypeOK, ProbeState
<1>2. /\ \A s \in Probes \ {q} : probe'[s] = probe[s]
      /\ probe'[q].report = "ready" => Compatible(q) /\ Pending(q) = {}
  BY DEF ReadHistory, Inv, TypeOK, ProbeState
<1>3. probe'[q].report = "ready" => Installed(q)
  BY <1>2, CompleteIsInstalled DEF Inv
<1> QED
  BY <1>1, <1>2, <1>3, ProbeStep DEF ReadHistory

-----------------------------------------------------------------------------
(* Theorems.                                                               *)

\* A step that changes nothing keeps the invariant.
LEMMA StutterInv == ASSUME Inv, UNCHANGED vars PROVE Inv'
<1>1. TypeOK' /\ LockInv'
  BY DEF vars, Inv, TypeOK, LockInv
<1>2. HistoryIsSchema' /\ OneLineage' /\ PlanInv' /\ ReportsTrue'
  BY SameTables DEF vars, Inv, PlanInv, ReportsTrue
<1> QED
  BY <1>1, <1>2 DEF Inv

\* Every reachable state of any number of concurrent deployments and probes
\* satisfies the invariant.
THEOREM MigrationsInvariant == Spec => []Inv
<1>1. Inv /\ [Next]_vars => Inv'
  <2> SUFFICES ASSUME Inv, [Next]_vars PROVE Inv'
    OBVIOUS
  <2>1. ASSUME NEW r \in Runners, Start(r) \/ Lock(r) \/ Crash(r)
        PROVE  Inv'
    BY <2>1, StartInv, LockStepInv, CrashInv
  <2>2. ASSUME NEW r \in Runners, Proceed(r)
        PROVE  Inv'
    BY <2>2, EnsureHistoryInv, ReadBeforeInv, ApplyOneInv, AppliedInv, ReadAfterInv,
       UnlockInv DEF Proceed
  <2>3. ASSUME NEW q \in Probes, CheckHistory(q) \/ ReadHistory(q)
        PROVE  Inv'
    BY <2>3, CheckHistoryInv, ReadHistoryInv
  <2>4. CASE UNCHANGED vars
    BY <2>4, StutterInv
  <2> QED
    BY <2>1, <2>2, <2>3, <2>4 DEF Next
<1> QED
  BY <1>1, InitInv, PTL DEF Spec

\* Lock, tables, runs and probes keep their types.
THEOREM MigrationsTypeCorrect == Spec => []TypeOK
BY MigrationsInvariant, PTL DEF Inv

\* The history always is the list of what took effect, each once and in order.
THEOREM HistoryNeverDiverges == Spec => []HistoryIsSchema
BY MigrationsInvariant, PTL DEF Inv

\* The schema always is an initial part of one release.
THEOREM ReleasesNeverMix == Spec => []OneLineage
BY MigrationsInvariant, PTL DEF Inv

\* Readiness and success are only reported for an installed release.
THEOREM ReadinessTrue == Spec => []ReportsTrue
BY MigrationsInvariant, PTL DEF Inv
=============================================================================
