---------------------------- MODULE WorkerHealth ----------------------------
(***************************************************************************)
(* The delivery workers' loops, the one heartbeat row they share, and the  *)
(* readiness probe that reads it, possibly on another machine with another *)
(* clock.  Time is kept as ages, so that it need not be bounded: how long  *)
(* ago the heartbeat was stored, how long a worker has waited or worked.   *)
(***************************************************************************)
EXTENDS Integers, FiniteSetsExt

CONSTANTS
  Processes,    \* processes that run the worker loop
  Skews,        \* how far a process's clock may be ahead or behind
  Interval,     \* reminder_worker_interval_seconds
  Timeout,      \* reminder_worker_heartbeat_timeout_seconds
  TickMax,      \* bound: how long a tick takes, however it ends
  Outages       \* bound: how often the database goes away

\* What _validate_worker_settings demands of an enabled worker.
ASSUME SettingsAssumption == /\ Interval \in Nat \ {0}
                             /\ Timeout \in Nat \ {0}
                             /\ Timeout > Interval
\* The clocks are apart by a bounded amount.
ASSUME ClockAssumption == /\ Skews \subseteq Int
                          /\ \E lo, hi \in Skews : \A s \in Skews : lo <= s /\ s <= hi
                          /\ TickMax \in Nat
                          /\ Outages \in Nat

VARIABLES
  skew,         \* the clock of each worker, and of the probe
  loop,         \* where each loop stands, and for how long
  heartbeat,    \* the stored heartbeat: its age and the clock that stamped it
  since,        \* per worker, time since its last tick that succeeded
  trouble,      \* something went wrong since the heartbeat was stored
  database, migrations, outages

healthVars == <<skew, loop, heartbeat, since, trouble, database, migrations, outages>>

Probe == "probe"
Spread == Max(Skews) - Min(Skews)
\* Ages above this are all alike to the probe.
Old == Timeout + Spread + 1
Older(age) == IF age < Old THEN age + 1 ELSE Old
NoHeartbeat == [age |-> -1, skew |-> 0]

HealthInit ==
  /\ skew \in [Processes \cup {Probe} -> Skews]
  /\ loop = [w \in Processes |-> [pc |-> "wait", time |-> Interval]]
  /\ heartbeat = NoHeartbeat
  /\ since = [w \in Processes |-> Old]
  /\ trouble = FALSE
  /\ database = "up"
  /\ migrations \in {"ok", "pending", "error"}
  /\ outages = 0

----------------------------------------------------------------------------
\* The worker loop.

Due(w) == loop[w].time >= Interval

StartTick(w) ==
  /\ loop[w].pc = "wait"
  /\ Due(w)
  /\ loop' = [loop EXCEPT ![w] = [pc |-> "tick", time |-> 0]]
  /\ UNCHANGED <<skew, heartbeat, since, trouble, database, migrations, outages>>

\* run_once returns; the heartbeat is next.
TickSucceeds(w) ==
  /\ loop[w].pc = "tick"
  /\ database = "up"
  /\ loop' = [loop EXCEPT ![w].pc = "beat"]
  /\ since' = [since EXCEPT ![w] = 0]
  /\ UNCHANGED <<skew, heartbeat, trouble, database, migrations, outages>>

\* Fault: the heartbeat is stored in a finally block.
AfterFailureBeats(w) == [pc |-> "beat", time |-> loop[w].time]

\* Fault: the exception ends the loop.
AfterFailureEnds(w) == [pc |-> "ended", time |-> 0]

\* The exception is caught and, if possible, traced; the loop waits.
AfterFailure(w) == [pc |-> "wait", time |-> 0]

TickFails(w) ==
  /\ loop[w].pc = "tick"
  /\ loop' = [loop EXCEPT ![w] = AfterFailure(w)]
  /\ trouble' = TRUE
  /\ UNCHANGED <<skew, heartbeat, since, database, migrations, outages>>

\* heartbeat_store.record: the row is overwritten, whoever stored it before.
Beat(w) ==
  /\ loop[w].pc = "beat"
  /\ database = "up"
  /\ heartbeat' = [age |-> 0, skew |-> skew[w]]
  /\ loop' = [loop EXCEPT ![w] = [pc |-> "wait", time |-> 0]]
  /\ trouble' = FALSE
  /\ UNCHANGED <<skew, since, database, migrations, outages>>

BeatFails(w) ==
  /\ loop[w].pc = "beat"
  /\ database = "down"
  /\ loop' = [loop EXCEPT ![w] = [pc |-> "wait", time |-> 0]]
  /\ trouble' = TRUE
  /\ UNCHANGED <<skew, heartbeat, since, database, migrations, outages>>

\* The stop event ends a loop between two ticks; a crash ends it anywhere.
Stop(w) ==
  /\ loop[w].pc # "stopped"
  /\ loop' = [loop EXCEPT ![w] = [pc |-> "stopped", time |-> 0]]
  /\ trouble' = TRUE
  /\ UNCHANGED <<skew, heartbeat, since, database, migrations, outages>>

\* A new process starts with a tick.
Start(w) ==
  /\ loop[w].pc = "stopped"
  /\ loop' = [loop EXCEPT ![w] = [pc |-> "wait", time |-> Interval]]
  /\ UNCHANGED <<skew, heartbeat, since, trouble, database, migrations, outages>>

----------------------------------------------------------------------------
\* Surroundings.

DatabaseDown ==
  /\ database = "up"
  /\ outages < Outages
  /\ outages' = outages + 1
  /\ database' = "down"
  /\ trouble' = TRUE
  /\ UNCHANGED <<skew, loop, heartbeat, since, migrations>>

DatabaseUp ==
  /\ database = "down"
  /\ database' = "up"
  /\ UNCHANGED <<skew, loop, heartbeat, since, trouble, migrations, outages>>

Migrate ==
  /\ migrations = "pending"
  /\ database = "up"
  /\ migrations' = "ok"
  /\ UNCHANGED <<skew, loop, heartbeat, since, trouble, database, outages>>

\* A waiting loop goes on when its time is up and a tick ends in time; the
\* heartbeat follows its tick at once.
Urgent(w) == \/ loop[w].pc = "wait" /\ Due(w)
             \/ loop[w].pc = "tick" /\ loop[w].time >= TickMax
             \/ loop[w].pc = "beat"

Passes ==
  /\ \A w \in Processes : ~Urgent(w)
  /\ loop' = [w \in Processes |->
       IF loop[w].pc \in {"wait", "tick"}
       THEN [loop[w] EXCEPT !.time = @ + 1] ELSE loop[w]]
  /\ heartbeat' = IF heartbeat = NoHeartbeat THEN heartbeat
                  ELSE [heartbeat EXCEPT !.age = Older(@)]
  /\ since' = [w \in Processes |-> Older(since[w])]
  /\ UNCHANGED <<skew, trouble, database, migrations, outages>>

----------------------------------------------------------------------------
\* The probe.

\* The age the probe computes, from its own clock and the stamp.
AgeSeen == heartbeat.age + skew[Probe] - heartbeat.skew

\* Fault: the age is compared with the interval.
assess_heartbeat_interval(seen) == seen >= 0 /\ seen <= Interval

\* assess_heartbeat: a stamp of the future is as stale as one too old.
assess_heartbeat(seen) == seen >= 0 /\ seen <= Timeout

Checks ==
  [database |-> IF database = "up" THEN "ok" ELSE "error",
   migrations |-> IF database = "up" THEN migrations ELSE "error",
   worker_heartbeat |->
     IF database = "down" \/ migrations # "ok" THEN "pending"
     ELSE IF heartbeat # NoHeartbeat /\ assess_heartbeat(AgeSeen) THEN "ok"
     ELSE "error"]

Ready == \A check \in DOMAIN Checks : Checks[check] = "ok"

HealthNext ==
  \/ \E w \in Processes : \/ StartTick(w) \/ TickSucceeds(w) \/ TickFails(w)
                          \/ Beat(w) \/ BeatFails(w) \/ Stop(w) \/ Start(w)
  \/ DatabaseDown \/ DatabaseUp \/ Migrate \/ Passes

HealthSpec == HealthInit /\ [][HealthNext]_healthVars

\* Time goes on however often processes are restarted, a loop that can go on does,
\* and a tick that can end well again and again does; nothing is assumed of the
\* database, or of restarts.
HealthFairness ==
  /\ SF_healthVars(Passes)
  /\ \A w \in Processes : /\ WF_healthVars(StartTick(w) \/ Beat(w) \/ BeatFails(w)
                                       \/ TickFails(w) \/ TickSucceeds(w))
                          /\ SF_healthVars(TickSucceeds(w))

FairHealthSpec == HealthSpec /\ HealthFairness

----------------------------------------------------------------------------
\* Properties.

\* The probe reports ready only if a worker finished a tick, without an
\* exception, not longer ago than the timeout and the clocks' spread: a loop
\* that fails again and again, hangs or has died is noticed.
ReadyMeansWorking ==
  Ready => \E w \in Processes : since[w] <= Timeout + Spread

\* With one clock, and ticks no longer than the timeout leaves beside the
\* interval, a service whose loops have had no trouble since the last
\* heartbeat is ready: the probe does not flap.
SteadyIsReady ==
  (/\ heartbeat # NoHeartbeat
   /\ ~trouble
   /\ migrations = "ok"
   /\ database = "up"
   /\ heartbeat.skew = skew[Probe]
   /\ TickMax <= Timeout - Interval) => Ready

\* Ready says neither more nor less than the loops have earned.
ProbeIsHonest == ReadyMeansWorking /\ SteadyIsReady

\* "A shared persistence outage must not terminate the worker loop": once the
\* database stays up, a loop nobody stops finishes ticks again and again.
LoopSurvivesOutage ==
  \A w \in Processes : <>[](database = "up" /\ loop[w].pc # "stopped")
                         => []<>(since[w] = 0)
=============================================================================
