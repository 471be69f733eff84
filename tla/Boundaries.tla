------------------------------- MODULE Boundaries -------------------------------
(***************************************************************************)
(* The service's boundaries side by side: who gets in (LocalAuth), what    *)
(* they may do (Authorization), where the service itself may connect to    *)
(* (RuntimeEgress), the commands that prune and sanitize the traces it     *)
(* keeps (TraceStore), and what is kept of an event's metadata             *)
(* (TracePrivacy).  The parts share no state, so a behaviour follows one   *)
(* of them and the variables of the others are Off.                        *)
(***************************************************************************)
CONSTANTS
  Tokens, Strong, Browsers, MaxAge, MaxRestarts,                  \* LocalAuth
  Tenants, Ids, CalendarKeys, Attempts, ReplyKeys, Resolutions,   \* Authorization
  PrincipalTiers, TTL, MaxGrants, MaxTime,
  Settings, MediaTargets, MaxFollowed,                            \* RuntimeEgress
  TraceIds, Pruners, Sanitizers, DaysGiven, MaxDays, LastDay,     \* TraceStore
  MaxWrites, MaxCommands,
  MaxItems, MaxDepth, TooLong, RawMappings, RawEntries            \* TracePrivacy

VARIABLES part,
  server, peer, knows, jar, session, last, restarts,
  tierOf, policy, clock, requests, reads, issued, done,
  settings, stage, cause, allowlist, note, opened,
  rows, locks, cmd, now, writer, writes, sanitized,
  raw, life, field, stored, changed, work, passes

sessionVars == <<server, peer, knows, jar, session, last, restarts>>
grantVars == <<tierOf, policy, clock, requests, reads, issued, done>>
egressVars == <<settings, stage, cause, allowlist, note, opened>>
traceVars == <<rows, locks, cmd, now, writer, writes, sanitized>>
eventVars == <<raw, life, field, stored, changed, work, passes>>
vars == <<part, sessionVars, grantVars, egressVars, traceVars, eventVars>>

L == INSTANCE LocalAuth
A == INSTANCE Authorization WITH now <- clock
E == INSTANCE RuntimeEgress
T == INSTANCE TraceStore WITH Ids <- TraceIds, MaxTime <- LastDay
P == INSTANCE TracePrivacy WITH stage <- life

Off == "off"

SessionsOff ==
  /\ server = Off /\ peer = Off /\ knows = Off /\ jar = Off /\ session = Off
  /\ last = Off /\ restarts = Off
GrantsOff ==
  /\ tierOf = Off /\ policy = Off /\ clock = Off /\ requests = Off /\ reads = Off
  /\ issued = Off /\ done = Off
EgressOff ==
  /\ settings = Off /\ stage = Off /\ cause = Off /\ allowlist = Off
  /\ note = Off /\ opened = Off
TracesOff ==
  /\ rows = Off /\ locks = Off /\ cmd = Off /\ now = Off
  /\ writer = Off /\ writes = Off /\ sanitized = Off
EventOff ==
  /\ raw = Off /\ life = Off /\ field = Off /\ stored = Off /\ changed = Off
  /\ work = Off /\ passes = Off

Init ==
  \/ part = "sessions" /\ L!Init /\ GrantsOff /\ EgressOff /\ TracesOff /\ EventOff
  \/ part = "grants" /\ A!Init /\ SessionsOff /\ EgressOff /\ TracesOff /\ EventOff
  \/ part = "egress" /\ E!Init /\ SessionsOff /\ GrantsOff /\ TracesOff /\ EventOff
  \/ part = "traces" /\ T!Init /\ SessionsOff /\ GrantsOff /\ EgressOff /\ EventOff
  \/ part = "privacy" /\ P!Init /\ SessionsOff /\ GrantsOff /\ EgressOff /\ TracesOff

Next ==
  \/ /\ part = "sessions" /\ L!Next
     /\ UNCHANGED <<part, grantVars, egressVars, traceVars, eventVars>>
  \/ /\ part = "grants" /\ A!Next
     /\ UNCHANGED <<part, sessionVars, egressVars, traceVars, eventVars>>
  \/ /\ part = "egress" /\ E!Next
     /\ UNCHANGED <<part, sessionVars, grantVars, traceVars, eventVars>>
  \/ /\ part = "traces" /\ T!Next
     /\ UNCHANGED <<part, sessionVars, grantVars, egressVars, eventVars>>
  \/ /\ part = "privacy" /\ P!Next
     /\ UNCHANGED <<part, sessionVars, grantVars, egressVars, traceVars>>

Spec == Init /\ [][Next]_vars

\* Nobody is let in by LocalPrincipalProvider.authenticate or the admin cookie on
\* the strength of an earlier configuration or session.
SessionsHonoured == part = "sessions" => L!SessionsHonoured

\* What evaluate_permission and require_approval let through was covered then.
ApprovalsHonoured == part = "grants" => A!ApprovalsHonoured

\* The egress list that start-up accepts is enough for what is built, and the code
\* asks for nothing off the list, up to the last redirect of a media download; only
\* a redirect that urllib follows leads elsewhere.
EgressHeld == part = "egress" => E!EgressHeld

\* Once the sanitizer has been applied nothing it saw is raw again, its updates
\* find their rows, and list_for_run still finds them.
SanitizerSound == part = "traces" => T!SanitizerSound

\* No step of a pruning or sanitizing command removes a young row or misreports
\* what it did.
CommandsHonest ==
  [][part = "traces" => T!YoungRowsStay /\ T!ReportsMatchEffects]_vars

\* What is stored of an event's metadata is safe, keeps its keys when it is read,
\* and is not emptied (redact_trace_mapping, TraceEvent.for_persistence).
StoredAsPromised == part = "privacy" => P!StoredAsPromised
=============================================================================
