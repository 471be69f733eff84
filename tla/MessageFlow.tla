------------------------------ MODULE MessageFlow ------------------------------
(***************************************************************************)
(* What becomes of a chat message, side by side: which command it is       *)
(* (CommandRouter), when the reminder it asks for is due (ReminderParser), *)
(* and the scans its answer goes through (GuardedReplies).  The parts      *)
(* share no state, so a behaviour follows one of them and the variables of *)
(* the others are Off.                                                     *)
(***************************************************************************)
CONSTANTS
  Messages, Confidences,                                                 \* CommandRouter
  LastInstant, Received, DefaultNotice, ModelAnswers, Zones, UserTexts   \* ReminderParser

VARIABLES part,
  inbox, msg, text, pc, llm, result, approvals, deciding, handed, traces,
  now, zone, written, extracted, asked, scheduled,
  shown, guarded, wf, approval, reminder, scanned, events, reply

routerVars == <<inbox, msg, text, pc, llm, result, approvals, deciding, handed, traces>>
parserVars == <<now, zone, written, extracted, asked, scheduled>>
guardVars == <<shown, guarded, wf, approval, reminder, scanned, events, reply>>
vars == <<part, routerVars, parserVars, guardVars>>

R == INSTANCE CommandRouter
Parser == INSTANCE ReminderParser
            WITH Texts <- UserTexts, text <- written, result <- extracted
G == INSTANCE GuardedReplies WITH text <- shown, req <- guarded

Off == "off"

RouterOff ==
  /\ inbox = Off /\ msg = Off /\ text = Off /\ pc = Off /\ llm = Off
  /\ result = Off /\ approvals = Off /\ deciding = Off /\ handed = Off /\ traces = Off
ParserOff ==
  /\ now = Off /\ zone = Off /\ written = Off
  /\ extracted = Off /\ asked = Off /\ scheduled = Off
GuardOff ==
  /\ shown = Off /\ guarded = Off /\ wf = Off /\ approval = Off
  /\ reminder = Off /\ scanned = Off /\ events = Off /\ reply = Off

Init ==
  \/ part = "router" /\ R!Init /\ ParserOff /\ GuardOff
  \/ part = "parser" /\ Parser!Init /\ RouterOff /\ GuardOff
  \/ part = "guardrails" /\ G!Init /\ RouterOff /\ ParserOff

Next ==
  \/ part = "router" /\ R!Next /\ UNCHANGED <<part, parserVars, guardVars>>
  \/ part = "parser" /\ Parser!Next /\ UNCHANGED <<part, routerVars, guardVars>>
  \/ part = "guardrails" /\ G!Next /\ UNCHANGED <<part, routerVars, parserVars>>

Spec == Init /\ [][Next]_vars

\* A language model's answer moves a message only where it is sure, and a
\* reminder command never loses its text (CommandRouter.handle).
RoutingCautious == part = "router" => R!RoutingCautious

\* Only /aprobar and /cancelar decide an approval, an inferred intent never does;
\* a decision is overturned only by a request that had found the approval pending.
OnlyCommandsDecide == [][part = "router" => R!DecidedByCommand /\ R!DecisionsKept]_vars

\* The parser reads a text as the calendar and the words mean it, asks what they
\* leave open, and the notice follows from what was read.
ReadsAsMeant == part = "parser" => Parser!ReadsAsMeant

\* The trace tells which scans a request went through and which one blocked it.
ScansAccounted == part = "guardrails" => G!ScansAccounted

\* What a scan blocks is never created, nor its approval asked for, and what was
\* created is not answered with a block.
BlockedLeavesNothing == part = "guardrails" => G!BlockedLeavesNothing
=============================================================================
