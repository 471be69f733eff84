------------------------------- MODULE Channels -------------------------------
(***************************************************************************)
(* The chat channels, side by side: every answer of a provider as both     *)
(* clients classify it (AnswerClassification), and the webhooks of both    *)
(* channels (ChatWebhook).  The two share no state, so a behaviour follows *)
(* one side and the variables of the other are Unused.                     *)
(***************************************************************************)
CONSTANTS
  Statuses, ErrorCodes, Waits,                                    \* both
  Events, Workers, EventLoop, EventKinds, Readings, Answers,      \* ChatWebhook
  AudioReplies, MaxDeliveries, MaxRestarts

VARIABLES side,
  answer, telegram, whatsapp,
  channel, kind, acked, tries, req, registered, phase, approvalRow, world,
  fingerprints, terminal, calls, restarts

classifyVars == <<answer, telegram, whatsapp>>
webhookVars == <<channel, kind, acked, tries, req, registered, phase, approvalRow, world,
                 fingerprints, terminal, calls, restarts>>
channelVars == <<side, classifyVars, webhookVars>>

C == INSTANCE AnswerClassification
W == INSTANCE ChatWebhook

Unused == "unused"

ClientUnused == answer = Unused /\ telegram = Unused /\ whatsapp = Unused
WebhookUnused ==
  /\ channel = Unused /\ kind = Unused /\ acked = Unused /\ tries = Unused /\ req = Unused
  /\ registered = Unused /\ phase = Unused /\ approvalRow = Unused /\ world = Unused
  /\ fingerprints = Unused /\ terminal = Unused
  /\ calls = Unused /\ restarts = Unused

ChannelInit ==
  \/ side = "client" /\ C!Init /\ WebhookUnused
  \/ side = "webhook" /\ W!Init /\ ClientUnused

ChannelNext ==
  \/ side = "client" /\ C!Next /\ UNCHANGED <<side, webhookVars>>
  \/ side = "webhook" /\ W!Next /\ UNCHANGED <<side, classifyVars>>

ChannelSpec == ChannelInit /\ [][ChannelNext]_channelVars

\* Every answer of a provider has one sound reading by _classify_failure and
\* _classify_response, whichever client reads it.
ClassificationSound == side = "client" => C!ClassificationSound

\* What a webhook's handler says in the chat, and WhatsApp's answers about it, is
\* true.  Of overlapping requests on Telegram only the readings and questions are
\* promised: their texts may differ.
RepliesAreTrue == side = "webhook" => W!RepliesAreTrue

\* A reply is given to the provider once, as far as the tool's dictionaries can
\* know: more copies need overlapping requests or an answer that asks for them.
CopiesBounded == side = "webhook" => W!CopiesBounded

\* An event that is acknowledged has been answered, a question that was asked can
\* be answered, and what the route turns away has left nothing.
EventsAreSettled == side = "webhook" => W!EventsAreSettled
=============================================================================
