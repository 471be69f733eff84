---------------------------- MODULE CommandRouter ----------------------------
(***************************************************************************)
(* ConversationCommandService.handle: what a chat message makes the        *)
(* assistant do.  Slash commands are matched first, a text without a slash *)
(* is put to the LLM, and what the LLM does not settle is matched with a   *)
(* list of phrases.  The text is abstracted to what the matching looks at; *)
(* what the reminder workflow makes of a text is in ReminderWorkflow.      *)
(*                                                                         *)
(* Until it is answered, a message touches nothing but its own, so one is  *)
(* followed at a time.  A decision is not over when the router has read    *)
(* the approval: the store reads, checks and updates it in transactions of *)
(* their own, and the requests of other messages run in between.           *)
(***************************************************************************)
EXTENDS Naturals, Sequences, FiniteSets

CONSTANTS
  Messages,      \* chat messages, each with its own source event
  Confidences    \* the LLM's confidence, in percent

ConfidenceAssumption == Confidences \subseteq Nat

Threshold == 65

VARIABLES
  inbox,         \* messages still to come
  msg,           \* the message in hand
  text,          \* its text, as far as the router looks at it
  pc,
  llm,           \* what the LLM answered, if it was asked
  result,        \* kind of the CommandResult
  approvals,     \* the status of the approval each message has led to
  deciding,      \* decisions that the approval store has under way
  handed,        \* the text handed to the reminder workflow for each message
  traces         \* trace events of the message in hand

vars == <<inbox, msg, text, pc, llm, result, approvals, deciding, handed, traces>>

None == "none"

\* Words after a slash.  The last three are not commands: two only begin like
\* one, and one of those has a character no command has.
CommandWords == {"start", "help", "status", "agenda", "pendientes", "aprobar",
                 "cancelar", "recordar"}
Words == CommandWords \cup {"aprobarlo", "cancelar-ya", "otra"}
BeginsWith(w, command) ==
  w \in CASE command = "aprobar" -> {"aprobar", "aprobarlo"}
          [] command = "cancelar" -> {"cancelar", "cancelar-ya"}

\* `rest` is what follows the word: nothing, the id of an approval, or other
\* text; `phrase` says that a free text begins with one of the reminder
\* phrases, or any text mentions a "cita" and "las".
Rests == {None, "words"} \cup Messages
SlashTexts == [slash : {TRUE}, word : Words, bot : BOOLEAN, rest : Rests,
               phrase : BOOLEAN]
FreeTexts == [slash : {FALSE}, word : {None}, bot : {FALSE},
              rest : Rests \ {None}, phrase : BOOLEAN]
Texts == {t \in SlashTexts : t.phrase => t.rest = "words"} \cup FreeTexts

Kinds == {"start", "help", "status", "agenda", "pending_approvals", "approve",
          "cancel", "reminder.create", "unsupported"}

\* What complete() may give: an exception, or an intent that validates; the
\* schema lets the LLM name any kind, and a text or none.
NotAsked == [kind |-> None, confidence |-> 0, text |-> FALSE]
Raises == [kind |-> "raises", confidence |-> 0, text |-> FALSE]
LLMAnswers == {Raises} \cup
  [kind : Kinds, confidence : Confidences, text : BOOLEAN]

Init ==
  /\ inbox = Messages
  /\ msg = None /\ text = None /\ pc = "idle" /\ llm = NotAsked /\ result = None
  /\ approvals = [m \in Messages |-> None]
  /\ deciding = {}
  /\ handed = [m \in Messages |-> None]
  /\ traces = <<>>

----------------------------------------------------------------------------
\* Telegram's normaliser names the command of a typed text; for WhatsApp and
\* for a transcribed voice note there is none.

_parse_command(t, parsed) ==
  IF parsed /\ t.slash /\ t.word # "cancelar-ya" THEN t.word ELSE None

\* The whole text is the slash and the word.
Exactly(t, w) == t.slash /\ t.word = w /\ ~t.bot /\ t.rest = None

Is(w) == text.command = w \/ Exactly(text, w)

\* lowered.startswith("/aprobar"), and likewise for /cancelar.
Begins(w) == text.command = w \/ (text.slash /\ BeginsWith(text.word, w))

_looks_like_reminder(t) ==
  \/ t.phrase
  \/ t.slash /\ t.word = "recordar" /\ ~t.bot /\ t.rest # None

\* The text of the reminder: what follows the slash word, or all of it.
_extract_reminder_text(t) == IF t.slash THEN t.rest ELSE "all"

Receive(m) ==
  /\ pc = "idle"
  /\ m \in inbox
  /\ inbox' = inbox \ {m}
  /\ msg' = m
  /\ \E t \in Texts, parsed \in BOOLEAN :
       text' = [slash |-> t.slash, word |-> t.word, bot |-> t.bot, rest |-> t.rest,
                phrase |-> t.phrase, command |-> _parse_command(t, parsed)]
  /\ pc' = "command"
  /\ llm' = NotAsked
  /\ result' = None
  /\ traces' = <<>>
  /\ UNCHANGED <<approvals, deciding, handed>>

----------------------------------------------------------------------------
\* The commands.

Finish(kind) == pc' = "idle" /\ result' = kind

\* /start, /help, /status, /agenda and /pendientes read and answer.
Queries == {<<"start", "start">>, <<"help", "help">>, <<"status", "status">>,
            <<"agenda", "agenda">>, <<"pendientes", "pending_approvals">>}

Query ==
  /\ pc = "command"
  /\ \E q \in Queries : Is(q[1]) /\ Finish(q[2])
  /\ UNCHANGED <<inbox, msg, text, llm, approvals, deciding, handed, traces>>

IsQuery == \E q \in Queries : Is(q[1])

\* A decision that the message in hand asks for, as the store works on it.
Decision(verdict, stage) ==
  [by |-> msg, rest |-> text.rest, slash |-> text.slash, word |-> text.word,
   llm |-> llm, verdict |-> verdict, at |-> stage]

\* Without an id, with one that is not there, or with one that is no longer
\* pending nothing is written: an approved one is granted again, or cannot be
\* cancelled, and a cancelled one stays so.
Decide(verdict, stage) ==
  IF text.rest \in Messages /\ approvals[text.rest] = "pending"
  THEN deciding' = deciding \cup {Decision(verdict, stage)}
  ELSE UNCHANGED deciding

\* _approve: the store's approve finds the approval pending, and has
\* mark_approved read it again.
Approve ==
  /\ pc = "command" /\ ~IsQuery /\ Begins("aprobar")
  /\ Decide("approved", "mark")
  /\ Finish("approve")
  /\ UNCHANGED <<inbox, msg, text, llm, approvals, handed, traces>>

\* _cancel: the store's cancel finds the approval pending, and updates it.
Cancel ==
  /\ pc = "command" /\ ~IsQuery /\ ~Begins("aprobar") /\ Begins("cancelar")
  /\ Decide("cancelled", "update")
  /\ Finish("cancel")
  /\ UNCHANGED <<inbox, msg, text, llm, approvals, handed, traces>>

\* Fault: mark_approved does not look at the status again.
mark_approved_unread(d) ==
  /\ d.at = "mark"
  /\ deciding' = (deciding \ {d}) \cup {[d EXCEPT !.at = "update"]}
  /\ UNCHANGED <<inbox, msg, text, pc, llm, result, approvals, handed, traces>>

\* One that is no longer pending is returned as it is.
mark_approved(d) ==
  /\ d.at = "mark"
  /\ deciding' = (deciding \ {d}) \cup
                   (IF approvals[d.rest] = "pending" THEN {[d EXCEPT !.at = "update"]}
                    ELSE {})
  /\ UNCHANGED <<inbox, msg, text, pc, llm, result, approvals, handed, traces>>

\* The update has no condition on the status it replaces.
_update_status(d) ==
  /\ d.at = "update"
  /\ approvals' = [approvals EXCEPT ![d.rest] = d.verdict]
  /\ deciding' = deciding \ {d}
  /\ UNCHANGED <<inbox, msg, text, pc, llm, result, handed, traces>>

\* The principal's tier is too low, a transaction fails, the process stops.
DecisionFails(d) ==
  /\ deciding' = deciding \ {d}
  /\ UNCHANGED <<inbox, msg, text, pc, llm, result, approvals, handed, traces>>

NotACommand == ~IsQuery /\ ~Begins("aprobar") /\ ~Begins("cancelar")

\* _create_reminder: an empty text is sent back, any other goes through the
\* workflow, which asks for an approval unless it needs to know more.
_create_reminder(t) ==
  /\ IF t = None THEN UNCHANGED <<approvals, handed>>
     ELSE /\ handed' = [handed EXCEPT ![msg] = t]
          /\ \/ approvals' = [approvals EXCEPT ![msg] = "pending"]
             \/ UNCHANGED approvals
  /\ Finish("reminder.create")

Remind ==
  /\ pc = "command" /\ NotACommand /\ text.command = "recordar"
  /\ _create_reminder(text.rest)
  /\ UNCHANGED <<inbox, msg, text, llm, deciding, traces>>

\* A text without a slash goes to the LLM, if one is configured.
Unmatched ==
  /\ pc = "command" /\ NotACommand /\ text.command # "recordar"
  /\ \/ ~text.slash /\ pc' = "infer"
     \/ pc' = "rules"
  /\ UNCHANGED <<inbox, msg, text, llm, result, approvals, deciding, handed, traces>>

----------------------------------------------------------------------------
\* The LLM.

\* Fault: a doubtful intent is taken when the LLM also names a text.
AcceptedWithText(a) == a.confidence >= Threshold \/ a.text

Accepted(a) == a.confidence >= Threshold

\* _infer_intent: whatever goes wrong is traced and counts as no intent.
Infer ==
  /\ pc = "infer"
  /\ \E a \in LLMAnswers :
       /\ llm' = a
       /\ traces' = Append(traces, IF a = Raises THEN "agent.failed" ELSE "llm.called")
       /\ pc' = IF Accepted(a) THEN "intent" ELSE "rules"
  /\ UNCHANGED <<inbox, msg, text, result, approvals, deciding, handed>>

\* The kinds an intent may lead to, besides reminders; all others decline.
InferredQueries == {"help", "status", "agenda", "pending_approvals"}

\* Fault: an intent may also be a decision.
HandleIntentDecides ==
  /\ pc = "intent"
  /\ IF llm.kind = "approve" THEN Decide("approved", "mark") ELSE UNCHANGED deciding
  /\ Finish(IF llm.kind = "approve" THEN "approve" ELSE "unsupported")
  /\ UNCHANGED <<inbox, msg, text, llm, approvals, handed, traces>>

\* _handle_inferred_intent.
HandleIntent ==
  /\ pc = "intent"
  /\ IF llm.kind = "reminder.create" /\ llm.text
     THEN _create_reminder("inferred")
     ELSE /\ Finish(IF llm.kind \in InferredQueries THEN llm.kind ELSE "unsupported")
          /\ UNCHANGED <<approvals, handed>>
  /\ UNCHANGED <<inbox, msg, text, llm, deciding, traces>>

----------------------------------------------------------------------------
\* The phrases.

Rules ==
  /\ pc = "rules"
  /\ IF _looks_like_reminder(text)
     THEN _create_reminder(_extract_reminder_text(text))
     ELSE Finish("unsupported") /\ UNCHANGED <<approvals, handed>>
  /\ UNCHANGED <<inbox, msg, text, llm, deciding, traces>>

\* Writing a trace, the stores or the workflow may raise: the request fails.
Raise ==
  /\ pc # "idle"
  /\ pc' = "idle" /\ result' = "raised"
  /\ UNCHANGED <<inbox, msg, text, llm, approvals, deciding, handed, traces>>

Next ==
  \/ \E m \in Messages : Receive(m)
  \/ Query \/ Approve \/ Cancel \/ Remind \/ Unmatched
  \/ Infer \/ HandleIntent \/ Rules \/ Raise
  \/ \E d \in deciding : mark_approved(d) \/ _update_status(d) \/ DecisionFails(d)

Spec == Init /\ [][Next]_vars

----------------------------------------------------------------------------
\* Properties.

\* The router's state has the values the code gives it.
TypeOK ==
  /\ inbox \subseteq Messages
  /\ msg \in Messages \cup {None}
  /\ pc \in {"idle", "command", "infer", "intent", "rules"}
  /\ llm \in LLMAnswers \cup {NotAsked}
  /\ result \in Kinds \cup {None, "raised"}
  /\ approvals \in [Messages -> {None, "pending", "approved", "cancelled"}]
  /\ deciding \subseteq
       [by : Messages, rest : Messages, slash : BOOLEAN, word : Words \cup {None},
        llm : LLMAnswers \cup {NotAsked}, verdict : {"approved", "cancelled"},
        at : {"mark", "update"}]
  /\ handed \in [Messages -> {None, "all", "inferred"} \cup Rests]
  /\ Len(traces) <= 1

\* "Calendar writes still require `/aprobar <id>`": an approval that is there
\* changes only to what was asked for by a message that begins with a slash,
\* names the decision and names the approval.  Neither free text nor the LLM,
\* whatever it answers, approves or cancels.
DecidedByCommand ==
  \A m \in Messages : (approvals[m] # None /\ approvals'[m] # approvals[m])
    => \E d \in deciding \ deciding' :
         /\ d.slash /\ d.rest = m /\ d.llm = NotAsked
         /\ BeginsWith(d.word, IF approvals'[m] = "approved" THEN "aprobar" ELSE "cancelar")

\* Requests that have found the approval of m pending and are about to update it.
Updating(m) == {d \in deciding : d.rest = m /\ d.at = "update"}

\* A decided approval is overturned, if at all, by a request that had found it
\* pending before it was decided: with none of those under way it stays, and
\* none is added.  An approval exists only for a message whose text went to
\* the reminder workflow.
DecisionsKept ==
  \A m \in Messages :
    /\ approvals[m] \in {"approved", "cancelled"} =>
         /\ approvals'[m] = approvals[m] \/ Updating(m) # {}
         /\ Updating(m)' \subseteq Updating(m)
    /\ approvals'[m] # None => handed'[m] # None

\* No step of the router or of the approval store decides in any other way.
OnlyCommandsDecide == [][DecidedByCommand /\ DecisionsKept]_vars

\* A doubtful or failing LLM changes nothing: unless an intent was accepted,
\* the result is the one the phrases alone give.
DoubtChangesNothing ==
  (pc = "idle" /\ result \in Kinds /\ llm # NotAsked /\ llm.confidence < Threshold)
    => result = IF text.phrase THEN "reminder.create" ELSE "unsupported"

\* A message answered as a reminder has a text in the workflow, unless the
\* user wrote nothing after the slash word and is asked for it.
RemindersHaveText ==
  (pc = "idle" /\ result = "reminder.create" /\ handed[msg] = None)
    => /\ text.slash /\ text.rest = None
       /\ approvals[msg] = None

\* The model moves a message only where its answer is sure, and never loses a text.
RoutingCautious ==
  /\ TypeOK
  /\ DoubtChangesNothing
  /\ RemindersHaveText
=============================================================================
