----------------------------- MODULE ChatWebhook -----------------------------
(***************************************************************************)
(* The chat webhooks and the replies they send: a provider delivers an     *)
(* event to a request thread, the route checks it, transcribes a voice     *)
(* note, hands the text to the command router, and sends the reply through *)
(* the channel's notification tool.  The provider delivers an event again  *)
(* until it has seen a 2xx answer; the process may restart at any point    *)
(* and forgets what the tool remembers.                                    *)
(*                                                                         *)
(* The router's work on a reminder is several commits, and a request may   *)
(* stop or be overtaken between any two of them: the workflow is           *)
(* registered as running, what was extracted is saved with the question to *)
(* ask, and the approval that answers the question is stored.              *)
(*                                                                         *)
(* The Telegram route is a plain `def`, so its requests run in a pool of   *)
(* workers; the WhatsApp route is an `async def` that never gives up the   *)
(* event loop, so its requests run on that one thread.  The bot token is   *)
(* set and the channels enabled (without them nothing is sent).            *)
(***************************************************************************)
EXTENDS ProviderAnswers, FiniteSets, Sequences, SequencesExt

CONSTANTS
  Events,         \* provider events
  Workers,        \* the threads of the pool
  EventLoop,      \* the thread of the event loop
  EventKinds,     \* the kinds of event a run looks at, by channel
  Readings,       \* what may be read in a reminder's text
  Answers,        \* by channel, [taken, answer]: whether a message reached the
                  \* chat, and what the provider answered
  AudioReplies,   \* telegram_audio_reply_mode is "voice_only"
  MaxDeliveries,  \* bound: how often the provider delivers an event, by its kind
  MaxRestarts     \* bound: restarts of the process

VARIABLES
  channel,        \* the channel each event comes from; never changes
  kind,           \* what each event carries; never changes
  acked,          \* the provider has seen a 2xx answer for the event
  tries,          \* deliveries of the event so far
  req,            \* the request each thread is serving
  registered,     \* durable: the reading under the event's reminder key
  phase,          \* durable: the workflow's phase, as a replay is answered
  approvalRow,    \* durable: the reading that the stored approval is for
  world,          \* what a query (/agenda, /status, /pendientes) shows
  fingerprints,   \* _fingerprints of the tool
  terminal,       \* _terminal_by_key of the tool
  calls,          \* the messages given to the provider under each key, in
                  \* order, with what became of them
  restarts

vars == <<channel, kind, acked, tries, req, registered, phase, approvalRow, world,
          fingerprints, terminal, calls, restarts>>

toolVars == <<fingerprints, terminal>>
providerVars == <<channel, kind, acked, tries>>
storeVars == <<registered, phase, approvalRow, world>>

Platforms == {"telegram", "whatsapp"}
Threads == Workers \cup {EventLoop}

\* A command is "/recordar" and a text; a text is one that the model reads.
Kinds == {"command", "text", "voice", "query", "image", "sticker", "stranger",
          "unsigned", "status"}
Slots == {"reply", "reply-audio"}
Keys == Events \X Slots
Nothing == ""
NoBody == <<"none", Nothing>>
Questions == {"ask", "clarify"} \X Readings
Fixed == {"duplicate", "error", "unsupported"} \X {Nothing}
Views == {"view"} \X {"before", "after"}
Bodies == Questions \cup Fixed \cup Views
Takes == {"1", "2"}      \* a synthesised reply need not be the same bytes twice
Prints == (Bodies \X (Takes \cup {Nothing})) \cup {<<NoBody, Nothing>>}
NoPrint == <<NoBody, Nothing>>

KindAssumption == \A c \in Platforms : EventKinds[c] \subseteq Kinds
\* A text that is read is not empty; the event loop is no thread of the pool.
WebhookAssumption ==
  /\ Events # {} /\ Readings # {} /\ Nothing \notin Readings
  /\ IsFiniteSet(Workers) /\ EventLoop \notin Workers
  /\ MaxDeliveries \in [Kinds -> Nat] /\ MaxRestarts \in Nat
  /\ \A c \in Platforms : Answers[c] \subseteq [taken : BOOLEAN, answer : Answer]

Idle == [pc |-> "idle", ev |-> CHOOSE e \in Events : TRUE, reading |-> Nothing,
         body |-> NoBody, take |-> Nothing, slot |-> "reply", res |-> "none",
         sent |-> FALSE, code |-> 0]

KeyOf(r) == <<r.ev, r.slot>>
PrintOf(r) == <<r.body, r.take>>

Init == /\ channel \in [Events -> Platforms]
        /\ kind \in {f \in [Events -> Kinds] :
                       \A e \in Events : f[e] \in EventKinds[channel[e]]}
        /\ acked = [e \in Events |-> FALSE]
        /\ tries = [e \in Events |-> 0]
        /\ req = [t \in Threads |-> Idle]
        /\ registered = [e \in Events |-> Nothing]
        /\ phase = [e \in Events |-> "none"]
        /\ approvalRow = [e \in Events |-> Nothing]
        /\ world = "before"
        /\ fingerprints = [k \in Keys |-> NoPrint]
        /\ terminal = [k \in Keys |-> "none"]
        /\ calls = [k \in Keys |-> <<>>]
        /\ restarts = 0

----------------------------------------------------------------------------
\* The route.

Pool(c) == IF c = "whatsapp" THEN {EventLoop} ELSE Workers

\* The provider posts an event it has seen no 2xx answer for; an earlier
\* delivery may still be running, as after a timeout on the provider's side.
Deliver(t, e) ==
  /\ t \in Pool(channel[e])
  /\ req[t].pc = "idle"
  /\ ~acked[e]
  /\ tries[e] < MaxDeliveries[kind[e]]
  /\ tries' = [tries EXCEPT ![e] = @ + 1]
  /\ req' = [req EXCEPT ![t] = [Idle EXCEPT !.pc = "admit", !.ev = e]]
  /\ UNCHANGED <<channel, kind, acked, storeVars, toolVars, calls, restarts>>

\* Where the checks before the router send an event of each kind: the secret
\* or signature, callbacks without a message, the normaliser, the sender's
\* allow list, and media.  A message the normaliser finds no text in, and no
\* media it names, does not validate: on Telegram a picture without caption,
\* on either channel a sticker.  A Telegram update without sender is refused.
Disposition(c, k) ==
  CASE k \in {"unsigned", "stranger"} -> "refuse"
    [] k = "status" -> IF c = "whatsapp" THEN "ignore" ELSE "refuse"
    [] k = "sticker" -> "invalid"
    [] k = "image" -> IF c = "whatsapp" THEN "unsupported" ELSE "invalid"
    [] k = "voice" -> "transcribe"
    [] k \in {"command", "text", "query"} -> "handle"

Admit(t) ==
  LET r == req[t]
      d == Disposition(channel[r.ev], kind[r.ev])
  IN  /\ r.pc = "admit"
      /\ req' = [req EXCEPT ![t] =
           CASE d = "refuse" -> [r EXCEPT !.pc = "answer", !.code = 403]
             [] d = "invalid" -> [r EXCEPT !.pc = "answer", !.code = 422]
             [] d = "ignore" -> [r EXCEPT !.pc = "answer", !.code = 200]
             [] d = "unsupported" ->
                  [r EXCEPT !.pc = "check", !.body = <<"unsupported", Nothing>>]
             [] d \in {"transcribe", "handle"} -> [r EXCEPT !.pc = d]]
      /\ UNCHANGED <<providerVars, storeVars, toolVars, calls, restarts>>

\* No file, no transcriber, a file too large before or after the download,
\* or any exception on the way: the user is told, under the event's key.
TranscriptionFails(t) ==
  /\ req[t].pc = "transcribe"
  /\ req' = [req EXCEPT ![t].pc = "check", ![t].body = <<"error", Nothing>>]
  /\ UNCHANGED <<providerVars, storeVars, toolVars, calls, restarts>>

Transcribe(t) ==
  /\ req[t].pc = "transcribe"
  /\ req' = [req EXCEPT ![t].pc = "handle"]
  /\ UNCHANGED <<providerVars, storeVars, toolVars, calls, restarts>>

----------------------------------------------------------------------------
\* The router.

\* What a delivery's text may be read as: a command is parsed, anything else is
\* inferred by a model, and a voice note transcribed, afresh at every delivery.
ReadAs(k) ==
  CASE k = "command" -> {CHOOSE r \in Readings : TRUE}
    [] k \in {"text", "voice"} -> Readings
    [] OTHER -> {}

Understand(t) ==
  /\ req[t].pc = "handle"
  /\ \E reading \in ReadAs(kind[req[t].ev]) :
       req' = [req EXCEPT ![t].pc = "register", ![t].reading = reading]
  /\ UNCHANGED <<providerVars, storeVars, toolVars, calls, restarts>>

\* A query, or a text that the model takes for one.
HandleQuery(t) ==
  /\ req[t].pc = "handle"
  /\ kind[req[t].ev] # "command"
  /\ req' = [req EXCEPT ![t].pc = "check", ![t].body = <<"view", world>>]
  /\ UNCHANGED <<providerVars, storeVars, toolVars, calls, restarts>>

\* Fault: a redelivery that reads differently is taken for the same request.
ConflictNever(e, reading) == FALSE

\* Fault: every replay is taken for a conflict.
ConflictOnReplay(e, reading) == registered[e] # Nothing

Conflict(e, reading) == registered[e] \notin {Nothing, reading}

\* ReminderIdempotencyConflict: answered with 200 and no reply to the chat.
RegisterConflicts(t) ==
  LET r == req[t]
  IN  /\ r.pc = "register"
      /\ Conflict(r.ev, r.reading)
      /\ req' = [req EXCEPT ![t].pc = "answer", ![t].code = 200]
      /\ UNCHANGED <<providerVars, storeVars, toolVars, calls, restarts>>

\* register_or_replay commits the workflow as running before anything is
\* extracted from the text.
RegisterFirst(t) ==
  LET r == req[t]
  IN  /\ r.pc = "register"
      /\ registered[r.ev] = Nothing
      /\ registered' = [registered EXCEPT ![r.ev] = r.reading]
      /\ phase' = [phase EXCEPT ![r.ev] = "running"]
      /\ req' = [req EXCEPT ![t].pc = "extract"]
      /\ UNCHANGED <<providerVars, approvalRow, world, toolVars, calls, restarts>>

\* A replay is answered by how far the workflow has come.  One that is running,
\* completed or failed gets the same words, whoever left it there.
RegisterReplays(t) ==
  LET r == req[t]
      p == phase[r.ev]
  IN  /\ r.pc = "register"
      /\ registered[r.ev] # Nothing
      /\ ~Conflict(r.ev, r.reading)
      /\ req' = [req EXCEPT
           ![t].pc = IF p = "ask" THEN "approval" ELSE "check",
           ![t].body = IF p \in {"ask", "clarify"} THEN <<p, registered[r.ev]>>
                       ELSE <<"duplicate", Nothing>>]
      /\ UNCHANGED <<providerVars, storeVars, toolVars, calls, restarts>>

\* What is extracted is saved with the question it leads to: may the reminder
\* be created, or when is it meant.
Extract(t) ==
  LET r == req[t]
  IN  /\ r.pc = "extract"
      /\ \E p \in {"ask", "clarify"} :
           /\ phase' = [phase EXCEPT ![r.ev] = p]
           /\ req' = [req EXCEPT ![t].pc = IF p = "ask" THEN "approval" ELSE "check",
                                 ![t].body = <<p, r.reading>>]
      /\ UNCHANGED <<providerVars, registered, approvalRow, world, toolVars, calls,
                     restarts>>

\* The approval that /aprobar names is stored, once, after the question was
\* saved; one that is there for another request is a conflict, and raises.
CreateApproval(t) ==
  LET r == req[t]
  IN  /\ r.pc = "approval"
      /\ approvalRow[r.ev] \in {Nothing, r.reading}
      /\ approvalRow' = [approvalRow EXCEPT ![r.ev] = r.reading]
      /\ req' = [req EXCEPT ![t].pc = "check"]
      /\ UNCHANGED <<providerVars, registered, phase, world, toolVars, calls, restarts>>

\* Any other exception, wherever the router is: a database that is down, a
\* guardrail that blocks.
HandleRaises(t) ==
  /\ req[t].pc \in {"handle", "register", "extract", "approval"}
  /\ req' = [req EXCEPT ![t].pc = "answer", ![t].code = 500]
  /\ UNCHANGED <<providerVars, storeVars, toolVars, calls, restarts>>

----------------------------------------------------------------------------
\* The notification tool's send, called by the route.

Send(c, a) == IF c = "telegram" THEN TelegramSend(a) ELSE WhatsAppSend(a)

\* A provider that names the message it took has taken it.
ProviderAssumption ==
  \A c \in Platforms : \A a \in Answers[c] : Send(c, a.answer).outcome = "success" => a.taken

\* What the reply helper returns for a result: Telegram's only looks for an
\* exception, WhatsApp's at the outcome.
SentOf(c, outcome) == c = "telegram" \/ outcome = "success"

\* A voice note that was understood is answered with voice, on Telegram.
Speaks(r) == /\ AudioReplies /\ channel[r.ev] = "telegram" /\ kind[r.ev] = "voice"
             /\ r.body[1] # "error"

\* After a send returns: a text reply that was sent may be followed by a
\* spoken one, anything else by the answer to the provider.
Returned(r, outcome) ==
  LET sent == SentOf(channel[r.ev], outcome)
  IN  IF r.slot = "reply"
      THEN [r EXCEPT !.sent = sent, !.res = "none", !.code = 200,
                     !.pc = IF sent /\ Speaks(r) THEN "speak" ELSE "answer"]
      ELSE [r EXCEPT !.res = "none", !.code = 200, !.pc = "answer"]

\* Fault: the text under a key is not compared.
DiffersNever(r) == FALSE

Differs(r) == fingerprints[KeyOf(r)] \notin {NoPrint, PrintOf(r)}

\* Fingerprint and terminal result are looked up ...
SendConflict(t) ==
  LET r == req[t]
  IN  /\ r.pc = "check"
      /\ Differs(r)
      /\ req' = [req EXCEPT ![t].pc = "answer", ![t].code = 200]
      /\ UNCHANGED <<providerVars, storeVars, toolVars, calls, restarts>>

SendReused(t) ==
  LET r == req[t]
      stored == terminal[KeyOf(r)]
  IN  /\ r.pc = "check"
      /\ ~Differs(r)
      /\ stored # "none"
      /\ req' = [req EXCEPT ![t] = Returned(r, stored)]
      /\ UNCHANGED <<providerVars, storeVars, toolVars, calls, restarts>>

SendFresh(t) ==
  LET r == req[t]
  IN  /\ r.pc = "check"
      /\ ~Differs(r)
      /\ terminal[KeyOf(r)] = "none"
      /\ req' = [req EXCEPT ![t].pc = "call"]
      /\ UNCHANGED <<providerVars, storeVars, toolVars, calls, restarts>>

\* ... the fingerprint is stored and the provider called: a call whose message
\* was not taken stands also for one that the process did not live to make ...
Call(t) ==
  LET r == req[t]
      k == KeyOf(r)
      c == channel[r.ev]
  IN  /\ r.pc = "call"
      /\ fingerprints' = [fingerprints EXCEPT ![k] = PrintOf(r)]
      /\ \E a \in Answers[c] :
           LET outcome == Send(c, a.answer).outcome
           IN  /\ calls' = [calls EXCEPT ![k] = Append(@,
                    [body |-> r.body, run |-> restarts, taken |-> a.taken,
                     outcome |-> outcome])]
               /\ req' = [req EXCEPT ![t].pc = "record", ![t].res = outcome]
      /\ UNCHANGED <<providerVars, storeVars, terminal, restarts>>

\* Fault: only a success is remembered.
RemembersSuccess(outcome) == outcome = "success"

Remembers(outcome) == outcome # "known-transient"

\* ... and the result is remembered unless the provider asked to try again.
Record(t) ==
  LET r == req[t]
  IN  /\ r.pc = "record"
      /\ terminal' = IF Remembers(r.res)
                     THEN [terminal EXCEPT ![KeyOf(r)] = r.res] ELSE terminal
      /\ req' = [req EXCEPT ![t] = Returned(r, r.res)]
      /\ UNCHANGED <<providerVars, storeVars, fingerprints, calls, restarts>>

\* The reply is synthesised and sent under a key of its own, or synthesis
\* fails and the text reply has to do.
Speak(t) ==
  /\ req[t].pc = "speak"
  /\ \/ \E take \in Takes :
          req' = [req EXCEPT ![t].pc = "check", ![t].slot = "reply-audio",
                             ![t].take = take]
     \/ req' = [req EXCEPT ![t].pc = "answer"]
  /\ UNCHANGED <<providerVars, storeVars, toolVars, calls, restarts>>

----------------------------------------------------------------------------
\* The answer reaches the provider, or is lost and the event comes again.

Answer200(t) ==
  /\ req[t].pc = "answer"
  /\ req[t].code = 200
  /\ acked' = [acked EXCEPT ![req[t].ev] = TRUE]
  /\ req' = [req EXCEPT ![t] = Idle]
  /\ UNCHANGED <<channel, kind, tries, storeVars, toolVars, calls, restarts>>

AnswerLostOrRefused(t) ==
  /\ req[t].pc = "answer"
  /\ req' = [req EXCEPT ![t] = Idle]
  /\ UNCHANGED <<providerVars, storeVars, toolVars, calls, restarts>>

\* Other requests meanwhile: a reminder is approved and runs to its end, well or
\* badly, or what a query shows changes.
Approved(e) ==
  /\ phase[e] = "ask"
  /\ approvalRow[e] # Nothing
  /\ ~Conflict(e, approvalRow[e])
  /\ phase' = [phase EXCEPT ![e] = "done"]
  /\ UNCHANGED <<providerVars, req, registered, approvalRow, world, toolVars, calls,
                 restarts>>

WorldChanges ==
  /\ world = "before"
  /\ world' = "after"
  /\ UNCHANGED <<providerVars, req, registered, phase, approvalRow, toolVars, calls,
                 restarts>>

\* The process stops wherever it is; the tool's dictionaries are gone.
Restart ==
  /\ restarts < MaxRestarts
  /\ restarts' = restarts + 1
  /\ req' = [t \in Threads |-> Idle]
  /\ fingerprints' = [k \in Keys |-> NoPrint]
  /\ terminal' = [k \in Keys |-> "none"]
  /\ UNCHANGED <<providerVars, storeVars, calls>>

Serve(t) ==
  \/ Admit(t) \/ TranscriptionFails(t) \/ Transcribe(t)
  \/ Understand(t) \/ HandleQuery(t) \/ RegisterConflicts(t) \/ RegisterFirst(t)
  \/ RegisterReplays(t) \/ Extract(t) \/ CreateApproval(t) \/ HandleRaises(t)
  \/ SendConflict(t) \/ SendReused(t) \/ SendFresh(t) \/ Call(t) \/ Record(t)
  \/ Speak(t) \/ Answer200(t) \/ AnswerLostOrRefused(t)

Next ==
  \/ \E t \in Threads : Serve(t) \/ \E e \in Events : Deliver(t, e)
  \/ \E e \in Events : Approved(e)
  \/ WorldChanges
  \/ Restart

Spec == Init /\ [][Next]_vars

----------------------------------------------------------------------------
\* Properties.

\* Requests, tool and stores have the values the code gives them.
TypeOK ==
  /\ channel \in [Events -> Platforms]
  /\ kind \in [Events -> Kinds]
  /\ acked \in [Events -> BOOLEAN]
  /\ tries \in [Events -> Nat]
  /\ \A e \in Events : tries[e] <= MaxDeliveries[kind[e]]
  /\ req \in [Threads ->
       [pc : {"idle", "admit", "transcribe", "handle", "register", "extract",
              "approval", "check", "call", "record", "speak", "answer"},
        ev : Events, reading : Readings \cup {Nothing},
        body : Bodies \cup {NoBody}, take : Takes \cup {Nothing},
        slot : Slots, res : Outcomes \cup {"none"},
        sent : BOOLEAN, code : {0, 200, 403, 422, 500}]]
  /\ registered \in [Events -> Readings \cup {Nothing}]
  /\ phase \in [Events -> {"none", "running", "ask", "clarify", "done"}]
  /\ approvalRow \in [Events -> Readings \cup {Nothing}]
  /\ world \in {"before", "after"}
  /\ fingerprints \in [Keys -> Prints]
  /\ terminal \in [Keys -> Outcomes \cup {"none"}]
  /\ \A k \in Keys : Len(calls[k]) <= tries[k[1]]
  /\ restarts \in 0 .. MaxRestarts

\* What reached the chat under a key.
Messages(k) == {msg \in Range(calls[k]) : msg.taken}

\* Whatever the model or the transcriber reads into a redelivered text, the
\* chat only ever speaks of the reading that was registered first, and asks
\* the question that is saved for it: another reading is answered with a
\* conflict and no message, across overlapping requests and restarts.
RepliesMatchRegistered ==
  \A k \in Keys : \A msg \in Messages(k) :
    /\ msg.body[1] \in {"ask", "clarify"} => msg.body[2] = registered[k[1]]
    /\ msg.body[1] = "ask" => phase[k[1]] \in {"ask", "done"}
    /\ msg.body[1] = "clarify" => phase[k[1]] = "clarify"

\* Calls for one reply within one run of the process, not counting those the
\* provider answered as a passing failure (429, or a 5xx of a gateway), are
\* at most as many as requests of its channel can overlap: one on WhatsApp.
CopiesBounded ==
  \A k \in Keys : \A run \in 0 .. restarts :
    Cardinality({i \in DOMAIN calls[k] :
                   /\ calls[k][i].run = run
                   /\ calls[k][i].outcome # "known-transient"})
      <= Cardinality(Pool(channel[k[1]]))

\* On WhatsApp, within one run of the process, the tool lets one text out under
\* one key, even when the first try was refused and the reply has changed since.
OneTextPerKey ==
  \A k \in Keys : channel[k[1]] = "whatsapp" =>
    \A msg \in Messages(k) : msg.run = restarts => msg.body = fingerprints[k][1]

\* `sent` in WhatsApp's response is true only if that text is in the chat.
SentIsHonest ==
  req[EventLoop].sent =>
    \E msg \in Messages(<<req[EventLoop].ev, "reply">>) : msg.body = req[EventLoop].body

\* The question the registered reminder leads to was put to the provider.
Questioned(e) ==
  \E i \in DOMAIN calls[<<e, "reply">>] :
    LET body == calls[<<e, "reply">>][i].body
    IN  body[1] \in {"ask", "clarify"} /\ body[2] = registered[e]

\* A /recordar whose event the provider considers delivered is registered and
\* was answered with something.  On WhatsApp, where no request overtakes another,
\* that was its question, unless the workflow was left running by a request that
\* stopped between registering and saving, or had been approved before.
SettledOnceAcked ==
  \A e \in Events : (acked[e] /\ kind[e] = "command") =>
    /\ registered[e] # Nothing
    /\ calls[<<e, "reply">>] # <<>>
    /\ channel[e] = "whatsapp" => Questioned(e) \/ phase[e] \in {"running", "done"}

\* A question that reached the chat can be answered: the approval it names is
\* stored, for the reading that is registered, whichever delivery asked.
AskedIsActionable ==
  \A e \in Events : \A msg \in Messages(<<e, "reply">>) :
    msg.body[1] = "ask" => approvalRow[e] = registered[e]

\* An event from a stranger, without a valid signature, without a message or
\* with one that does not validate is turned away before any work: nothing is
\* routed, registered or sent, however often it comes.
TurnedAwayWithoutWork ==
  \A e \in Events : kind[e] \in {"stranger", "unsigned", "status", "sticker"} =>
    /\ registered[e] = Nothing
    /\ \A t \in Threads : req[t].ev = e => req[t].pc \in {"idle", "admit", "answer"}
    /\ \A slot \in Slots : calls[<<e, slot>>] = <<>>
    /\ acked[e] => kind[e] = "status"

\* What is said in the chat and what the WhatsApp webhook answers about it are
\* true, under overlaps, redelivery, lost answers and restarts.
RepliesAreTrue ==
  /\ TypeOK
  /\ RepliesMatchRegistered
  /\ OneTextPerKey
  /\ SentIsHonest

\* An event the platform will not deliver again has been answered, a question
\* can be answered in turn, and an event that is turned away has left nothing.
EventsAreSettled == SettledOnceAcked /\ AskedIsActionable /\ TurnedAwayWithoutWork
=============================================================================
