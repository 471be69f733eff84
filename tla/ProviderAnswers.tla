--------------------------- MODULE ProviderAnswers ---------------------------
(***************************************************************************)
(* What the two HTTP clients make of a provider's answer to one message:   *)
(* TelegramBotApiClient._send and WhatsAppGraphApiClient._send, with the   *)
(* parsing helpers below them.  An answer is abstracted to what the        *)
(* helpers look at; 0 stands for an absent number (Python's None, and any  *)
(* value the helpers turn into None).                                      *)
(***************************************************************************)
EXTENDS Naturals, FiniteSetsExt

\* Possible header, status and body values of an answer; a small set of each
\* is enough, the helpers only compare them with the limits 100, 400, 429,
\* 500 and 599.
CONSTANTS Statuses, ErrorCodes, Waits

\* http.client takes no status line without three digits; a code of 600 or
\* more is not expected of a provider (WhatsApp's _classify_failure would keep
\* it, and the validator of its result would raise).
StatusAssumption ==
  /\ Statuses \subseteq 100 .. 599
  /\ ErrorCodes \subseteq Nat
  /\ Waits \subseteq Nat

\* An answer: `net` is a timeout, a reset or an unreachable host, when there
\* is nothing else; `json` says the body is a JSON object, `ok` that it says
\* the message was taken, `id` that it carries a usable message id.
Answer == [net : BOOLEAN, status : Statuses, json : BOOLEAN, ok : BOOLEAN,
           id : BOOLEAN, errorCode : ErrorCodes, bodyWait : Waits,
           headerWait : Waits]

Outcomes == {"success", "known-transient", "permanent", "unknown-outcome"}

\* The provider result of either channel.
Result(outcome, code, wait, id) ==
  [outcome |-> outcome, code |-> code, wait |-> wait, id |-> id]

Unknown == Result("unknown-outcome", 0, 0, FALSE)

HttpStatus(n) == IF n \in 100 .. 599 THEN n ELSE 0

----------------------------------------------------------------------------
\* Telegram.

TelegramFailureOutcome(code) ==
  CASE code = 429 \/ code >= 500 -> "known-transient"
    [] code \in 400 .. 499 /\ code # 429 -> "permanent"
    [] code < 400 -> "unknown-outcome"

TelegramErrorCode(a) == IF a.json THEN HttpStatus(a.errorCode) ELSE 0

TelegramBodyWait(a) == IF a.json THEN a.bodyWait ELSE 0

\* The longer of the two waits the provider asked for.
TelegramWait(a) == Max({TelegramBodyWait(a), a.headerWait})

TelegramClassifyFailure(httpCode, a, headerWait) ==
  LET code == IF httpCode # 0 THEN httpCode ELSE TelegramErrorCode(a)
      outcome == TelegramFailureOutcome(code)
  IN  Result(outcome, code,
             IF outcome = "known-transient"
             THEN TelegramWait([a EXCEPT !.headerWait = headerWait]) ELSE 0,
             FALSE)

\* A 2xx answer; the Retry-After header is not passed on here.
TelegramClassifyResponse(a) ==
  IF ~a.json THEN Unknown
  ELSE IF ~a.ok THEN TelegramClassifyFailure(0, a, 0)
  ELSE IF ~a.id THEN Unknown
  ELSE Result("success", 0, 0, TRUE)

\* urlopen raises HTTPError for every status outside 2xx.
TelegramSend(a) ==
  IF a.net THEN Unknown
  ELSE IF a.status \notin 200 .. 299
       THEN TelegramClassifyFailure(HttpStatus(a.status), a, a.headerWait)
       ELSE TelegramClassifyResponse(a)

----------------------------------------------------------------------------
\* WhatsApp.

\* Fault: off by one at 500.
WhatsAppFailureOutcomeGreater(code) ==
  CASE code = 429 \/ code > 500 -> "known-transient"
    [] code \in 400 .. 499 /\ code # 429 -> "permanent"
    [] code < 400 \/ code = 500 -> "unknown-outcome"

WhatsAppFailureOutcome(code) ==
  CASE code = 429 \/ code >= 500 -> "known-transient"
    [] code \in 400 .. 499 /\ code # 429 -> "permanent"
    [] code < 400 -> "unknown-outcome"

WhatsAppClassifyFailure(code, headerWait) ==
  LET outcome == WhatsAppFailureOutcome(code)
  IN  Result(outcome, code,
             IF outcome = "known-transient" THEN headerWait ELSE 0, FALSE)

\* A 2xx answer: only a first message with an id is a success, an error
\* object in it is not looked at.
WhatsAppClassifyResponse(a) ==
  IF a.json /\ a.id THEN Result("success", 0, 0, TRUE) ELSE Unknown

WhatsAppSend(a) ==
  IF a.net THEN Unknown
  ELSE IF a.status \notin 200 .. 299
       THEN WhatsAppClassifyFailure(a.status, a.headerWait)
       ELSE WhatsAppClassifyResponse(a)
=============================================================================
