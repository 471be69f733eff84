------------------------ MODULE AnswerClassification ------------------------
(***************************************************************************)
(* One provider answer, classified by both clients: the two keep separate  *)
(* copies of the rules, and the worker and the webhooks rely on both.      *)
(***************************************************************************)
EXTENDS ProviderAnswers

VARIABLES answer, telegram, whatsapp

vars == <<answer, telegram, whatsapp>>

NotYet == Result("none", 0, 0, FALSE)

Init == /\ answer \in Answer
        /\ telegram = NotYet
        /\ whatsapp = NotYet

ClassifyTelegram == /\ telegram = NotYet
                    /\ telegram' = TelegramSend(answer)
                    /\ UNCHANGED <<answer, whatsapp>>

ClassifyWhatsApp == /\ whatsapp = NotYet
                    /\ whatsapp' = WhatsAppSend(answer)
                    /\ UNCHANGED <<answer, telegram>>

Next == ClassifyTelegram \/ ClassifyWhatsApp

Spec == Init /\ [][Next]_vars

\* The metadata validator of TelegramProviderResult, WhatsAppProviderResult
\* and NotificationResult: it raises on a result that fails this.
ValidMetadata(r) ==
  /\ r.outcome \in Outcomes
  /\ r.code \in {0} \cup 100 .. 599
  /\ r.outcome = "success" => r.id /\ r.code = 0 /\ r.wait = 0
  /\ r.outcome # "success" => ~r.id
  /\ r.wait # 0 => r.outcome = "known-transient"

\* The validators of the result types never raise: whatever the provider
\* answers, a client's result keeps its outcome, code, wait and id
\* consistent.  A raise would leave the worker between its claim and the
\* record of the outcome.
ClassificationNeverRaises ==
  \A r \in {telegram, whatsapp} \ {NotYet} : ValidMetadata(r)

\* The two clients keep their own copies of the failure rules; for an answer
\* that is not 2xx they give the same verdict, and Telegram never waits less.
ChannelsAgreeOnFailures ==
  (/\ telegram # NotYet
   /\ whatsapp # NotYet
   /\ answer.net \/ answer.status \notin 200 .. 299) =>
     /\ telegram.outcome = whatsapp.outcome
     /\ telegram.code = whatsapp.code
     /\ telegram.wait >= whatsapp.wait

\* An answer that leaves open whether the message was taken is never called
\* a refusal: only a 4xx code, of the status line or of Telegram's body, makes
\* an outcome permanent.
PermanentOnlyIfRefused ==
  /\ telegram.outcome = "permanent" =>
       {answer.status, answer.errorCode} \cap (400 .. 499) # {}
  /\ whatsapp.outcome = "permanent" => answer.status \in 400 .. 499
  /\ answer.net => {telegram.outcome, whatsapp.outcome}
                     \subseteq {"none", "unknown-outcome"}

\* Every answer of a provider has one sound reading, whichever client reads it.
ClassificationSound ==
  /\ ClassificationNeverRaises
  /\ ChannelsAgreeOnFailures
  /\ PermanentOnlyIfRefused
=============================================================================
