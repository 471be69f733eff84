-------------------------------- MODULE MCChat --------------------------------
(* Model-checking values for Channels.                                       *)
EXTENDS Channels, Naturals, TLC

CONSTANTS e1, t1, t2, loop

\* On both sides of every limit the helpers compare with.
TheStatuses == {200, 204, 302, 399, 400, 429, 499, 500, 502, 599}
TheErrorCodes == {0, 99, 400, 429, 500, 600}

Blank == [net |-> FALSE, status |-> 200, json |-> FALSE, ok |-> FALSE,
          id |-> FALSE, errorCode |-> 0, bodyWait |-> 0, headerWait |-> 0]

\* A message may be taken although the answer is lost or comes from a gateway.
Taken == [taken : {TRUE},
          answer : {[Blank EXCEPT !.json = TRUE, !.ok = TRUE, !.id = TRUE],
                    [Blank EXCEPT !.net = TRUE],
                    [Blank EXCEPT !.status = 502]}]
NotTaken == [taken : {FALSE},
             answer : {[Blank EXCEPT !.net = TRUE],
                       [Blank EXCEPT !.status = 400],
                       [Blank EXCEPT !.status = 429]}]

\* All that may go wrong with a message on the one channel; on the other, whose
\* requests overlap, an answer that is remembered and one that asks for a copy.
TheAnswers == [telegram |-> {a \in Taken : ~a.answer.net},
               whatsapp |-> Taken \cup NotTaken]
TheKinds == [telegram |-> {"command", "text", "voice"},
             whatsapp |-> {"command", "text", "voice", "query", "image", "sticker",
                           "stranger", "unsigned", "status"}]

\* A third delivery can meet what two that overlapped have left.  A voice note's
\* deliveries each have many outcomes, so of them there are two.
TheDeliveries == [k \in TheKinds["whatsapp"] |-> IF k = "voice" THEN 2 ELSE 3]

ASSUME ChannelsAssumption == /\ W!KindAssumption
                             /\ W!WebhookAssumption /\ W!ProviderAssumption
                             /\ C!StatusAssumption /\ W!StatusAssumption

WorkerSymmetry == Permutations({t1, t2})
=============================================================================
