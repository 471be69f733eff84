---------------------------- MODULE DeliveryService ----------------------------
(***************************************************************************)
(* Durable delivery, side by side: one reminder from its request to the    *)
(* provider (ReminderDelivery), and a queue of other rows without the      *)
(* workflow (DispatchDueReminders), which can then be longer.  A behaviour *)
(* follows one of the two; in the queue the variables of the requests are  *)
(* Off.                                                                    *)
(***************************************************************************)
EXTENDS ReminderDelivery

CONSTANTS QueueMessages, QueueKind, QueueNotifyAt, QueueMaxTime

VARIABLE part

Queue == INSTANCE DispatchDueReminders
           WITH Messages <- QueueMessages, Kind <- QueueKind,
                NotifyAt <- QueueNotifyAt, MaxTime <- QueueMaxTime

serviceVars == <<part, vars>>

Off == "off"

RequestsOff ==
  /\ state = Off /\ approval = Off /\ reminder = Off
  /\ handler = Off /\ crashed = Off /\ cancel_told = Off

ServiceInit ==
  \/ part = "reminder" /\ Init
  \/ part = "queue" /\ Queue!Init /\ RequestsOff

ServiceNext ==
  \/ part = "reminder" /\ Next /\ UNCHANGED part
  \/ part = "queue" /\ Queue!Next /\ UNCHANGED <<part, requests>>

ServiceSpec == ServiceInit /\ [][ServiceNext]_serviceVars

\* The fairness of ReminderDelivery, for either part.
ServiceFairness ==
  /\ \A h \in Handlers :
       WF_serviceVars(part = "reminder" /\ Proceed(h) /\ UNCHANGED part)
  /\ \A w \in Workers :
       WF_serviceVars(
         \/ part = "reminder" /\ Works(w) /\ UNCHANGED part
         \/ part = "queue" /\ Queue!WorkerStep(w) /\ UNCHANGED <<part, requests>>)
  /\ WF_serviceVars(
       \/ part = "reminder" /\ TimePasses /\ UNCHANGED part
       \/ part = "queue" /\ Queue!Tick /\ UNCHANGED <<part, requests>>)

FairServiceSpec == ServiceSpec /\ ServiceFairness

\* What the provider is called for is the approved draft, at its time.
DeliversAsApproved == part = "reminder" => DeliveredAsApproved

\* ApprovedIsSettled: a grant leads to a settled delivery, or its request died.
\* And for the queue: a row that was added does not stay pending, claimed or
\* sending for ever, however many bad ones are before it and whatever crashes
\* interrupted it (dispatch and the worker loop).
DeliveriesSettle ==
  /\ \A h \in Handlers :
       part = "reminder" /\ Granted(h) ~> (part = "reminder" => Settled \/ CutShort)
  /\ \A m \in QueueMessages :
       []<>(part = "queue" =>
              outbox[m].dispatch_status \in {"absent", "published", "failed", "uncertain"})
=============================================================================
