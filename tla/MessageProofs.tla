----------------------------- MODULE MessageProofs -----------------------------
(***************************************************************************)
(* Proofs about a chat message on its way through the assistant.           *)
(* MessageFlow: the scans of what comes in and goes out (GuardedReplies),  *)
(* what a message makes the assistant do (CommandRouter) and when the      *)
(* reminder it asks for is due (ReminderParser).  Channels: what a client  *)
(* makes of the provider's answer to the reply (AnswerClassification) and  *)
(* the requests that bring messages in and replies out (ChatWebhook).  The *)
(* lemmas are about one part, from the assumptions its module states; the  *)
(* theorems carry them to the compositions.                                *)
(***************************************************************************)
EXTENDS MessageFlow, Channels, Integers, Sequences, FiniteSets, FiniteSetTheorems, TLAPS

-----------------------------------------------------------------------------
\* A step is a step of the part that is followed.
LEMMA FlowApart ==
  [Next]_vars =>
    /\ part' = part
    /\ part = "router" => [R!Next]_R!vars
    /\ part = "parser" => [Parser!Next]_Parser!vars
    /\ part = "guardrails" => [G!Next]_G!vars
BY DEF Next, vars, routerVars, parserVars, guardVars, R!vars, Parser!vars, G!vars

LEMMA ChannelsApart ==
  [ChannelNext]_channelVars =>
    /\ side' = side
    /\ side = "client" => [C!Next]_C!vars
    /\ side = "webhook" => [W!Next]_W!vars
BY DEF ChannelNext, channelVars, classifyVars, webhookVars, C!vars, W!vars

-----------------------------------------------------------------------------
(* The scans.                                                              *)
(*                                                                         *)
(* Where a request stands says which scans it has passed: nothing is       *)
(* written at a place that a blocked scan could have led to.  A title is   *)
(* fixed once it is registered, so what passed a scan stays presentable.   *)

Actions == {"allowed", "blocked", "flagged"}

Places == {"idle", "input", "register", "extract", "clarify", "clarified", "ask",
           "approval", "resume", "commit", "announce", "announced", "duplicate",
           "received", "summary", "repeat", "agenda", "pending", "failed"}

Errors == {"none", "trace", "PROMPT_INJECTION_DETECTED", "PII_DETECTED",
           "GUARDRAIL_BLOCKED"}

Requests == [kind : G!Kinds \cup {"none"}, pc : Places, error : Errors,
             traced : BOOLEAN, committed : BOOLEAN]

Registrations == [status : {"none", "running", "clarify", "waiting", "completed"},
                  title : G!Titles \cup {"none"}]

GuardTypes ==
  /\ shown \in [findings : SUBSET G!PromptRules, echo : BOOLEAN]
  /\ guarded \in Requests
  /\ wf \in Registrations
  /\ approval \in {"none", "pending", "approved"}
  /\ reminder \in G!Titles \cup {"none"}
  /\ scanned \in Seq(SUBSET (G!PromptRules \cup G!OutputRules))
  /\ events \in Seq(Actions)

\* Every scan has its event, and only a recorder that raised leaves one out.
TracedInv ==
  /\ ~guarded.traced => guarded.pc = "failed" /\ guarded.error = "trace"
  /\ guarded.traced => /\ Len(events) = Len(scanned)
                   /\ \A i \in 1 .. Len(scanned) :
                        events[i] = G!derive_guardrail_action(scanned[i])

\* The first scan of a request is that of its text.
FirstScanInv ==
  /\ guarded.pc = "input" => scanned = <<>> /\ guarded.kind \notin {"none", "agenda", "pending"}
  /\ guarded.pc \notin {"idle", "input", "failed", "agenda", "pending"} => Len(scanned) >= 1
  /\ guarded.pc = "failed" => Len(scanned) >= 1
  /\ (guarded.pc = "failed" /\ Len(scanned) = 1 /\ guarded.traced /\ guarded.kind # "document") =>
       guarded.error = G!enforce_prompt_scan(shown.findings)

\* What the place of a request says about the scans that led to it.
PassedAt(place) ==
  /\ place = "register" => ~G!Blocked(shown.findings)
  /\ place \in {"extract", "clarify", "clarified"} => wf.status = "running"
  /\ place \in {"ask", "approval"} => wf.status = "waiting"
  /\ place = "approval" => ~G!Matches("needs_approval", wf.title)
  /\ place = "resume" => approval # "none"
  /\ place = "commit" => wf.status = "waiting"
  /\ place \in {"commit", "announce", "announced"} => ~G!Matches("created", wf.title)

PassedInv ==
  /\ PassedAt(guarded.pc)
  /\ guarded.kind = "approve" => approval # "none"
  /\ guarded.committed => guarded.pc \in {"announce", "announced", "failed"}
  /\ guarded.committed => guarded.error \in {"none", "trace"}
  /\ guarded.pc # "failed" => guarded.error = "none"

\* What is stored passed the scans it had to.
KeptInv ==
  /\ wf.status # "none" => ~G!Blocked(shown.findings)
  /\ approval # "none" => /\ wf.status \in {"waiting", "completed"}
                          /\ ~G!Matches("needs_approval", wf.title)
  /\ reminder # "none" => ~G!Matches("notification_body", reminder)
  /\ reply.unsafe => reply.of \in {"agenda", "pending"}

GuardInv == GuardTypes /\ TracedInv /\ FirstScanInv /\ PassedInv /\ KeptInv

\* The output rules have one category, and it blocks.
LEMMA OutputScans ==
  ASSUME NEW template, NEW title \in G!Titles \cup {"none"}
  PROVE  /\ G!scan_output(template, title) \in SUBSET G!OutputRules
         /\ G!Blocked(G!scan_output(template, title)) <=> G!Matches(template, title)
         /\ G!enforce_output_scan(G!scan_output(template, title)) =
              IF G!Matches(template, title) THEN "GUARDRAIL_BLOCKED" ELSE "none"
<1>1. title = "none" => ~G!Matches(template, title)
  BY DEF G!Matches
<1>2. G!Blocked(G!OutputRules) /\ ~G!Blocked({})
  BY DEF G!Blocked, G!OutputRules
<1>3. G!scan_output(template, title) =
        IF G!Matches(template, title) THEN G!OutputRules ELSE {}
  BY <1>1 DEF G!scan_output, G!None
<1> QED
  BY <1>2, <1>3 DEF G!enforce_output_scan, G!None

LEMMA GuardInitial ==
  ASSUME G!Init
  PROVE  GuardInv
<1>1. GuardTypes
  BY DEF G!Init, GuardTypes, Registrations, G!Idle, G!None, Requests, Places, Errors
<1>2. TracedInv /\ FirstScanInv /\ PassedInv /\ KeptInv
  BY DEF G!Init, G!Idle, G!None, TracedInv, FirstScanInv, PassedAt, PassedInv, KeptInv
<1> QED
  BY <1>1, <1>2 DEF GuardInv

\* The event of a scan carries the action that its findings call for.
LEMMA ScanTypes ==
  ASSUME GuardInv, guarded.traced,
         NEW findings \in SUBSET (G!PromptRules \cup G!OutputRules),
         NEW error \in Errors, NEW passed \in Places \ {"failed"},
         G!Scan(findings, error, passed), UNCHANGED <<shown, wf, approval, reminder, reply>>
  PROVE  /\ GuardTypes' /\ TracedInv'
         /\ scanned' = Append(scanned, findings) /\ Len(scanned') = Len(scanned) + 1
         /\ \/ /\ error = "none" /\ guarded' = [guarded EXCEPT !.pc = passed]
            \/ /\ error # "none" /\ guarded' = [guarded EXCEPT !.pc = "failed", !.error = error]
            \/ guarded' = [guarded EXCEPT !.pc = "failed", !.error = "trace", !.traced = FALSE]
<1>1. G!derive_guardrail_action(findings) \in Actions
  BY DEF G!derive_guardrail_action, Actions
<1>2. /\ scanned \in Seq(SUBSET (G!PromptRules \cup G!OutputRules)) /\ events \in Seq(Actions)
      /\ guarded \in Requests /\ Len(events) = Len(scanned)
      /\ \A i \in 1 .. Len(scanned) : events[i] = G!derive_guardrail_action(scanned[i])
  BY DEF GuardInv, GuardTypes, TracedInv
<1>3. scanned' = Append(scanned, findings)
  BY DEF G!Scan
<1>4. /\ scanned' \in Seq(SUBSET (G!PromptRules \cup G!OutputRules))
      /\ Len(scanned') = Len(scanned) + 1
      /\ \A i \in 1 .. Len(scanned) : scanned'[i] = scanned[i]
      /\ scanned'[Len(scanned) + 1] = findings
  BY <1>2, <1>3
<1>5. CASE /\ events' = Append(events, G!derive_guardrail_action(findings))
           /\ guarded' = IF error # "none" THEN [guarded EXCEPT !.pc = "failed", !.error = error]
                     ELSE [guarded EXCEPT !.pc = passed]
  <2>1. /\ events' \in Seq(Actions) /\ Len(events') = Len(events) + 1
        /\ \A i \in 1 .. Len(events) : events'[i] = events[i]
        /\ events'[Len(events) + 1] = G!derive_guardrail_action(findings)
    BY <1>1, <1>2, <1>5
  <2>2. \A i \in 1 .. Len(scanned') : events'[i] = G!derive_guardrail_action(scanned'[i])
    BY <1>2, <1>4, <2>1
  <2>3. guarded' \in Requests /\ guarded'.traced
    BY <1>2, <1>5 DEF Requests, Places, Errors
  <2>4. GuardTypes'
    BY <1>4, <2>1, <2>3 DEF GuardInv, GuardTypes
  <2>5. TracedInv'
    BY <1>2, <1>4, <2>1, <2>2, <2>3 DEF TracedInv
  <2> QED
    BY <1>3, <1>4, <1>5, <2>4, <2>5
<1>6. CASE /\ events' = events
           /\ guarded' = [guarded EXCEPT !.pc = "failed", !.error = "trace", !.traced = FALSE]
  <2>1. guarded' \in Requests /\ ~guarded'.traced /\ guarded'.pc = "failed" /\ guarded'.error = "trace"
    BY <1>2, <1>6 DEF Requests, Places, Errors
  <2> QED
    BY <1>2, <1>3, <1>4, <1>6, <2>1 DEF GuardInv, GuardTypes, TracedInv
<1> QED
  BY <1>5, <1>6 DEF G!Scan, G!None, G!Emits

\* A scan that leads to where its result allows keeps the invariant.
LEMMA ScanInv ==
  ASSUME GuardInv, guarded.pc # "failed",
         NEW findings \in SUBSET (G!PromptRules \cup G!OutputRules),
         NEW error \in Errors,
         NEW passed \in Places \ {"idle", "input", "agenda", "pending", "failed"},
         G!Scan(findings, error, passed), UNCHANGED <<shown, wf, approval, reminder, reply>>,
         error = "none" => PassedAt(passed),
         Len(scanned) = 0 /\ guarded.kind # "document" =>
           error = G!enforce_prompt_scan(shown.findings),
         guarded.committed => error = "none" /\ passed = "announced"
  PROVE  GuardInv'
<1>1. guarded.traced /\ guarded \in Requests /\ guarded.error = "none" /\ Len(scanned) \in Nat
  BY DEF GuardInv, GuardTypes, TracedInv, PassedInv
<1>2. /\ GuardTypes' /\ TracedInv' /\ Len(scanned') = Len(scanned) + 1
      /\ \/ /\ error = "none" /\ guarded' = [guarded EXCEPT !.pc = passed]
         \/ /\ error # "none" /\ guarded' = [guarded EXCEPT !.pc = "failed", !.error = error]
         \/ guarded' = [guarded EXCEPT !.pc = "failed", !.error = "trace", !.traced = FALSE]
  BY <1>1, ScanTypes
<1>3. \/ /\ error = "none" /\ guarded'.pc = passed /\ guarded'.error = "none"
         /\ guarded'.kind = guarded.kind /\ guarded'.committed = guarded.committed
      \/ /\ error # "none" /\ guarded'.pc = "failed" /\ guarded'.error = error /\ guarded'.traced
         /\ guarded'.kind = guarded.kind /\ guarded'.committed = guarded.committed
      \/ /\ guarded'.pc = "failed" /\ guarded'.error = "trace" /\ ~guarded'.traced
         /\ guarded'.kind = guarded.kind /\ guarded'.committed = guarded.committed
  BY <1>1, <1>2 DEF Requests
<1>4. FirstScanInv'
  BY <1>1, <1>2, <1>3 DEF FirstScanInv
<1>5. PassedInv'
  <2>1. PassedAt(guarded'.pc)
    BY <1>3 DEF PassedAt
  <2> QED
    BY <1>3, <2>1 DEF GuardInv, PassedInv, PassedAt
<1>6. KeptInv'
  BY DEF GuardInv, KeptInv
<1> QED
  BY <1>2, <1>4, <1>5, <1>6 DEF GuardInv

LEMMA InputInv ==
  ASSUME GuardInv, G!Input
  PROVE  GuardInv'
<1> DEFINE error == IF guarded.kind = "document" THEN "none"
                    ELSE G!enforce_prompt_scan(shown.findings)
           passed == CASE guarded.kind = "create" -> "register"
                       [] guarded.kind = "approve" -> "resume"
                       [] guarded.kind = "document" -> "summary"
                       [] guarded.kind = "run" -> "received"
<1>1. /\ guarded.pc = "input" /\ scanned = <<>> /\ ~guarded.committed
      /\ guarded.kind \in {"create", "approve", "document", "run"}
  BY DEF GuardInv, GuardTypes, Requests, FirstScanInv, PassedInv, G!Input, G!Kinds
<1>2. G!Scan(shown.findings, error, passed) /\ UNCHANGED <<shown, wf, approval, reminder, reply>>
  BY DEF G!Input, G!None
<1>3. shown.findings \in SUBSET (G!PromptRules \cup G!OutputRules) /\ error \in Errors
  BY DEF GuardInv, GuardTypes, G!enforce_prompt_scan, G!None, Errors
<1>4. passed \in {"register", "resume", "summary", "received"}
  BY <1>1
<1>5. error = "none" => PassedAt(passed)
  <2>1. CASE guarded.kind = "create"
    BY <2>1 DEF PassedAt, G!enforce_prompt_scan
  <2>2. CASE guarded.kind = "approve"
    BY <1>1, <2>2 DEF PassedAt, GuardInv, PassedInv
  <2>3. CASE guarded.kind \in {"document", "run"}
    BY <2>3 DEF PassedAt
  <2> QED
    BY <1>1, <2>1, <2>2, <2>3
<1> HIDE DEF passed
<1>6. passed \in Places \ {"idle", "input", "agenda", "pending", "failed"}
  BY <1>4 DEF Places
<1>7. Len(scanned) = 0 /\ guarded.kind # "document" => error = G!enforce_prompt_scan(shown.findings)
  OBVIOUS
<1> HIDE DEF error
<1> QED
  BY <1>1, <1>2, <1>3, <1>5, <1>6, <1>7, ScanInv

\* A scan of a template, which a request makes after that of its text.
LEMMA GuardedInv ==
  ASSUME GuardInv, guarded.pc \in {"ask", "resume", "announce"},
         NEW template, NEW title \in G!Titles \cup {"none"},
         NEW passed \in Places \ {"idle", "input", "agenda", "pending", "failed"},
         G!Guarded(template, title, passed), UNCHANGED <<shown, wf, approval, reminder, reply>>,
         ~G!Matches(template, title) => PassedAt(passed),
         guarded.committed => ~G!Matches(template, title) /\ passed = "announced"
  PROVE  GuardInv'
<1> DEFINE findings == G!scan_output(template, title)
           error == G!enforce_output_scan(findings)
<1>1. /\ findings \in SUBSET (G!PromptRules \cup G!OutputRules)
      /\ error = IF G!Matches(template, title) THEN "GUARDRAIL_BLOCKED" ELSE "none"
  BY OutputScans
<1>2. G!Scan(findings, error, passed)
  BY DEF G!Guarded
<1>3. Len(scanned) >= 1 /\ Len(scanned) \in Nat /\ guarded.pc # "failed"
  BY DEF GuardInv, GuardTypes, FirstScanInv
<1> HIDE DEF findings, error
<1>4. error \in Errors
  BY <1>1 DEF Errors
<1> QED
  BY <1>1, <1>2, <1>3, <1>4, ScanInv

LEMMA AskInv ==
  ASSUME GuardInv, G!Ask
  PROVE  GuardInv'
<1>1. wf.status = "waiting" /\ wf.title \in G!Titles \cup {"none"} /\ ~guarded.committed
  BY DEF GuardInv, GuardTypes, Registrations, PassedInv, PassedAt, G!Ask
<1>2. ~G!Matches("needs_approval", wf.title) => PassedAt("approval")
  BY <1>1 DEF PassedAt
<1> QED
  BY <1>1, <1>2, GuardedInv DEF G!Ask, Places

LEMMA ResumeInv ==
  ASSUME GuardInv, G!Resume
  PROVE  GuardInv'
<1>1. /\ guarded.pc = "resume" /\ wf.title \in G!Titles \cup {"none"} /\ ~guarded.committed
      /\ UNCHANGED <<shown, wf, approval, reminder, reply>>
  BY DEF GuardInv, GuardTypes, Registrations, PassedInv, G!Resume
<1>2. CASE wf.status = "waiting"
  <2>1. G!Guarded("notification_body", wf.title, "commit")
    BY <1>2 DEF G!Resume, G!Guarded, G!Body
  <2>2. ~G!Matches("notification_body", wf.title) => PassedAt("commit")
    BY <1>2 DEF PassedAt, G!Matches
  <2> QED
    BY <1>1, <2>1, <2>2, GuardedInv DEF Places
<1>3. CASE wf.status # "waiting"
  <2>1. G!Guarded("created", "none", "repeat")
    BY <1>3 DEF G!Resume, G!None
  <2>2. PassedAt("repeat")
    BY DEF PassedAt
  <2> QED
    BY <1>1, <2>1, <2>2, GuardedInv DEF Places
<1> QED
  BY <1>2, <1>3

\* What passes as a notification passes as the reply: the announcement is not blocked.
LEMMA AnnounceInv ==
  ASSUME GuardInv, G!Announce
  PROVE  GuardInv'
<1>1. /\ guarded.pc = "announce" /\ wf.title \in G!Titles \cup {"none"}
      /\ ~G!Matches("created", wf.title)
  BY DEF GuardInv, GuardTypes, Registrations, PassedInv, PassedAt, G!Announce
<1>2. PassedAt("announced")
  BY <1>1 DEF PassedAt
<1> QED
  BY <1>1, <1>2, GuardedInv DEF G!Announce, Places

LEMMA FixedInv ==
  ASSUME GuardInv, G!Fixed
  PROVE  GuardInv'
<1>1. PICK unsafe \in IF guarded.pc = "summary" THEN {shown.echo} ELSE {FALSE} :
        LET findings == IF unsafe THEN G!OutputRules ELSE {}
        IN  G!Scan(findings, G!enforce_output_scan(findings),
                   IF guarded.pc = "clarify" THEN "clarified" ELSE "repeat")
  BY DEF G!Fixed
<1> DEFINE findings == IF unsafe THEN G!OutputRules ELSE {}
           error == G!enforce_output_scan(findings)
<1>2. findings \in SUBSET (G!PromptRules \cup G!OutputRules) /\ error \in Errors
  BY DEF G!enforce_output_scan, G!None, Errors
<1>3. /\ guarded.pc # "failed" /\ ~guarded.committed /\ Len(scanned) >= 1 /\ Len(scanned) \in Nat
      /\ UNCHANGED <<shown, wf, approval, reminder, reply>>
  BY DEF GuardInv, GuardTypes, FirstScanInv, PassedInv, G!Fixed
<1>4. PICK passed \in {"clarified", "repeat"} :
        passed = IF guarded.pc = "clarify" THEN "clarified" ELSE "repeat"
  OBVIOUS
<1>5. G!Scan(findings, error, passed) /\ PassedAt(passed)
  BY <1>1, <1>4 DEF PassedAt, GuardInv, PassedInv
<1> HIDE DEF findings, error
<1> QED
  BY <1>2, <1>3, <1>4, <1>5, ScanInv DEF Places

\* A request that ends or begins leaves no place behind.
LEMMA IdleFacts ==
  /\ G!Idle \in Requests /\ G!Idle.pc = "idle" /\ G!Idle.error = "none" /\ G!Idle.traced
  /\ ~G!Idle.committed /\ G!Idle.kind = "none"
BY DEF G!Idle, G!None, Requests, Places, Errors

LEMMA StartInv ==
  ASSUME GuardInv, NEW aim \in G!Kinds, G!Start(aim)
  PROVE  GuardInv'
<1> DEFINE place == IF aim \in {"agenda", "pending"} THEN aim ELSE "input"
<1>1. guarded' = [G!Idle EXCEPT !.kind = aim, !.pc = place]
  BY DEF G!Start
<1>2. /\ guarded' \in Requests /\ guarded'.pc = place /\ guarded'.kind = aim /\ guarded'.error = "none"
      /\ guarded'.traced /\ ~guarded'.committed
  BY <1>1, IdleFacts DEF Requests, Places, G!Kinds
<1>3. /\ shown' = shown /\ wf' = wf /\ reminder' = reminder /\ reply' = reply
      /\ scanned' = <<>> /\ events' = <<>>
      /\ approval' = (IF aim = "approve" THEN "approved" ELSE approval)
      /\ aim = "approve" => approval # "none"
  BY DEF G!Start, G!None
<1>4. GuardTypes'
  BY <1>2, <1>3 DEF GuardInv, GuardTypes
<1>5. TracedInv' /\ FirstScanInv'
  BY <1>2, <1>3 DEF TracedInv, FirstScanInv, G!Kinds
<1>6. PassedInv'
  BY <1>2, <1>3 DEF PassedInv, PassedAt
<1>7. KeptInv'
  BY <1>3 DEF GuardInv, KeptInv
<1> QED
  BY <1>4, <1>5, <1>6, <1>7 DEF GuardInv

\* A request that goes on without a scan, at a place whose facts hold.
LEMMA GoesOnInv ==
  ASSUME GuardInv, guarded.pc \in {"register", "extract", "clarified"},
         NEW to \in {"extract", "clarify", "ask", "duplicate", "repeat"},
         guarded' = [guarded EXCEPT !.pc = to], wf' \in Registrations,
         UNCHANGED <<shown, approval, reminder, scanned, events, reply>>,
         wf'.status # "none" /\ ~G!Blocked(shown.findings),
         \/ wf' = wf
         \/ wf.status \in {"none", "running"},
         to \in {"extract", "clarify"} => wf'.status = "running",
         to = "ask" => wf'.status = "waiting"
  PROVE  GuardInv'
<1>1. /\ guarded.traced /\ ~guarded.committed /\ guarded.error = "none"
      /\ guarded \in Requests /\ Len(scanned) >= 1
      /\ shown' = shown /\ approval' = approval /\ reminder' = reminder /\ reply' = reply
      /\ scanned' = scanned /\ events' = events
  BY DEF GuardInv, GuardTypes, TracedInv, FirstScanInv, PassedInv
<1>2. /\ guarded' \in Requests /\ guarded'.pc = to /\ guarded'.traced /\ ~guarded'.committed
      /\ guarded'.error = "none" /\ guarded'.kind = guarded.kind
  BY <1>1 DEF Requests, Places
<1>3. wf' = wf \/ approval = "none"
  BY DEF GuardInv, KeptInv
<1>4. GuardTypes' /\ TracedInv' /\ FirstScanInv'
  BY <1>1, <1>2 DEF GuardInv, GuardTypes, TracedInv, FirstScanInv
<1>5. PassedInv'
  BY <1>1, <1>2 DEF GuardInv, PassedInv, PassedAt
<1>6. KeptInv'
  BY <1>1, <1>3 DEF GuardInv, KeptInv
<1> QED
  BY <1>4, <1>5, <1>6 DEF GuardInv

LEMMA RegisterInv ==
  ASSUME GuardInv, G!Register
  PROVE  GuardInv'
<1>1. /\ guarded.pc = "register" /\ ~G!Blocked(shown.findings) /\ wf \in Registrations
      /\ UNCHANGED <<shown, approval, reminder, scanned, events, reply>>
  BY DEF GuardInv, GuardTypes, PassedInv, PassedAt, G!Register
<1>2. CASE /\ wf.status = "none" /\ guarded' = [guarded EXCEPT !.pc = "extract"]
           /\ wf' = [wf EXCEPT !.status = "running"]
  <2>1. wf' \in Registrations /\ wf'.status = "running"
    BY <1>1, <1>2 DEF Registrations
  <2> QED
    BY <1>1, <1>2, <2>1, GoesOnInv
<1>3. CASE /\ wf.status # "none" /\ wf' = wf
           /\ guarded' = [guarded EXCEPT !.pc = IF wf.status = "waiting" THEN "ask" ELSE "duplicate"]
  <2>1. PICK to \in {"ask", "duplicate"} :
          to = IF wf.status = "waiting" THEN "ask" ELSE "duplicate"
    OBVIOUS
  <2> QED
    BY <1>1, <1>3, <2>1, GoesOnInv
<1> QED
  BY <1>2, <1>3 DEF G!Register, G!None

\* What is read, or asked for again, is about a text that was not blocked.
LEMMA ReadTitleInv ==
  ASSUME GuardInv, G!Extract
  PROVE  GuardInv'
<1>1. /\ guarded.pc = "extract" /\ wf.status = "running" /\ wf \in Registrations
      /\ ~G!Blocked(shown.findings) /\ approval = "none"
      /\ UNCHANGED <<shown, approval, reminder, scanned, events, reply>>
  BY DEF GuardInv, GuardTypes, PassedInv, PassedAt, KeptInv, G!Extract
<1>2. CASE /\ \E title \in G!Titles : wf' = [status |-> "waiting", title |-> title]
           /\ guarded' = [guarded EXCEPT !.pc = "ask"]
  <2>1. wf' \in Registrations /\ wf'.status = "waiting"
    BY <1>2 DEF Registrations
  <2> QED
    BY <1>1, <1>2, <2>1, GoesOnInv
<1>3. CASE guarded' = [guarded EXCEPT !.pc = "clarify"] /\ wf' = wf
  BY <1>1, <1>3, GoesOnInv
<1>4. CASE guarded' = G!Idle /\ wf' = wf
  <2>1. GuardTypes' /\ TracedInv' /\ FirstScanInv'
    BY <1>1, <1>4, IdleFacts DEF GuardInv, GuardTypes, TracedInv, FirstScanInv
  <2>2. PassedInv' /\ KeptInv'
    BY <1>1, <1>4, IdleFacts DEF GuardInv, PassedInv, PassedAt, KeptInv
  <2> QED
    BY <2>1, <2>2 DEF GuardInv
<1> QED
  BY <1>2, <1>3, <1>4 DEF G!Extract

LEMMA ClarifiedInv ==
  ASSUME GuardInv, G!Clarified
  PROVE  GuardInv'
<1>1. /\ guarded.pc = "clarified" /\ wf.status = "running" /\ wf \in Registrations
      /\ ~G!Blocked(shown.findings)
      /\ UNCHANGED <<shown, approval, reminder, scanned, events, reply>>
  BY DEF GuardInv, GuardTypes, PassedInv, PassedAt, KeptInv, G!Clarified
<1>2. /\ guarded' = [guarded EXCEPT !.pc = "repeat"]
      /\ wf' \in Registrations /\ wf'.status = "clarify"
  BY <1>1 DEF G!Clarified, Registrations
<1> QED
  BY <1>1, <1>2, GoesOnInv

LEMMA CommitInv ==
  ASSUME GuardInv, G!Commit
  PROVE  GuardInv'
<1>1. /\ guarded.pc = "commit" /\ guarded.traced /\ guarded.error = "none" /\ guarded \in Requests
      /\ wf.status = "waiting" /\ ~G!Matches("created", wf.title) /\ Len(scanned) >= 1
      /\ wf \in Registrations
  BY DEF GuardInv, GuardTypes, TracedInv, FirstScanInv, PassedInv, PassedAt, G!Commit
<1>2. /\ shown' = shown /\ approval' = approval /\ reply' = reply
      /\ scanned' = scanned /\ events' = events /\ reminder' = wf.title
      /\ wf' = [wf EXCEPT !.status = "completed"]
      /\ guarded' = [guarded EXCEPT !.pc = "announce", !.committed = TRUE]
  BY DEF G!Commit
<1>3. /\ guarded' \in Requests /\ guarded'.pc = "announce" /\ guarded'.traced /\ guarded'.committed
      /\ guarded'.error = "none" /\ guarded'.kind = guarded.kind
  BY <1>1, <1>2 DEF Requests, Places
<1>4. /\ wf' \in Registrations
      /\ wf'.status = "completed" /\ wf'.title = wf.title
  BY <1>1, <1>2 DEF Registrations
<1>5. GuardTypes' /\ TracedInv' /\ FirstScanInv'
  <2>1. reminder' \in G!Titles \cup {"none"}
    BY <1>1, <1>2 DEF Registrations
  <2> QED
    BY <1>1, <1>2, <1>3, <1>4, <2>1 DEF GuardInv, GuardTypes, TracedInv, FirstScanInv
<1>6. ~G!Matches("notification_body", wf.title)
  BY <1>1 DEF G!Matches
<1>7. PassedInv'
  BY <1>1, <1>2, <1>3, <1>4 DEF GuardInv, PassedInv, PassedAt
<1>8. KeptInv'
  BY <1>1, <1>2, <1>4, <1>6 DEF GuardInv, KeptInv
<1> QED
  BY <1>5, <1>7, <1>8 DEF GuardInv

\* A request that is answered, or fails, is over.
LEMMA EndsInv ==
  ASSUME GuardInv, G!CreateApproval \/ G!Answer \/ G!Agenda \/ G!Pending \/ G!Fails
  PROVE  GuardInv'
<1>1. /\ guarded' = G!Idle /\ shown' = shown /\ wf' = wf /\ reminder' = reminder
      /\ \/ guarded.pc # "failed" /\ scanned' = scanned /\ events' = events
         \/ scanned' = <<>> /\ events' = <<>>
  BY DEF G!CreateApproval, G!Answer, G!Agenda, G!Pending, G!Fails
<1>2. /\ approval' \in {"none", "pending", "approved"} /\ (approval # "none" => approval' # "none")
      /\ approval' # "none" => wf.status \in {"waiting", "completed"} /\ ~G!Matches("needs_approval", wf.title)
      /\ reply'.unsafe => reply'.of \in {"agenda", "pending"}
  <2>0. GuardTypes /\ PassedAt(guarded.pc) /\ KeptInv
    BY DEF GuardInv, PassedInv
  <2>1. CASE G!CreateApproval
    <3>1. wf.status = "waiting" /\ ~G!Matches("needs_approval", wf.title)
      BY <2>0, <2>1 DEF PassedAt, G!CreateApproval
    <3>2. reply'.unsafe = G!Matches("needs_approval", wf.title)
      BY <2>1 DEF G!CreateApproval
    <3> QED
      BY <2>0, <2>1, <3>1, <3>2 DEF G!CreateApproval, GuardTypes, G!None
  <2>2. CASE G!Answer
    <3>1. guarded.pc = "announced" => ~G!Matches("created", wf.title)
      BY <2>0 DEF PassedAt
    <3>2. reply'.unsafe = (guarded.pc = "announced" /\ G!Matches("created", wf.title))
      BY <2>2 DEF G!Answer
    <3> QED
      BY <2>0, <2>2, <3>1, <3>2 DEF G!Answer, GuardTypes, KeptInv
  <2>3. CASE G!Agenda \/ G!Pending
    <3>1. reply'.of \in {"agenda", "pending"} /\ approval' = approval
      BY <2>3 DEF G!Agenda, G!Pending
    <3> QED
      BY <2>0, <3>1 DEF GuardTypes, KeptInv
  <2>4. CASE G!Fails
    BY <2>0, <2>4 DEF G!Fails, GuardTypes, KeptInv
  <2> QED
    BY <2>1, <2>2, <2>3, <2>4
<1>3. GuardTypes'
  <2>1. /\ scanned' \in Seq(SUBSET (G!PromptRules \cup G!OutputRules))
        /\ events' \in Seq(Actions)
    <3>1. CASE scanned' = scanned /\ events' = events
      BY <3>1 DEF GuardInv, GuardTypes
    <3>2. CASE scanned' = <<>> /\ events' = <<>>
      BY <3>2
    <3> QED
      BY <1>1, <3>1, <3>2
  <2>2. guarded' \in Requests
    BY <1>1, IdleFacts
  <2> QED
    BY <1>1, <1>2, <2>1, <2>2 DEF GuardInv, GuardTypes
<1>4. TracedInv' /\ FirstScanInv'
  BY <1>1, IdleFacts DEF GuardInv, TracedInv, FirstScanInv
<1>5. PassedInv' /\ KeptInv'
  BY <1>1, <1>2, IdleFacts DEF GuardInv, PassedInv, PassedAt, KeptInv
<1> QED
  BY <1>3, <1>4, <1>5 DEF GuardInv

LEMMA GuardInvariant == G!Spec => []GuardInv
<1>1. G!Init => GuardInv
  BY GuardInitial
<1>2. GuardInv /\ [G!Next]_G!vars => GuardInv'
  <2> SUFFICES ASSUME GuardInv, [G!Next]_G!vars
               PROVE  GuardInv'
    OBVIOUS
  <2>1. CASE UNCHANGED G!vars
    BY <2>1 DEF G!vars, GuardInv, GuardTypes, TracedInv, FirstScanInv, PassedInv, PassedAt, KeptInv
  <2> QED
    BY <2>1, StartInv, InputInv, RegisterInv, ReadTitleInv, ClarifiedInv, AskInv, ResumeInv, CommitInv,
       AnnounceInv, FixedInv, EndsInv DEF G!Next
<1> QED
  BY <1>1, <1>2, PTL DEF G!Spec

LEMMA ScansPart == G!Spec => []G!ScansAccounted
<1>1. ASSUME GuardInv
      PROVE  G!ScansAccounted
  <2>1. G!EveryScanCounted
    <3> SUFFICES ASSUME guarded.traced
                 PROVE  /\ Len(events) = Len(scanned)
                        /\ \A i \in DOMAIN events :
                             events[i] = CASE scanned[i] = {} -> "allowed"
                                           [] G!Blocked(scanned[i]) -> "blocked"
                                           [] OTHER -> "flagged"
      BY DEF G!EveryScanCounted
    <3>1. /\ Len(events) = Len(scanned) /\ events \in Seq(Actions)
          /\ \A i \in 1 .. Len(scanned) : events[i] = G!derive_guardrail_action(scanned[i])
      BY <1>1 DEF GuardInv, GuardTypes, TracedInv
    <3>2. ~G!Blocked({})
      BY DEF G!Blocked
    <3> QED
      BY <3>1, <3>2 DEF G!derive_guardrail_action
  <2>2. G!CodeNamesBlocker
    <3> SUFFICES ASSUME guarded.kind \in {"create", "approve", "run"}, guarded.pc = "failed",
                        Len(scanned) = 1, G!Blocked(shown.findings), guarded.traced
                 PROVE  /\ guarded.error = G!assert_prompt_safe(shown.findings)
                        /\ <<IF guarded.error = "PII_DETECTED" THEN "pii"
                             ELSE "prompt_injection", "high">> \in shown.findings
      BY DEF G!CodeNamesBlocker
    <3>1. guarded.error = G!enforce_prompt_scan(shown.findings)
      BY <1>1 DEF GuardInv, FirstScanInv
    <3>2. shown.findings \subseteq G!PromptRules
      BY <1>1 DEF GuardInv, GuardTypes
    <3>3. "prompt_injection" \in G!Categories(shown.findings)
            <=> <<"prompt_injection", "high">> \in shown.findings
      BY <3>2 DEF G!Categories, G!PromptRules
    <3>4. \/ <<"prompt_injection", "high">> \in shown.findings
          \/ <<"pii", "high">> \in shown.findings
      BY <3>2 DEF G!Blocked, G!PromptRules
    <3> QED
      BY <3>1, <3>3, <3>4 DEF G!enforce_prompt_scan, G!assert_prompt_safe
  <2> QED
    BY <2>1, <2>2 DEF G!ScansAccounted
<1> QED
  BY <1>1, GuardInvariant, PTL

LEMMA BlockedPart == G!Spec => []G!BlockedLeavesNothing
<1>1. ASSUME GuardInv
      PROVE  G!BlockedLeavesNothing
  <2>1. G!BlockedNeverCreated
    BY <1>1, OutputScans DEF GuardInv, GuardTypes, KeptInv, G!BlockedNeverCreated, G!None
  <2>2. G!CreatedIsAnnounced
    BY <1>1 DEF GuardInv, PassedInv, G!CreatedIsAnnounced, G!None
  <2>3. G!AskedIsPresentable
    BY <1>1, OutputScans DEF GuardInv, GuardTypes, Registrations, KeptInv, G!AskedIsPresentable, G!None
  <2>4. G!WorkflowRepliesPassed
    BY <1>1 DEF GuardInv, KeptInv, G!WorkflowRepliesPassed
  <2> QED
    BY <2>1, <2>2, <2>3, <2>4 DEF G!BlockedLeavesNothing
<1> QED
  BY <1>1, GuardInvariant, PTL

\* For every text and every sequence of requests about it, replays and a recorder that
\* raises included: each scan has left the event its findings call for, and the code that
\* _enforce_prompt_scan raises names a category that blocked.
THEOREM ScansAlwaysAccounted ==
  Spec => []ScansAccounted
<1> DEFINE followed == part = "guardrails"
<1>1. Init => (followed => G!Init)
  BY DEF Init
<1>2. [Next]_vars => (followed' <=> followed) /\ (followed => [G!Next]_G!vars)
  BY FlowApart
<1>3. (followed => G!ScansAccounted) => ScansAccounted
  BY DEF ScansAccounted
<1>4. G!Spec => []G!ScansAccounted
  BY ScansPart
<1> HIDE DEF followed
<1> QED
  BY <1>1, <1>2, <1>3, <1>4, PTL DEF Spec, G!Spec

\* For every text and title: no reminder exists whose notification would be stopped, what
\* is created is not answered with a block, a blocked text is never registered and a title
\* never approved that its question could not show, and the workflow's replies passed
\* their scan.
THEOREM BlockedAlwaysLeavesNothing ==
  Spec => []BlockedLeavesNothing
<1> DEFINE followed == part = "guardrails"
<1>1. Init => (followed => G!Init)
  BY DEF Init
<1>2. [Next]_vars => (followed' <=> followed) /\ (followed => [G!Next]_G!vars)
  BY FlowApart
<1>3. (followed => G!BlockedLeavesNothing) => BlockedLeavesNothing
  BY DEF BlockedLeavesNothing
<1>4. G!Spec => []G!BlockedLeavesNothing
  BY BlockedPart
<1> HIDE DEF followed
<1> QED
  BY <1>1, <1>2, <1>3, <1>4, PTL DEF Spec, G!Spec

-----------------------------------------------------------------------------
(* The router.                                                             *)
(*                                                                         *)
(* Until a message is answered nothing is stored for it, and the LLM has   *)
(* only been asked about a text without a slash; so what the LLM says can  *)
(* neither be a decision nor, when it is doubtful, change the answer.  A   *)
(* decision that is under way was asked for by a command, and is about an  *)
(* approval that is there: never the one of the message in hand.           *)

RoutedText ==
  [slash : BOOLEAN, word : R!Words \cup {"none"}, bot : BOOLEAN, rest : R!Rests,
   phrase : BOOLEAN, command : R!Words \cup {"none"}]

\* The message in hand: only a slash makes a command.
InHandInv ==
  (pc # "idle" \/ result # "none") =>
    /\ msg \in Messages
    /\ text \in RoutedText
    /\ text.command # "none" => text.slash /\ text.command = text.word

\* Nothing is stored for a message that has not been answered.
UntouchedInv ==
  /\ \A m \in inbox : approvals[m] = "none" /\ handed[m] = "none"
  /\ pc # "idle" => /\ result = "none" /\ msg \notin inbox
                    /\ approvals[msg] = "none" /\ handed[msg] = "none"
  /\ \A m \in Messages : approvals[m] # "none" => handed[m] # "none"

RoutedDecision ==
  [by : Messages, rest : Messages, slash : BOOLEAN, word : R!Words \cup {"none"},
   llm : R!LLMAnswers \cup {R!NotAsked}, verdict : {"approved", "cancelled"},
   at : {"mark", "update"}]

Verb(verdict) == IF verdict = "approved" THEN "aprobar" ELSE "cancelar"

\* A decision under way: which command asked for it, and of what.
DecidingInv ==
  \A d \in deciding :
    /\ d.slash /\ d.llm = R!NotAsked /\ R!BeginsWith(d.word, Verb(d.verdict))
    /\ approvals[d.rest] # "none"

\* What the LLM was asked, and how sure it was.
AskedInv ==
  /\ pc \in {"command", "infer"} => llm = R!NotAsked /\ traces = <<>>
  /\ pc \in {"infer", "intent"} => ~text.slash
  /\ pc = "intent" => R!Accepted(llm)
  /\ pc = "rules" => llm = R!NotAsked \/ (~text.slash /\ ~R!Accepted(llm))

RouterInv ==
  /\ R!TypeOK /\ InHandInv /\ UntouchedInv /\ DecidingInv /\ AskedInv
  /\ R!DoubtChangesNothing /\ R!RemindersHaveText

\* A message is answered: what is stored for it has a text, and the answer is cautious.
LEMMA AnsweredInv ==
  ASSUME RouterInv, pc # "idle", pc' = "idle", result' \in R!Kinds \cup {"raised"},
         UNCHANGED <<inbox, msg, text, llm>>, Len(traces') <= 1,
         approvals' \in [Messages -> {"none", "pending", "approved", "cancelled"}],
         handed' \in [Messages -> {"none", "all", "inferred"} \cup R!Rests],
         \A m \in inbox : approvals'[m] = "none" /\ handed'[m] = "none",
         \A m \in Messages : approvals'[m] # "none" => handed'[m] # "none",
         deciding' \subseteq RoutedDecision, DecidingInv',
         R!DoubtChangesNothing', R!RemindersHaveText'
  PROVE  RouterInv'
<1>1. R!TypeOK'
  BY DEF RouterInv, R!TypeOK, R!None, RoutedDecision
<1>2. InHandInv'
  BY DEF RouterInv, InHandInv
<1>3. UntouchedInv'
  BY DEF RouterInv, UntouchedInv
<1>4. AskedInv'
  BY DEF AskedInv
<1> QED
  BY <1>1, <1>2, <1>3, <1>4 DEF RouterInv

\* An answer that stores nothing.
LEMMA AnsweredWithoutInv ==
  ASSUME RouterInv, pc # "idle", NEW aim \in R!Kinds \cup {"raised"}, R!Finish(aim),
         UNCHANGED <<inbox, msg, text, llm, approvals, deciding, handed>>, Len(traces') <= 1,
         aim # "reminder.create",
         llm # R!NotAsked /\ llm.confidence < R!Threshold /\ aim \in R!Kinds =>
           aim = IF text.phrase THEN "reminder.create" ELSE "unsupported"
  PROVE  RouterInv'
<1>1. /\ pc' = "idle" /\ result' = aim
      /\ approvals' = approvals /\ handed' = handed
  BY DEF R!Finish
<1>2. R!DoubtChangesNothing' /\ R!RemindersHaveText'
  BY <1>1 DEF R!DoubtChangesNothing, R!RemindersHaveText
<1>3. deciding' \subseteq RoutedDecision /\ DecidingInv'
  BY DEF RouterInv, R!TypeOK, R!None, RoutedDecision, DecidingInv
<1> QED
  BY <1>1, <1>2, <1>3, AnsweredInv DEF RouterInv, R!TypeOK, UntouchedInv, R!None

\* _create_reminder, from a text that is empty only where nothing follows the slash word.
LEMMA CreateReminderInv ==
  ASSUME RouterInv, pc # "idle", NEW t \in {"none", "all", "inferred"} \cup R!Rests,
         R!_create_reminder(t), UNCHANGED <<inbox, msg, text, llm, deciding>>, Len(traces') <= 1,
         t = "none" => text.slash /\ text.rest = "none",
         llm # R!NotAsked /\ llm.confidence < R!Threshold => text.phrase
  PROVE  RouterInv'
<1>1. /\ pc' = "idle" /\ result' = "reminder.create" /\ msg \in Messages \ inbox
      /\ approvals[msg] = "none" /\ handed[msg] = "none" /\ inbox \subseteq Messages
      /\ approvals \in [Messages -> {"none", "pending", "approved", "cancelled"}]
      /\ handed \in [Messages -> {"none", "all", "inferred"} \cup R!Rests]
  BY DEF RouterInv, R!TypeOK, R!None, InHandInv, UntouchedInv, R!_create_reminder, R!Finish
<1>2. R!DoubtChangesNothing'
  BY <1>1 DEF R!DoubtChangesNothing
<1>5. deciding' \subseteq RoutedDecision /\ deciding' = deciding
  BY DEF RouterInv, R!TypeOK, R!None, RoutedDecision
<1>3. CASE t = "none"
  <2>1. approvals' = approvals /\ handed' = handed
    BY <1>3 DEF R!_create_reminder, R!None
  <2>2. R!RemindersHaveText'
    BY <1>1, <1>3, <2>1 DEF R!RemindersHaveText, R!None
  <2>3. DecidingInv'
    BY <1>5, <2>1 DEF RouterInv, DecidingInv
  <2> QED
    BY <1>1, <1>2, <1>5, <2>1, <2>2, <2>3, AnsweredInv DEF RouterInv, UntouchedInv, R!Kinds
<1>4. CASE t # "none"
  <2>1. /\ handed' = [handed EXCEPT ![msg] = t]
        /\ approvals' = [approvals EXCEPT ![msg] = "pending"] \/ approvals' = approvals
    BY <1>4 DEF R!_create_reminder, R!None
  <2>2. /\ approvals' \in [Messages -> {"none", "pending", "approved", "cancelled"}]
        /\ handed' \in [Messages -> {"none", "all", "inferred"} \cup R!Rests]
        /\ handed'[msg] = t
        /\ \A m \in Messages \ {msg} : approvals'[m] = approvals[m] /\ handed'[m] = handed[m]
    BY <1>1, <2>1
  <2>3. R!RemindersHaveText'
    BY <1>4, <2>2 DEF R!RemindersHaveText, R!None
  <2>4. \A m \in inbox : approvals'[m] = "none" /\ handed'[m] = "none"
    BY <1>1, <2>2 DEF RouterInv, UntouchedInv
  <2>5. \A m \in Messages : approvals'[m] # "none" => handed'[m] # "none"
    BY <1>4, <2>2 DEF RouterInv, UntouchedInv
  <2>6. DecidingInv'
    <3>1. \A m \in Messages : approvals[m] # "none" => approvals'[m] # "none"
      BY <1>1, <2>2
    <3> QED
      BY <1>5, <3>1 DEF RouterInv, DecidingInv, RoutedDecision
  <2> QED
    BY <1>1, <1>2, <1>5, <2>2, <2>3, <2>4, <2>5, <2>6, AnsweredInv DEF R!Kinds
<1> QED
  BY <1>3, <1>4

LEMMA RouterInitial == R!Init => RouterInv
<1> SUFFICES ASSUME R!Init PROVE RouterInv
  OBVIOUS
<1> QED
  BY DEF R!Init, RouterInv, R!TypeOK, R!None, R!NotAsked, R!LLMAnswers, R!Rests, InHandInv,
         UntouchedInv, DecidingInv, AskedInv, R!DoubtChangesNothing, R!RemindersHaveText, R!Kinds

LEMMA TextIsRouted ==
  ASSUME NEW slash \in BOOLEAN, NEW word \in R!Words \cup {"none"}, NEW bot \in BOOLEAN,
         NEW rest \in R!Rests, NEW phrase \in BOOLEAN, NEW command \in R!Words \cup {"none"}
  PROVE  [slash |-> slash, word |-> word, bot |-> bot, rest |-> rest,
          phrase |-> phrase, command |-> command] \in RoutedText
  BY Zenon DEF RoutedText

LEMMA ReceiveInv ==
  ASSUME RouterInv, NEW m \in Messages, R!Receive(m)
  PROVE  RouterInv'
<1>1. PICK t \in R!Texts, parsed \in BOOLEAN :
        text' = [slash |-> t.slash, word |-> t.word, bot |-> t.bot, rest |-> t.rest,
                 phrase |-> t.phrase, command |-> R!_parse_command(t, parsed)]
  BY DEF R!Receive
<1>2. /\ t.slash \in BOOLEAN /\ t.word \in R!Words \cup {"none"} /\ t.bot \in BOOLEAN
      /\ t.rest \in R!Rests /\ t.phrase \in BOOLEAN
  BY DEF R!Texts, R!SlashTexts, R!FreeTexts, R!None
<1>3. R!_parse_command(t, parsed) \in {t.word, "none"}
  BY DEF R!_parse_command, R!None
<1>4. R!_parse_command(t, parsed) # "none" => t.slash
  BY DEF R!_parse_command, R!None
<1>5. text' \in RoutedText
  <2> DEFINE command == R!_parse_command(t, parsed)
  <2>1. command \in R!Words \cup {"none"}
    BY <1>2, <1>3
  <2> HIDE DEF command
  <2>2. [slash |-> t.slash, word |-> t.word, bot |-> t.bot, rest |-> t.rest,
         phrase |-> t.phrase, command |-> command] \in RoutedText
    BY <1>2, <2>1, TextIsRouted
  <2> QED
    BY <1>1, <2>2 DEF command
<1>6. InHandInv'
  BY <1>1, <1>3, <1>4, <1>5 DEF R!Receive, InHandInv
<1>7. R!TypeOK'
  BY DEF R!Receive, RouterInv, R!TypeOK, R!None
<1>8. UntouchedInv' /\ DecidingInv'
  BY DEF R!Receive, RouterInv, UntouchedInv, DecidingInv, R!TypeOK, R!None
<1>9. AskedInv' /\ R!DoubtChangesNothing' /\ R!RemindersHaveText'
  BY DEF R!Receive, AskedInv, R!DoubtChangesNothing, R!RemindersHaveText
<1> QED
  BY <1>6, <1>7, <1>8, <1>9 DEF RouterInv

\* A step between the command and the answer stores nothing.
LEMMA UnansweredInv ==
  ASSUME RouterInv, pc # "idle", pc' \in {"infer", "intent", "rules"},
         UNCHANGED <<inbox, msg, text, result, approvals, deciding, handed>>,
         llm' \in R!LLMAnswers \cup {R!NotAsked}, Len(traces') <= 1, AskedInv'
  PROVE  RouterInv'
<1>1. R!TypeOK'
  BY DEF RouterInv, R!TypeOK, R!None
<1>2. InHandInv' /\ UntouchedInv' /\ DecidingInv'
  BY DEF RouterInv, InHandInv, UntouchedInv, DecidingInv
<1>3. R!DoubtChangesNothing' /\ R!RemindersHaveText'
  BY DEF R!DoubtChangesNothing, R!RemindersHaveText
<1> QED
  BY <1>1, <1>2, <1>3 DEF RouterInv

LEMMA QueryInv ==
  ASSUME RouterInv, R!Query
  PROVE  RouterInv'
<1>1. PICK q \in R!Queries : R!Finish(q[2])
  BY DEF R!Query
<1>2. q[2] \in R!Kinds \ {"reminder.create"}
  BY DEF R!Queries, R!Kinds
<1>3. llm = R!NotAsked /\ Len(traces') <= 1
  BY DEF RouterInv, R!TypeOK, AskedInv, R!Query
<1> QED
  BY <1>1, <1>2, <1>3, AnsweredWithoutInv DEF R!Query

\* What /aprobar and /cancelar look at: a text that begins with the command has
\* a slash, since only a slash makes a command.
LEMMA BeginsNamesCommand ==
  ASSUME RouterInv, pc = "command", NEW w \in {"aprobar", "cancelar"}, R!Begins(w)
  PROVE  text.slash /\ R!BeginsWith(text.word, w) /\ llm = R!NotAsked
<1>1. llm = R!NotAsked
  BY DEF RouterInv, AskedInv
<1>2. CASE text.command = w
  <2>1. text.slash /\ text.word = w
    BY <1>2 DEF RouterInv, InHandInv
  <2> QED
    BY <1>1, <2>1 DEF R!BeginsWith
<1>3. CASE text.slash /\ R!BeginsWith(text.word, w)
  BY <1>1, <1>3
<1> QED
  BY <1>2, <1>3 DEF R!Begins

\* /aprobar and /cancelar: a decision on a pending approval gets under way.
LEMMA DecisionInv ==
  ASSUME RouterInv, pc = "command", NEW verdict \in {"approved", "cancelled"},
         NEW stage \in {"mark", "update"}, NEW aim \in {"approve", "cancel"}, R!Finish(aim),
         R!Begins(Verb(verdict)), R!Decide(verdict, stage),
         UNCHANGED <<inbox, msg, text, llm, approvals, handed, traces>>
  PROVE  RouterInv'
<1>1. /\ pc' = "idle" /\ result' = aim /\ llm = R!NotAsked /\ approvals' = approvals
      /\ handed' = handed /\ Len(traces') <= 1
  BY DEF R!Finish, RouterInv, AskedInv, R!TypeOK
<1>2. text.slash /\ R!BeginsWith(text.word, Verb(verdict)) /\ llm = R!NotAsked
  BY BeginsNamesCommand DEF Verb
<1>3. msg \in Messages /\ text.word \in R!Words \cup {"none"} /\ text.slash \in BOOLEAN
  BY DEF RouterInv, InHandInv, RoutedText
<1>4. deciding \subseteq RoutedDecision /\ DecidingInv
  BY DEF RouterInv, R!TypeOK, R!None, RoutedDecision
<1>5. CASE text.rest \in Messages /\ approvals[text.rest] = "pending"
  <2>1. PICK d : d = R!Decision(verdict, stage)
    OBVIOUS
  <2>2. /\ d \in RoutedDecision /\ d.slash = text.slash /\ d.llm = llm /\ d.word = text.word
        /\ d.verdict = verdict /\ d.rest = text.rest
    BY <1>2, <1>3, <1>5, <2>1 DEF R!Decision, RoutedDecision
  <2>3. deciding' = deciding \cup {d}
    BY <1>5, <2>1 DEF R!Decide
  <2>4. deciding' \subseteq RoutedDecision
    BY <1>4, <2>2, <2>3
  <2>5. DecidingInv'
    BY <1>1, <1>2, <1>4, <1>5, <2>2, <2>3 DEF DecidingInv
  <2>6. R!DoubtChangesNothing' /\ R!RemindersHaveText'
    BY <1>1 DEF R!DoubtChangesNothing, R!RemindersHaveText
  <2> QED
    BY <1>1, <2>4, <2>5, <2>6, AnsweredInv DEF RouterInv, R!TypeOK, UntouchedInv, R!None, R!Kinds
<1>6. CASE ~(text.rest \in Messages /\ approvals[text.rest] = "pending")
  <2>1. deciding' = deciding /\ aim \in R!Kinds /\ aim # "reminder.create"
    BY <1>6 DEF R!Decide, R!Kinds
  <2> QED
    BY <1>1, <2>1, AnsweredWithoutInv
<1> QED
  BY <1>5, <1>6

\* The approval store goes on with a decision.
LEMMA StoreInv ==
  ASSUME RouterInv, NEW d \in deciding,
         R!mark_approved(d) \/ R!_update_status(d) \/ R!DecisionFails(d)
  PROVE  RouterInv'
<1>1. /\ UNCHANGED <<inbox, msg, text, pc, llm, result, handed, traces>>
      /\ deciding \subseteq RoutedDecision /\ d \in RoutedDecision
      /\ approvals \in [Messages -> {"none", "pending", "approved", "cancelled"}]
  BY DEF R!mark_approved, R!_update_status, R!DecisionFails, RouterInv, R!TypeOK, R!None,
     RoutedDecision
<1>2. d.rest \in Messages /\ d.verdict \in {"approved", "cancelled"} /\ approvals[d.rest] # "none"
  BY <1>1 DEF RouterInv, DecidingInv, RoutedDecision
<1>3. /\ approvals' \in [Messages -> {"none", "pending", "approved", "cancelled"}]
      /\ \A m \in Messages : approvals'[m] = "none" <=> approvals[m] = "none"
  <2>1. approvals' = approvals \/ approvals' = [approvals EXCEPT ![d.rest] = d.verdict]
    BY DEF R!mark_approved, R!_update_status, R!DecisionFails
  <2> QED
    BY <1>1, <1>2, <2>1
<1>4. \E e \in RoutedDecision :
        /\ deciding' \subseteq (deciding \ {d}) \cup {e}
        /\ e.slash = d.slash /\ e.llm = d.llm /\ e.word = d.word
        /\ e.verdict = d.verdict /\ e.rest = d.rest
  <2>1. PICK e : e = [d EXCEPT !.at = "update"]
    OBVIOUS
  <2>2. /\ e \in RoutedDecision /\ e.slash = d.slash /\ e.llm = d.llm /\ e.word = d.word
        /\ e.verdict = d.verdict /\ e.rest = d.rest
    BY <1>1, <2>1 DEF RoutedDecision
  <2>3. deciding' \subseteq (deciding \ {d}) \cup {e}
    BY <2>1 DEF R!mark_approved, R!_update_status, R!DecisionFails
  <2> QED
    BY <2>2, <2>3
<1>5. deciding' \subseteq RoutedDecision /\ DecidingInv'
  <2>1. PICK e \in RoutedDecision :
          /\ deciding' \subseteq (deciding \ {d}) \cup {e}
          /\ e.slash = d.slash /\ e.llm = d.llm /\ e.word = d.word
          /\ e.verdict = d.verdict /\ e.rest = d.rest
    BY <1>4
  <2>2. \A x \in deciding' : x \in deciding \/ x = e
    BY <2>1
  <2>3. \A x \in deciding' : x.rest \in Messages
    BY <1>1, <2>2 DEF RoutedDecision
  <2> QED
    BY <1>1, <1>3, <2>1, <2>2, <2>3 DEF RouterInv, DecidingInv
<1>6. R!TypeOK'
  BY <1>1, <1>3, <1>5 DEF RouterInv, R!TypeOK, R!None, RoutedDecision
<1>7. InHandInv' /\ AskedInv' /\ R!DoubtChangesNothing'
  BY <1>1 DEF RouterInv, InHandInv, AskedInv, R!DoubtChangesNothing
<1>8. UntouchedInv'
  BY <1>1, <1>3 DEF RouterInv, UntouchedInv, R!TypeOK, InHandInv
<1>9. R!RemindersHaveText'
  BY <1>1, <1>3 DEF RouterInv, R!RemindersHaveText, R!None, InHandInv
<1> QED
  BY <1>5, <1>6, <1>7, <1>8, <1>9 DEF RouterInv

LEMMA RemindInv ==
  ASSUME RouterInv, R!Remind
  PROVE  RouterInv'
<1>1. /\ llm = R!NotAsked /\ Len(traces') <= 1 /\ pc # "idle"
      /\ text.slash /\ text.rest \in R!Rests
  BY DEF RouterInv, AskedInv, R!TypeOK, R!Remind, InHandInv, RoutedText
<1> QED
  BY <1>1, CreateReminderInv DEF R!Remind

LEMMA UnmatchedInv ==
  ASSUME RouterInv, R!Unmatched
  PROVE  RouterInv'
<1>1. AskedInv' /\ pc' \in {"infer", "rules"}
  BY DEF R!Unmatched, RouterInv, AskedInv
<1> QED
  BY <1>1, UnansweredInv DEF R!Unmatched, RouterInv, R!TypeOK

LEMMA InferInv ==
  ASSUME RouterInv, R!Infer
  PROVE  RouterInv'
<1>1. PICK a \in R!LLMAnswers :
        /\ llm' = a
        /\ traces' = Append(traces, IF a = R!Raises THEN "agent.failed" ELSE "llm.called")
        /\ pc' = IF R!Accepted(a) THEN "intent" ELSE "rules"
  BY DEF R!Infer
<1>2. traces = <<>> /\ pc = "infer" /\ ~text.slash
  BY DEF R!Infer, RouterInv, AskedInv
<1>3. Len(traces') <= 1
  BY <1>1, <1>2
<1>4. AskedInv' /\ pc' \in {"intent", "rules"}
  BY <1>1, <1>2 DEF R!Infer, AskedInv, R!Accepted
<1> QED
  BY <1>1, <1>2, <1>3, <1>4, UnansweredInv DEF R!Infer

\* An accepted intent is no doubtful one: it may move the message.
LEMMA HandleIntentInv ==
  ASSUME R!ConfidenceAssumption, RouterInv, R!HandleIntent
  PROVE  RouterInv'
<1>1. /\ pc = "intent" /\ llm.confidence >= R!Threshold /\ Len(traces') <= 1
      /\ llm \in R!LLMAnswers \cup {R!NotAsked}
  BY DEF R!HandleIntent, RouterInv, AskedInv, R!Accepted, R!TypeOK
<1>2. llm.confidence \in Nat
  <2>1. R!Raises.confidence \in Nat /\ R!NotAsked.confidence \in Nat
    BY DEF R!Raises, R!NotAsked
  <2>2. CASE llm \in {R!Raises, R!NotAsked}
    BY <2>1, <2>2
  <2>3. CASE llm \in [kind : R!Kinds, confidence : Confidences, text : BOOLEAN]
    BY <2>3 DEF R!ConfidenceAssumption
  <2> QED
    BY <1>1, <2>2, <2>3 DEF R!LLMAnswers
<1>3. ~(llm.confidence < R!Threshold)
  BY <1>1, <1>2 DEF R!Threshold
<1>4. CASE llm.kind = "reminder.create" /\ llm.text
  BY <1>1, <1>3, <1>4, CreateReminderInv DEF R!HandleIntent
<1>5. CASE ~(llm.kind = "reminder.create" /\ llm.text)
  <2> DEFINE aim == IF llm.kind \in R!InferredQueries THEN llm.kind ELSE "unsupported"
  <2>1. aim \in R!Kinds \ {"reminder.create"}
    BY DEF R!InferredQueries, R!Kinds
  <2>2. R!Finish(aim) /\ UNCHANGED <<inbox, msg, text, llm, approvals, deciding, handed>>
    BY <1>5 DEF R!HandleIntent
  <2> HIDE DEF aim
  <2> QED
    BY <1>1, <1>3, <2>1, <2>2, AnsweredWithoutInv
<1> QED
  BY <1>4, <1>5

LEMMA RulesInv ==
  ASSUME RouterInv, R!Rules
  PROVE  RouterInv'
<1>1. /\ pc = "rules" /\ Len(traces') <= 1 /\ text.rest \in R!Rests
      /\ llm = R!NotAsked \/ ~text.slash
      /\ UNCHANGED <<inbox, msg, text, llm, deciding>>
  BY DEF R!Rules, RouterInv, AskedInv, R!TypeOK, InHandInv, RoutedText
<1>2. CASE R!_looks_like_reminder(text)
  <2> DEFINE t == R!_extract_reminder_text(text)
  <2>1. R!_create_reminder(t)
    BY <1>2 DEF R!Rules
  <2>2. t \in {"none", "all", "inferred"} \cup R!Rests
    BY <1>1 DEF R!_extract_reminder_text
  <2>3. t = "none" => text.slash /\ text.rest = "none"
    BY DEF R!_extract_reminder_text
  <2>4. llm # R!NotAsked => text.phrase
    BY <1>1, <1>2 DEF R!_looks_like_reminder
  <2> HIDE DEF t
  <2> QED
    BY <1>1, <2>1, <2>2, <2>3, <2>4, CreateReminderInv
<1>3. CASE ~R!_looks_like_reminder(text)
  <2>1. R!Finish("unsupported") /\ UNCHANGED <<approvals, handed>> /\ ~text.phrase
    BY <1>3 DEF R!Rules, R!_looks_like_reminder
  <2> QED
    BY <1>1, <2>1, AnsweredWithoutInv DEF R!Kinds
<1> QED
  BY <1>2, <1>3

LEMMA RouterStep ==
  ASSUME R!ConfidenceAssumption, RouterInv, R!Next
  PROVE  RouterInv'
<1>1. ASSUME NEW m \in Messages, R!Receive(m) PROVE RouterInv'
  BY <1>1, ReceiveInv
<1>2. CASE R!Query
  BY <1>2, QueryInv
<1>3. CASE R!Approve
  BY <1>3, DecisionInv DEF R!Approve, Verb
<1>4. CASE R!Cancel
  BY <1>4, DecisionInv DEF R!Cancel, Verb
<1>5. CASE R!Remind
  BY <1>5, RemindInv
<1>6. CASE R!Unmatched
  BY <1>6, UnmatchedInv
<1>7. CASE R!Infer
  BY <1>7, InferInv
<1>8. CASE R!HandleIntent
  BY <1>8, HandleIntentInv
<1>9. CASE R!Rules
  BY <1>9, RulesInv
<1>10. CASE R!Raise
  <2>1. R!Finish("raised") /\ Len(traces') <= 1 /\ "raised" \notin R!Kinds
    BY <1>10 DEF R!Raise, R!Finish, R!Kinds, RouterInv, R!TypeOK
  <2> QED
    BY <1>10, <2>1, AnsweredWithoutInv DEF R!Raise
<1>11. ASSUME NEW d \in deciding, R!mark_approved(d) \/ R!_update_status(d) \/ R!DecisionFails(d)
       PROVE  RouterInv'
  BY <1>11, StoreInv
<1> QED
  BY <1>1, <1>2, <1>3, <1>4, <1>5, <1>6, <1>7, <1>8, <1>9, <1>10, <1>11 DEF R!Next

LEMMA RouterInvariant ==
  ASSUME R!ConfidenceAssumption
  PROVE  R!Spec => []RouterInv
<1>1. ASSUME RouterInv, UNCHANGED R!vars PROVE RouterInv'
  BY <1>1 DEF R!vars, RouterInv, R!TypeOK, InHandInv, UntouchedInv, DecidingInv, AskedInv,
              R!DoubtChangesNothing, R!RemindersHaveText
<1> QED
  BY <1>1, RouterInitial, RouterStep, PTL DEF R!Spec

LEMMA RoutingPart ==
  ASSUME R!ConfidenceAssumption
  PROVE  R!Spec => []R!RoutingCautious
<1>1. RouterInv => R!RoutingCautious
  BY DEF RouterInv, R!RoutingCautious
<1> QED
  BY <1>1, RouterInvariant, PTL

\* Only the store's update changes an approval that is there.
LEMMA OtherStepsDecideNothing ==
  ASSUME RouterInv, R!Next, \A d \in deciding : ~R!_update_status(d)
  PROVE  \A m \in Messages : approvals'[m] = approvals[m] \/ approvals[m] = "none"
<1>1. approvals \in [Messages -> {"none", "pending", "approved", "cancelled"}]
  BY DEF RouterInv, R!TypeOK, R!None
<1>2. pc # "idle" => msg \in Messages /\ approvals[msg] = "none"
  BY DEF RouterInv, InHandInv, UntouchedInv
<1>3. ASSUME NEW t, R!_create_reminder(t), pc # "idle"
      PROVE  \A m \in Messages : approvals'[m] = approvals[m] \/ approvals[m] = "none"
  BY <1>1, <1>2, <1>3 DEF R!_create_reminder
<1>4. CASE R!Remind
  BY <1>3, <1>4 DEF R!Remind
<1>5. CASE R!HandleIntent
  BY <1>3, <1>5 DEF R!HandleIntent
<1>6. CASE R!Rules
  BY <1>3, <1>6 DEF R!Rules
<1>7. CASE \/ \E m \in Messages : R!Receive(m)
           \/ R!Query \/ R!Approve \/ R!Cancel \/ R!Unmatched \/ R!Infer \/ R!Raise
           \/ \E d \in deciding : R!mark_approved(d) \/ R!DecisionFails(d)
  BY <1>7 DEF R!Receive, R!Query, R!Approve, R!Cancel, R!Unmatched, R!Infer, R!Raise,
     R!mark_approved, R!DecisionFails
<1> QED
  BY <1>4, <1>5, <1>6, <1>7 DEF R!Next

\* A request reaches the update only by finding the approval pending.
LEMMA UpdatesFollowPending ==
  ASSUME RouterInv, R!Next, NEW m \in Messages, approvals[m] \in {"approved", "cancelled"}
  PROVE  R!Updating(m)' \subseteq R!Updating(m)
<1>1. CASE deciding' \subseteq deciding
  BY <1>1 DEF R!Updating
<1>2. CASE R!Approve \/ R!Cancel
  <2>1. PICK verdict, stage : R!Decide(verdict, stage)
    BY <1>2 DEF R!Approve, R!Cancel
  <2>2. R!Decision(verdict, stage).rest = text.rest
    BY DEF R!Decision
  <2>3. \A d \in deciding' : d \in deciding \/ (d.rest = text.rest /\ approvals[text.rest] = "pending")
    BY <2>1, <2>2 DEF R!Decide
  <2> QED
    BY <2>3 DEF R!Updating
<1>3. ASSUME NEW d \in deciding, R!mark_approved(d) PROVE R!Updating(m)' \subseteq R!Updating(m)
  <2>1. PICK e : e = [d EXCEPT !.at = "update"]
    OBVIOUS
  <2>2. e.rest = d.rest
    BY <2>1 DEF RouterInv, R!TypeOK
  <2>3. \A x \in deciding' : x \in deciding \/ (x = e /\ approvals[d.rest] = "pending")
    BY <1>3, <2>1 DEF R!mark_approved
  <2> QED
    BY <2>2, <2>3 DEF R!Updating
<1>4. CASE \/ \E n \in Messages : R!Receive(n)
           \/ R!Query \/ R!Remind \/ R!Unmatched \/ R!Infer \/ R!HandleIntent \/ R!Rules \/ R!Raise
           \/ \E d \in deciding : R!_update_status(d) \/ R!DecisionFails(d)
  BY <1>1, <1>4 DEF R!Receive, R!Query, R!Remind, R!Unmatched, R!Infer, R!HandleIntent, R!Rules,
     R!Raise, R!_update_status, R!DecisionFails
<1> QED
  BY <1>2, <1>3, <1>4 DEF R!Next

LEMMA DecisionsPart ==
  ASSUME R!ConfidenceAssumption
  PROVE  R!Spec => R!OnlyCommandsDecide
<1>1. ASSUME RouterInv, R!Next
      PROVE  R!DecidedByCommand /\ R!DecisionsKept
  <2>1. approvals \in [Messages -> {"none", "pending", "approved", "cancelled"}]
    BY <1>1 DEF RouterInv, R!TypeOK, R!None
  <2>2. \A m \in Messages : approvals'[m] # "none" => handed'[m] # "none"
    BY <1>1, RouterStep DEF RouterInv, UntouchedInv
  <2>3. \A m \in Messages : approvals[m] \in {"approved", "cancelled"} =>
          R!Updating(m)' \subseteq R!Updating(m)
    BY <1>1, UpdatesFollowPending
  <2>4. ASSUME NEW d \in deciding, R!_update_status(d)
        PROVE  R!DecidedByCommand /\ R!DecisionsKept
    <3>1. /\ d.slash /\ d.llm = R!NotAsked /\ R!BeginsWith(d.word, Verb(d.verdict))
          /\ d.rest \in Messages /\ d.verdict \in {"approved", "cancelled"}
      BY <1>1 DEF RouterInv, R!TypeOK, DecidingInv
    <3>2. /\ d.at = "update" /\ d \in deciding \ deciding'
          /\ approvals'[d.rest] = d.verdict
          /\ \A m \in Messages : m # d.rest => approvals'[m] = approvals[m]
      BY <2>1, <2>4, <3>1 DEF R!_update_status
    <3>3. \A m \in Messages : approvals'[m] # approvals[m] =>
            m = d.rest /\ d \in R!Updating(m)
      BY <3>2 DEF R!Updating
    <3>4. R!DecisionsKept
      BY <2>2, <2>3, <3>3 DEF R!DecisionsKept, R!None
    <3>5. R!DecidedByCommand
      BY <3>1, <3>2, <3>3 DEF R!DecidedByCommand, Verb
    <3> QED
      BY <3>4, <3>5
  <2>5. CASE \A d \in deciding : ~R!_update_status(d)
    <3>1. \A m \in Messages : approvals'[m] = approvals[m] \/ approvals[m] = "none"
      BY <1>1, <2>5, OtherStepsDecideNothing
    <3> QED
      BY <2>2, <2>3, <3>1 DEF R!DecidedByCommand, R!DecisionsKept, R!None
  <2> QED
    BY <2>4, <2>5
<1> QED
  BY <1>1, RouterInvariant, PTL DEF R!Spec, R!OnlyCommandsDecide

\* ConversationCommandService.handle: for any messages and any confidences of
\* the LLM, a doubtful or failing LLM leaves the answer the phrases alone give,
\* and a message answered as a reminder has its text in the workflow.
THEOREM RoutingAlwaysCautious ==
  ASSUME R!ConfidenceAssumption
  PROVE  Spec => []RoutingCautious
<1> DEFINE followed == part = "router"
<1>1. Init => (followed => R!Init)
  BY DEF Init
<1>2. [Next]_vars => (followed' <=> followed) /\ (followed => [R!Next]_R!vars)
  BY FlowApart
<1>3. (followed => R!RoutingCautious) => RoutingCautious
  BY DEF RoutingCautious
<1>4. R!Spec => []R!RoutingCautious
  BY RoutingPart
<1> HIDE DEF followed
<1> QED
  BY <1>1, <1>2, <1>3, <1>4, PTL DEF Spec, R!Spec

\* "Calendar writes still require `/aprobar <id>`": for any messages and
\* whatever the LLM answers, an approval is decided only by a message that
\* begins with a slash, names the decision and names the approval; a decision
\* is overturned only by a request that had found the approval pending before,
\* and an approval exists only for a text that went to the workflow.
THEOREM OnlyCommandsEverDecide ==
  ASSUME R!ConfidenceAssumption
  PROVE  Spec => OnlyCommandsDecide
<1> DEFINE followed == part = "router"
           decided == R!DecidedByCommand /\ R!DecisionsKept
<1>1. Init => (followed => R!Init)
  BY DEF Init
<1>2. [Next]_vars => (followed' <=> followed) /\ (followed => [R!Next]_R!vars)
  BY FlowApart
<1>3. [Next]_vars /\ (followed => [decided]_R!vars) => [followed => decided]_vars
  <2> SUFFICES ASSUME [Next]_vars, followed, [decided]_R!vars, ~ UNCHANGED vars
               PROVE  decided
    OBVIOUS
  <2>1. ~ UNCHANGED R!vars
    BY DEF Next, vars, routerVars, parserVars, guardVars, R!vars
  <2> QED
    BY <2>1
<1>4. R!Spec => [][decided]_R!vars
  BY DecisionsPart DEF R!OnlyCommandsDecide
<1>5. [followed => decided]_vars
        <=> [part = "router" => R!DecidedByCommand /\ R!DecisionsKept]_vars
  OBVIOUS
<1> HIDE DEF followed, decided
<1> QED
  BY <1>1, <1>2, <1>3, <1>4, <1>5, PTL DEF Spec, R!Spec, OnlyCommandsDecide

-----------------------------------------------------------------------------
(* The parser.                                                             *)
(*                                                                         *)
(* What the conversions of zoneinfo find are the instants that show a      *)
(* local time: one, none in a gap, two in a repeated hour.  A local time   *)
(* ahead of the clock that only one instant shows is ahead of that clock's *)
(* instant too, and the nearest local time gives the nearest instant.      *)

ParserAssumed ==
  Parser!CalendarAssumption /\ Parser!ReachAssumption /\ Parser!TextAssumption

\* A zone's numbers, whatever else its record holds.
Clockwork(z) == z.change \in Int /\ z.before \in Int /\ z.after \in Int

LEMMA OfTwo ==
  ASSUME NEW a \in Int, NEW b \in Int
  PROVE  /\ Parser!Min({a, b}) = (IF a <= b THEN a ELSE b)
         /\ Parser!Max({a, b}) = (IF a >= b THEN a ELSE b)
<1>1. \E x \in {a, b} : \A y \in {a, b} : x =< y
  OBVIOUS
<1>2. \E x \in {a, b} : \A y \in {a, b} : x >= y
  OBVIOUS
<1> QED
  BY <1>1, <1>2 DEF Parser!Min, Parser!Max

\* _utc_candidates finds exactly the instants that show the local time.
LEMMA CandidatesShow ==
  ASSUME NEW z, Clockwork(z), NEW local \in Int, NEW u
  PROVE  u \in Parser!_utc_candidates(z, local) <=> u \in Int /\ Parser!Local(z, u) = local
<1> USE DEF Clockwork
<1>1. /\ Parser!Min({z.before, z.after}) = (IF z.before <= z.after THEN z.before ELSE z.after)
      /\ Parser!Max({z.before, z.after}) = (IF z.before >= z.after THEN z.before ELSE z.after)
  BY OfTwo
<1>2. ASSUME NEW fold \in {0, 1}
      PROVE  Parser!OffsetOf(z, local, fold)
               = IF local < z.change + z.before /\ (local < z.change + z.after \/ fold = 0)
                 THEN z.before
                 ELSE IF local >= z.change + z.before /\ local >= z.change + z.after
                 THEN z.after
                 ELSE IF fold = 0 THEN z.before ELSE z.after
  BY <1>1 DEF Parser!OffsetOf
<1>3. ASSUME u \in Parser!_utc_candidates(z, local)
      PROVE  u \in Int /\ Parser!Local(z, u) = local
  <2>1. PICK fold \in {0, 1} : u = local - Parser!OffsetOf(z, local, fold) /\ Parser!Local(z, u) = local
    BY <1>3 DEF Parser!_utc_candidates
  <2> QED
    BY <1>2, <2>1
<1>4. ASSUME u \in Int, Parser!Local(z, u) = local
      PROVE  u \in Parser!_utc_candidates(z, local)
  <2>1. CASE u < z.change
    <3>1. u = local - z.before /\ local < z.change + z.before
      BY <1>4, <2>1 DEF Parser!Local, Parser!Offset
    <3>2. Parser!Fold(z, u) = 0
      BY <1>4, <2>1 DEF Parser!Fold
    <3>3. Parser!OffsetOf(z, local, 0) = z.before
      BY <1>2, <3>1
    <3> QED
      BY <1>4, <3>1, <3>2, <3>3 DEF Parser!_utc_candidates
  <2>2. CASE u >= z.change
    <3>1. u = local - z.after /\ local >= z.change + z.after
      BY <1>4, <2>2 DEF Parser!Local, Parser!Offset
    <3> DEFINE fold == IF local < z.change + z.before THEN 1 ELSE 0
    <3>2. Parser!Fold(z, u) = fold
      BY <1>4, <2>2 DEF Parser!Fold
    <3>3. Parser!OffsetOf(z, local, fold) = z.after
      BY <1>2, <3>1
    <3> QED
      BY <1>4, <3>1, <3>2, <3>3 DEF Parser!_utc_candidates
  <2> QED
    BY <1>4, <2>1, <2>2
<1> QED
  BY <1>3, <1>4

\* They are two at most, one on each side of the change.
LEMMA CandidatesAre ==
  ASSUME NEW z, Clockwork(z), NEW local \in Int
  PROVE  LET early == local - z.before < z.change
             late == local - z.after >= z.change
         IN  Parser!_utc_candidates(z, local)
               = (IF early THEN {local - z.before} ELSE {})
                 \cup (IF late THEN {local - z.after} ELSE {})
<1>1. ASSUME NEW u \in Int
      PROVE  Parser!Local(z, u) = local <=>
               \/ u = local - z.before /\ local - z.before < z.change
               \/ u = local - z.after /\ local - z.after >= z.change
  BY DEF Parser!Local, Parser!Offset, Clockwork
<1>2. local - z.before \in Int /\ local - z.after \in Int
  BY DEF Clockwork
<1> QED
  BY <1>1, <1>2, CandidatesShow

LEMMA CandidatesCount ==
  ASSUME NEW z, Clockwork(z), NEW local \in Int
  PROVE  LET candidates == Parser!_utc_candidates(z, local)
         IN  /\ IsFiniteSet(candidates)
             /\ Cardinality(candidates) \in 0 .. 2
             /\ Cardinality(candidates) = 0 <=> candidates = {}
             /\ Cardinality(candidates) <= 1 =>
                  \A u, v \in candidates : u = v
<1> DEFINE early == local - z.before < z.change
           late == local - z.after >= z.change
           first == local - z.before
           second == local - z.after
           candidates == Parser!_utc_candidates(z, local)
<1>1. candidates = (IF early THEN {first} ELSE {}) \cup (IF late THEN {second} ELSE {})
  BY CandidatesAre
<1>2. early /\ late => first # second
  BY DEF Clockwork
<1> HIDE DEF early, late, first, second, candidates
<1>3. CASE early /\ late
  <2>1. candidates = {first} \cup {second} /\ second \notin {first}
    BY <1>1, <1>2, <1>3
  <2>2. IsFiniteSet({first}) /\ Cardinality({first}) = 1
    BY FS_Singleton
  <2>3. IsFiniteSet(candidates) /\ Cardinality(candidates) = 1 + 1
    BY <2>1, <2>2, FS_AddElement
  <2> QED
    BY <2>1, <2>3 DEF candidates
<1>4. CASE early /\ ~late
  <2>1. candidates = {first}
    BY <1>1, <1>4
  <2>2. IsFiniteSet(candidates) /\ Cardinality(candidates) = 1
    BY <2>1, FS_Singleton
  <2> QED
    BY <2>1, <2>2 DEF candidates
<1>5. CASE ~early /\ late
  <2>1. candidates = {second}
    BY <1>1, <1>5
  <2>2. IsFiniteSet(candidates) /\ Cardinality(candidates) = 1
    BY <2>1, FS_Singleton
  <2> QED
    BY <2>1, <2>2 DEF candidates
<1>6. CASE ~early /\ ~late
  <2>1. candidates = {}
    BY <1>1, <1>6
  <2>2. IsFiniteSet(candidates) /\ Cardinality(candidates) = 0
    BY <2>1, FS_EmptySet
  <2> QED
    BY <2>1, <2>2 DEF candidates
<1> QED
  BY <1>3, <1>4, <1>5, <1>6

LEMMA ParserSizes ==
  ASSUME NEW S
  PROVE  Parser!Cardinality(S) = Cardinality(S) /\ (Parser!IsFiniteSet(S) <=> IsFiniteSet(S))
BY DEF Parser!Cardinality, Cardinality, Parser!IsFiniteSet, IsFiniteSet

\* A set that was counted to be one expression is what CHOOSE takes from it.
LEMMA OnlyOne ==
  ASSUME NEW S, IsFiniteSet(S), S # {}, ~(Cardinality(S) > 1)
  PROVE  \E x \in S : S = {x} /\ (CHOOSE y \in S : TRUE) = x
<1>1. Cardinality(S) \in Nat /\ Cardinality(S) # 0
  BY FS_CardinalityType, FS_EmptySet
<1>2. Cardinality(S) = 1
  BY <1>1
<1>3. PICK x : S = {x}
  BY <1>2, FS_Singleton
<1> QED
  BY <1>3

\* _parse_clock reads a clock expression as the hour it means, asks when it can mean
\* two, and refuses it when it means none.
LEMMA ClocksRead ==
  ASSUME NEW c \in Parser!ClockWords
  PROVE  LET read == Parser!ParseOne(c)
         IN  \/ \E hour \in 0 .. 23 : read = Parser!ClockTime(hour) /\ Parser!Meanings(c) = {hour}
             \/ /\ read = Parser!NeedsClarification("ambiguous_hour")
                /\ Cardinality(Parser!Meanings(c)) > 1
             \/ read = Parser!Unsupported("invalid_time") /\ Parser!Meanings(c) = {}
<1> DEFINE read == Parser!ParseOne(c)
           hours == Parser!Meanings(c)
<1>0. /\ c.form \in {"medianoche", "mediodia", "malformed", "a las"} /\ c.hour \in Nat
      /\ c.meridiem \in {"none", "am", "pm"}
  BY DEF Parser!ClockWords
<1>1. CASE c.form # "a las"
  <2>1. \/ c.form = "medianoche" /\ read = Parser!ClockTime(0) /\ hours = {0}
        \/ c.form = "mediodia" /\ read = Parser!ClockTime(12) /\ hours = {12}
        \/ c.form = "malformed" /\ read = Parser!Unsupported("invalid_time") /\ hours = {}
    BY <1>0, <1>1 DEF Parser!ParseOne, Parser!Meanings
  <2> QED
    BY <2>1
<1>n. PICK n \in Nat : n = c.hour
  BY <1>0
<1>2. CASE c.form = "a las" /\ c.meridiem = "none"
  <2>1. read = (IF n \in 1 .. 12 THEN Parser!NeedsClarification("ambiguous_hour")
                ELSE IF n \in 0 .. 23 THEN Parser!ClockTime(n)
                ELSE Parser!Unsupported("invalid_time"))
    BY <1>2, <1>n DEF Parser!ParseOne
  <2>2. hours = {h \in 0 .. 23 : \/ n > 12 /\ h = n
                                 \/ n \in 0 .. 12 /\ h % 12 = n % 12
                                    /\ (n = 0 => h = 0)}
    BY <1>2, <1>n DEF Parser!Meanings
  <2> HIDE DEF read, hours
  <2>3. CASE n \in 1 .. 12
    <3> DEFINE early == IF n = 12 THEN 0 ELSE n
               late == early + 12
    <3>1. early \in 0 .. 23 /\ early % 12 = n % 12 /\ late \in 0 .. 23 /\ late % 12 = n % 12
      BY <2>3
    <3>2. early \in hours /\ late \in hours /\ early # late
      BY <2>2, <2>3, <3>1
    <3>3. IsFiniteSet(hours)
      <4>1. hours \subseteq 0 .. 23
        BY <2>2
      <4>2. IsFiniteSet(0 .. 23)
        <5>1. 0 \in Int /\ 23 \in Int
          OBVIOUS
        <5> QED
          BY <5>1, FS_Interval, Zenon
      <4> QED
        BY <4>1, <4>2, FS_Subset
    <3> HIDE DEF early, late
    <3>4. Cardinality(hours) > 1
      <4>1. Cardinality({early, late}) = 2 /\ {early, late} \subseteq hours
        <5>1. IsFiniteSet({early}) /\ Cardinality({early}) = 1
          BY FS_Singleton
        <5>2. Cardinality({early} \cup {late}) = 1 + 1
          BY <3>2, <5>1, FS_AddElement
        <5>3. {early} \cup {late} = {early, late}
          OBVIOUS
        <5> QED
          BY <3>2, <5>2, <5>3
      <4>2. Cardinality(hours) \in Nat
        BY <3>3, FS_CardinalityType
      <4>3. Cardinality({early, late}) <= Cardinality(hours)
        BY <3>3, <4>1, FS_Subset
      <4> QED
        BY <4>1, <4>2, <4>3
    <3> QED
      BY <2>1, <2>3, <3>4 DEF read, hours
  <2>4. CASE n = 0
    <3>1. hours = {0}
      BY <2>2, <2>4
    <3> QED
      BY <2>1, <2>4, <3>1 DEF read, hours
  <2>5. CASE n \in 13 .. 23
    <3>1. hours = {n}
      BY <2>2, <2>5
    <3> QED
      BY <2>1, <2>5, <3>1 DEF read, hours
  <2>6. CASE n > 23
    <3>1. hours = {}
      BY <1>n, <2>2, <2>6
    <3> QED
      BY <1>n, <2>1, <2>6, <3>1 DEF read, hours
  <2> QED
    BY <1>n, <2>3, <2>4, <2>5, <2>6
<1>3. CASE c.form = "a las" /\ c.meridiem # "none"
  <2> DEFINE hour == Parser!MeridiemHour(n, c.meridiem)
  <2>1. read = (IF n \in 1 .. 12 THEN Parser!ClockTime(hour)
                ELSE Parser!Unsupported("invalid_time"))
    BY <1>3, <1>n DEF Parser!ParseOne
  <2>2. hours = {h \in 0 .. 23 :
                   \/ c.meridiem = "am" /\ n \in 1 .. 12 /\ h < 12 /\ h = n % 12
                   \/ c.meridiem = "pm" /\ n \in 1 .. 12 /\ h >= 12 /\ h % 12 = n % 12}
    BY <1>3, <1>n DEF Parser!Meanings
  <2> HIDE DEF read, hours
  <2>3. CASE n \in 1 .. 12
    <3>1. hour \in 0 .. 23 /\ hour = (IF c.meridiem = "am" THEN n % 12 ELSE (n % 12) + 12)
      <4>1. n % 12 = (IF n = 12 THEN 0 ELSE n)
        BY <2>3
      <4>2. hour = (IF c.meridiem = "am" THEN IF n = 12 THEN 0 ELSE n
                    ELSE IF n = 12 THEN 12 ELSE n + 12)
        BY DEF Parser!MeridiemHour
      <4> HIDE DEF hour
      <4> QED
        BY <2>3, <4>1, <4>2
    <3>2. hours = {hour}
      <4> HIDE DEF hour
      <4>1. \A h \in 0 .. 23 : (h >= 12 /\ h % 12 = n % 12) <=> h = (n % 12) + 12
        BY <2>3
      <4>2. n % 12 < 12
        BY <2>3
      <4>3. CASE c.meridiem = "am"
        BY <2>2, <2>3, <3>1, <4>2, <4>3
      <4>4. CASE c.meridiem = "pm"
        BY <2>2, <2>3, <3>1, <4>1, <4>4
      <4> QED
        BY <1>0, <1>3, <4>3, <4>4
    <3> HIDE DEF hour
    <3> QED
      BY <2>1, <2>3, <3>1, <3>2 DEF read, hours
  <2>4. CASE n \notin 1 .. 12
    BY <2>1, <2>2, <2>4 DEF read, hours
  <2> QED
    BY <2>3, <2>4
<1> QED
  BY <1>0, <1>1, <1>2, <1>3

\* A local time that is ahead of the wall and shown by one instant only: the instant
\* is ahead too, however the clocks are moved in between.
LEMMA AheadIsAhead ==
  ASSUME NEW z, Clockwork(z), NEW at \in Int, NEW local \in Int, local > Parser!Local(z, at),
         NEW u \in Int, Parser!Local(z, u) = local,
         \A v \in Int : Parser!Local(z, v) = local => v = u
  PROVE  u > at
<1> SUFFICES ASSUME u <= at PROVE FALSE
  OBVIOUS
<1>1. u < z.change /\ z.change <= at /\ local > at + z.after
  BY DEF Clockwork, Parser!Local, Parser!Offset
<1>2. local - z.after \in Int /\ Parser!Local(z, local - z.after) = local
  BY <1>1 DEF Clockwork, Parser!Local, Parser!Offset
<1> QED
  BY <1>1, <1>2 DEF Clockwork

\* The local time of the next such weekday is less than a week and a day off.
LEMMA NextWeekday ==
  ASSUME NEW weekday \in 0 .. 6, NEW hour \in 0 .. 23, NEW reference \in Int
  PROVE  LET day == Parser!WeekdayDate(weekday, hour, reference)
         IN  /\ day \in Int /\ day % 7 = weekday
             /\ day * 24 + hour > reference /\ day * 24 + hour - 168 <= reference
             /\ day * 24 >= reference - 23 /\ day * 24 <= reference + 168
<1> DEFINE today == reference \div 24
           target == today + ((weekday - (today % 7)) % 7)
<1>1. today \in Int /\ today * 24 <= reference /\ reference < today * 24 + 24
  OBVIOUS
<1> HIDE DEF today
<1>2. target \in Int /\ target >= today /\ target <= today + 6 /\ target % 7 = weekday
  <2>1. PICK week \in Int, r \in 0 .. 6 : today = 7 * week + r /\ today % 7 = r
    <3> DEFINE week == today \div 7
               r == today % 7
    <3>1. week \in Int
      BY <1>1
    <3>2. r \in 0 .. 6
      BY <1>1
    <3>3. today = 7 * week + r
      BY <1>1
    <3>4. today % 7 = r
      OBVIOUS
    <3> HIDE DEF week, r
    <3> QED
      BY <3>1, <3>2, <3>3, <3>4
  <2>2. (weekday - r) % 7 = (IF weekday >= r THEN weekday - r ELSE weekday - r + 7)
    BY <2>1
  <2>3. target = (IF weekday >= r THEN 7 * week + weekday ELSE 7 * (week + 1) + weekday)
    BY <2>1, <2>2
  <2>4. \A k \in Int : (7 * k + weekday) % 7 = weekday
    OBVIOUS
  <2> HIDE DEF target
  <2> QED
    BY <2>1, <2>3, <2>4
<1> HIDE DEF target
<1>3. Parser!WeekdayDate(weekday, hour, reference)
        = IF target * 24 + hour <= reference THEN target + 7 ELSE target
  BY DEF Parser!WeekdayDate, Parser!DayOf, Parser!Weekday, target, today
<1>4. (target + 7) % 7 = target % 7
  BY <1>2
<1> QED
  BY <1>1, <1>2, <1>3, <1>4

\* Where _wall_clock_date puts a clock: between the first hour of today and the last
\* one a week later; after the wall's hour unless the word is "hoy".
LEMMA DatesReach ==
  ASSUME NEW word \in Parser!DateWords, NEW hour \in 0 .. 23, NEW reference \in Int
  PROVE  LET day == Parser!DateOf(word, hour, reference)
             local == day * 24 + hour
         IN  /\ day \in Int /\ local \in Int
             /\ reference - 23 <= local /\ local <= reference + 191
             /\ word[1] # "hoy" => local > reference
             /\ word[1] = "weekday" => /\ word[2] \in 0 .. 6 /\ day % 7 = word[2]
                                       /\ local - 168 <= reference
<1> DEFINE day == Parser!DateOf(word, hour, reference)
           local == day * 24 + hour
           today == reference \div 24
<1>1. today \in Int /\ today * 24 <= reference /\ reference < today * 24 + 24
  OBVIOUS
<1>2. \/ word[1] = "hoy" \/ word[1] = "manana"
      \/ word[1] = "weekday" /\ word[2] \in 0 .. 6
  BY DEF Parser!DateWords, Parser!Weekdays
<1>3. CASE word[1] = "hoy"
  <2>1. day = today
    BY <1>3 DEF Parser!DateOf, Parser!DayOf
  <2> HIDE DEF today, day
  <2> QED
    BY <1>1, <1>3, <2>1 DEF day
<1>4. CASE word[1] = "manana"
  <2>1. day = today + 1
    BY <1>4 DEF Parser!DateOf, Parser!DayOf
  <2> HIDE DEF today, day
  <2> QED
    BY <1>1, <1>4, <2>1 DEF day
<1>5. CASE word[1] = "weekday" /\ word[2] \in 0 .. 6
  <2>0. PICK weekday \in 0 .. 6 : weekday = word[2]
    BY <1>5
  <2>1. day = Parser!WeekdayDate(weekday, hour, reference)
    BY <1>5, <2>0 DEF Parser!DateOf
  <2>2. LET d == Parser!WeekdayDate(weekday, hour, reference)
        IN  /\ d \in Int /\ d % 7 = weekday
            /\ d * 24 + hour > reference /\ d * 24 + hour - 168 <= reference
            /\ d * 24 >= reference - 23 /\ d * 24 <= reference + 168
    BY NextWeekday
  <2> HIDE DEF today, day
  <2> QED
    BY <1>5, <2>0, <2>1, <2>2 DEF day
<1> QED
  BY <1>2, <1>3, <1>4, <1>5

LEMMA ZoneNumbers ==
  ASSUME ParserAssumed, NEW z \in Zones, NEW at \in Received
  PROVE  /\ Clockwork(z) /\ at \in Int /\ at \in 0 .. LastInstant /\ LastInstant \in Nat
         /\ Parser!Local(z, at) \in Int
BY DEF ParserAssumed, Parser!CalendarAssumption, Parser!Instants, Clockwork, Parser!Local,
       Parser!Offset

\* The calendar's instants with a local time that a text can name are the ones that
\* _utc_candidates finds.
LEMMA CalendarHolds ==
  ASSUME ParserAssumed, NEW z \in Zones, NEW at \in Received, NEW day \in Int, NEW hour \in Int,
         Parser!Local(z, at) - 23 <= day * 24 + hour,
         day * 24 + hour <= Parser!Local(z, at) + 191
  PROVE  Parser!Showing(z, day, hour) = Parser!_utc_candidates(z, day * 24 + hour)
<1> DEFINE local == day * 24 + hour
<1>1. Clockwork(z) /\ at \in Int /\ LastInstant \in Nat /\ local \in Int
  BY ZoneNumbers
<1>2. /\ 23 + (z.after - z.before) <= at /\ 23 + (z.before - z.after) <= at
      /\ at + 191 + (z.after - z.before) <= LastInstant
      /\ at + 191 + (z.before - z.after) <= LastInstant
  BY DEF ParserAssumed, Parser!ReachAssumption
<1>w. Parser!Local(z, at) - 23 <= local /\ local <= Parser!Local(z, at) + 191
  OBVIOUS
<1> HIDE DEF local
<1>3. ASSUME NEW u \in Int, Parser!Local(z, u) = local
      PROVE  u \in 0 .. LastInstant
  <2>1. PICK off \in {z.before, z.after} : u = local - off
    BY <1>1, <1>3 DEF Clockwork, Parser!Local, Parser!Offset
  <2>2. PICK mine \in {z.before, z.after} : Parser!Local(z, at) = at + mine
    BY <1>1 DEF Clockwork, Parser!Local, Parser!Offset
  <2>3. off \in Int /\ mine \in Int
    BY <1>1, <2>1, <2>2 DEF Clockwork
  <2>4. at + mine - 23 <= local /\ local <= at + mine + 191
    BY <1>1, <1>w, <2>2, <2>3
  <2>5. 23 <= at /\ at + 191 <= LastInstant
    BY <1>1, <1>2 DEF Clockwork
  <2>6. 23 + (off - mine) <= at /\ at + 191 + (mine - off) <= LastInstant
    BY <1>1, <1>2, <2>1, <2>2, <2>5 DEF Clockwork
  <2> QED
    BY <1>1, <2>1, <2>3, <2>4, <2>6
<1>4. 0 .. LastInstant \subseteq Int
  BY <1>1
<1> QED
  BY <1>1, <1>3, <1>4, CandidatesShow DEF Parser!Showing, Parser!Instants, local

\* What becomes of a clock on its date.
LEMMA Placement ==
  ASSUME ParserAssumed, NEW z \in Zones, NEW at \in Received, NEW word \in Parser!DateWords,
         NEW hour \in 0 .. 23
  PROVE  LET read == Parser!PlaceClock(z, word, hour, at)
             day == Parser!DateOf(word, hour, Parser!Local(z, at))
         IN  \/ /\ read = Parser!NeedsClarification("nonexistent_local_time")
                /\ Cardinality(Parser!Showing(z, day, hour)) = 0
             \/ /\ read = Parser!NeedsClarification("ambiguous_local_time")
                /\ Cardinality(Parser!Showing(z, day, hour)) = 2
             \/ read = Parser!Unsupported("past_time")
             \/ \E u \in Int : /\ read = Parser!Parsed(u, -1)
                               /\ u > at
                               /\ Parser!Local(z, u) = day * 24 + hour
                               /\ Parser!Showing(z, day, hour) = {u}
                               /\ \A v \in Int : Parser!Local(z, v) = day * 24 + hour => v = u
<1> DEFINE wall == Parser!Local(z, at)
           day == Parser!DateOf(word, hour, wall)
           local == day * 24 + hour
           candidates == Parser!_utc_candidates(z, local)
           start == CHOOSE u \in candidates : TRUE
           read == Parser!PlaceClock(z, word, hour, at)
<1>1. Clockwork(z) /\ at \in Int /\ wall \in Int
  BY ZoneNumbers
<1>2. /\ day \in Int /\ local \in Int
      /\ wall - 23 <= local /\ local <= wall + 191
      /\ word[1] # "hoy" => local > wall
  BY <1>1, DatesReach
<1>3. Parser!Showing(z, day, hour) = candidates
  BY <1>2, CalendarHolds
<1>4. read = (IF candidates = {} THEN Parser!NeedsClarification("nonexistent_local_time")
              ELSE IF Cardinality(candidates) > 1
              THEN Parser!NeedsClarification("ambiguous_local_time")
              ELSE IF word[1] = "hoy" /\ start <= at THEN Parser!Unsupported("past_time")
              ELSE Parser!Parsed(start, -1))
  <2>1. Parser!Cardinality(candidates) = Cardinality(candidates)
    BY ParserSizes
  <2> QED
    BY <2>1 DEF Parser!PlaceClock, Parser!NoNotice
<1>5. \A u : u \in candidates <=> u \in Int /\ Parser!Local(z, u) = local
  BY <1>1, <1>2, CandidatesShow
<1>6. /\ Cardinality(candidates) \in 0 .. 2
      /\ Cardinality(candidates) = 0 <=> candidates = {}
      /\ Cardinality(candidates) <= 1 => \A u, v \in candidates : u = v
  BY <1>1, <1>2, CandidatesCount
<1> HIDE DEF wall, day, local, candidates, start, read
<1>7. CASE candidates = {}
  BY <1>3, <1>4, <1>6, <1>7 DEF read, day, wall
<1>8. CASE Cardinality(candidates) > 1
  <2>1. candidates # {} /\ Cardinality(candidates) = 2
    BY <1>6, <1>8
  <2> QED
    BY <1>3, <1>4, <1>8, <2>1 DEF read, day, wall
<1>9. CASE candidates # {} /\ ~(Cardinality(candidates) > 1)
  <2>1. start \in candidates
    BY <1>9 DEF start
  <2>2. Cardinality(candidates) <= 1
    BY <1>6, <1>9
  <2>3. candidates = {start}
    BY <1>6, <2>1, <2>2
  <2>4. /\ start \in Int /\ Parser!Local(z, start) = local
        /\ \A v \in Int : Parser!Local(z, v) = local => v = start
    BY <1>5, <2>1, <2>3
  <2>5. CASE word[1] = "hoy" /\ start <= at
    BY <1>4, <1>9, <2>5 DEF read
  <2>6. CASE ~(word[1] = "hoy" /\ start <= at)
    <3>1. read = Parser!Parsed(start, -1)
      BY <1>4, <1>9, <2>6
    <3>2. start > at
      <4>1. CASE word[1] = "hoy"
        BY <1>1, <2>4, <2>6, <4>1
      <4>2. CASE word[1] # "hoy"
        <5>1. local > Parser!Local(z, at)
          BY <1>2, <4>2 DEF wall
        <5> QED
          BY <1>1, <1>2, <2>4, <5>1, AheadIsAhead
      <4> QED
        BY <4>1, <4>2
    <3>3. Parser!Showing(z, day, hour) = {start}
      BY <1>3, <2>3
    <3> QED
      BY <2>4, <3>1, <3>2, <3>3 DEF read, local, day, wall
  <2> QED
    BY <2>5, <2>6
<1> QED
  BY <1>7, <1>8, <1>9

\* No instant between now and the start shows the same weekday and hour on a first
\* passage: the wall only goes back over a repeated hour.
LEMMA NearestAhead ==
  ASSUME NEW z, Clockwork(z), NEW at \in Int, NEW local \in Int,
         local - 168 <= Parser!Local(z, at),
         NEW s \in Int, Parser!Local(z, s) = local,
         \A v \in Int : Parser!Local(z, v) = local => v = s,
         NEW u \in Int, at < u, u < s,
         \/ Parser!Local(z, u) >= local
         \/ Parser!Local(z, u) <= local - 168
  PROVE  Parser!Fold(z, u) = 1
<1> DEFINE wall == Parser!Local(z, u)
<1>1. CASE wall >= local
  <2>1. u < z.change /\ z.change <= s /\ wall = u + z.before
    BY <1>1 DEF Clockwork, Parser!Local, Parser!Offset
  <2>2. local - z.before \in Int /\ Parser!Local(z, local - z.before) = local
    BY <1>1, <2>1 DEF Clockwork, Parser!Local, Parser!Offset
  <2>3. local - z.before = s
    BY <2>2
  <2> QED
    BY <1>1, <2>1, <2>3 DEF Clockwork
<1>2. CASE wall <= local - 168
  <2>1. wall <= Parser!Local(z, at) /\ wall \in Int
    BY <1>2 DEF Clockwork, Parser!Local, Parser!Offset
  <2>2. at < z.change /\ z.change <= u /\ Parser!Local(z, at) = at + z.before
    BY <2>1 DEF Clockwork, Parser!Local, Parser!Offset
  <2>3. wall < z.change + z.before
    BY <2>1, <2>2 DEF Clockwork
  <2> QED
    BY <2>2, <2>3 DEF Parser!Fold
<1> QED
  BY <1>1, <1>2

LEMMA Division ==
  ASSUME NEW n \in Int
  PROVE  /\ n \div 24 \in Int /\ n \div 7 \in Int
         /\ n % 24 = n - 24 * (n \div 24)
         /\ n % 7 = n - 7 * (n \div 7)
OBVIOUS

\* Local times of one weekday and hour are whole weeks apart.
LEMMA WeeksApart ==
  ASSUME NEW day \in Int, NEW hour \in 0 .. 23, NEW wall \in Int,
         wall % 24 = hour, (wall \div 24) % 7 = day % 7
  PROVE  wall >= day * 24 + hour \/ wall <= day * 24 + hour - 168
<1>1. PICK today \in Int : today = wall \div 24 /\ hour = wall - 24 * today
  BY Division
<1>2. PICK a \in Int, b \in Int, r \in Int : today = 7 * a + r /\ day = 7 * b + r
  <2> DEFINE a == today \div 7
             b == day \div 7
             r == day % 7
  <2>1. a \in Int /\ b \in Int
    OBVIOUS
  <2>2. r \in Int
    OBVIOUS
  <2>3. today % 7 = today - 7 * a
    BY <1>1, Division
  <2>4. r = day - 7 * b
    BY Division
  <2>5. today % 7 = r
    BY <1>1
  <2> HIDE DEF a, b, r
  <2> QED
    BY <2>1, <2>2, <2>3, <2>4, <2>5
<1>3. a >= b \/ a <= b - 1
  OBVIOUS
<1> QED
  BY <1>1, <1>2, <1>3

\* What extract_reminder leaves without looking at a clock.
Unclear == {"not_a_reminder", "invalid_reference_instant", "invalid_timezone",
            "conflicting_temporal_expression", "invalid_relative_amount", "missing_time",
            "missing_datetime", "missing_date"}

\* The ways out of extract_reminder.
LeftOpen(t, read) ==
  \E reason \in Unclear : /\ read \in {Parser!Unsupported(reason),
                                       Parser!NeedsClarification(reason)}
                          /\ reason = "not_a_reminder" => ~t.trigger
FromNow(t, at, read) ==
  t.clocks = {} /\ \E amount \in Nat \ {0} : read = Parser!Parsed(at + amount, at + amount)
ClockOnly(t, read) ==
  \E c \in Parser!ClockWords : /\ t.clocks = {c} /\ read = Parser!ParseOne(c)
                               /\ read.status # "clock"
ClockOnDate(t, z, at, read) ==
  \E c \in Parser!ClockWords, word \in Parser!DateWords, hour \in 0 .. 23 :
    /\ t.clocks = {c} /\ t.dates = {word} /\ Parser!Meanings(c) = {hour}
    /\ read = Parser!PlaceClock(z, word, hour, at)

LEMMA Extraction ==
  ASSUME ParserAssumed, NEW z \in Zones, NEW at \in Received, NEW t \in UserTexts
  PROVE  LET read == Parser!extract_reminder(t, z, at)
         IN  LeftOpen(t, read) \/ FromNow(t, at, read) \/ ClockOnly(t, read)
               \/ ClockOnDate(t, z, at, read)
<1> DEFINE read == Parser!extract_reminder(t, z, at)
<1>0. /\ t.trigger \in BOOLEAN /\ t.aware \in BOOLEAN
      /\ t.relatives \subseteq Nat /\ IsFiniteSet(t.relatives)
      /\ t.clocks \subseteq Parser!ClockWords /\ IsFiniteSet(t.clocks)
      /\ t.dates \subseteq Parser!DateWords /\ IsFiniteSet(t.dates)
  BY ParserSizes DEF ParserAssumed, Parser!TextAssumption
<1>1. CASE ~t.trigger \/ ~t.aware \/ ~z.known
  <2>1. \/ read = Parser!Unsupported("not_a_reminder") /\ ~t.trigger
        \/ read = Parser!Unsupported("invalid_reference_instant")
        \/ read = Parser!NeedsClarification("invalid_timezone")
    BY <1>1 DEF Parser!extract_reminder
  <2> QED
    BY <2>1 DEF LeftOpen, Unclear
<1>2. CASE t.trigger /\ t.aware /\ z.known /\ t.relatives # {}
  <2> DEFINE amount == CHOOSE a \in t.relatives : TRUE
             conflict == Parser!Cardinality(t.relatives) > 1 \/ t.dates # {} \/ t.clocks # {}
  <2>1. read = (IF conflict THEN Parser!Unsupported("conflicting_temporal_expression")
                ELSE IF amount < 1 THEN Parser!Unsupported("invalid_relative_amount")
                ELSE Parser!Parsed(at + amount, at + amount))
    BY <1>2 DEF Parser!extract_reminder, Parser!ExtractRelative
  <2>2. amount \in Nat /\ (~conflict => t.clocks = {})
    BY <1>0, <1>2
  <2> HIDE DEF amount, conflict, read
  <2>3. ~(amount < 1) => amount \in Nat \ {0}
    BY <2>2
  <2>4. CASE conflict \/ amount < 1
    BY <2>1, <2>4 DEF LeftOpen, Unclear, read
  <2>5. CASE ~conflict /\ ~(amount < 1)
    BY <2>1, <2>2, <2>3, <2>5 DEF FromNow, read
  <2> QED
    BY <2>4, <2>5
<1>3. CASE t.trigger /\ t.aware /\ z.known /\ t.relatives = {}
  <2>1. read = Parser!ExtractWallClock(t, z, at)
    BY <1>3 DEF Parser!extract_reminder
  <2>2. CASE Cardinality(t.clocks) > 1 \/ t.clocks = {}
    <3>1. \/ read = Parser!Unsupported("conflicting_temporal_expression")
          \/ read = Parser!NeedsClarification("missing_time")
          \/ read = Parser!NeedsClarification("missing_datetime")
      BY <2>1, <2>2, ParserSizes DEF Parser!ExtractWallClock
    <3> QED
      BY <3>1 DEF LeftOpen, Unclear
  <2>3. CASE ~(Cardinality(t.clocks) > 1) /\ t.clocks # {}
    <3>1. PICK c \in t.clocks : t.clocks = {c} /\ (CHOOSE y \in t.clocks : TRUE) = c
      BY <1>0, <2>3, OnlyOne
    <3> DEFINE clock == Parser!ParseOne(c)
    <3>2. read = (IF clock.status # "clock" THEN clock
                  ELSE IF Cardinality(t.dates) > 1
                  THEN Parser!Unsupported("conflicting_temporal_expression")
                  ELSE IF t.dates = {} THEN Parser!NeedsClarification("missing_date")
                  ELSE Parser!PlaceClock(z, CHOOSE d \in t.dates : TRUE, clock.hour, at))
      BY <2>1, <2>3, <3>1, ParserSizes DEF Parser!ExtractWallClock
    <3>3. c \in Parser!ClockWords
      BY <1>0, <3>1
    <3> HIDE DEF read
    <3>4. CASE clock.status # "clock"
      BY <3>1, <3>2, <3>3, <3>4 DEF ClockOnly, read
    <3>5. CASE clock.status = "clock"
      <4>1. PICK hour \in 0 .. 23 : clock = Parser!ClockTime(hour) /\ Parser!Meanings(c) = {hour}
        BY <3>3, <3>5, ClocksRead DEF Parser!NeedsClarification, Parser!Unsupported
      <4>2. clock.hour = hour
        BY <4>1 DEF Parser!ClockTime
      <4> HIDE DEF clock
      <4>3. CASE Cardinality(t.dates) > 1 \/ t.dates = {}
        BY <3>2, <3>5, <4>3 DEF LeftOpen, Unclear, read
      <4>4. CASE ~(Cardinality(t.dates) > 1) /\ t.dates # {}
        <5>1. PICK word \in t.dates : t.dates = {word} /\ (CHOOSE y \in t.dates : TRUE) = word
          BY <1>0, <4>4, OnlyOne
        <5>2. read = Parser!PlaceClock(z, word, hour, at)
          BY <3>2, <3>5, <4>2, <4>4, <5>1
        <5>3. word \in Parser!DateWords
          BY <1>0, <5>1
        <5> QED
          BY <3>1, <3>3, <4>1, <5>1, <5>2, <5>3 DEF ClockOnDate, read
      <4> QED
        BY <4>3, <4>4
    <3> QED
      BY <3>4, <3>5
  <2> QED
    BY <2>2, <2>3
<1> QED
  BY <1>0, <1>1, <1>2, <1>3

\* What extract_reminder's answer r to the text t owes the calendar.
StartsAhead(t, at, r) ==
  /\ r.status = "parsed" => r.starts_at \in Int /\ r.notify_at \in Int /\ r.starts_at > at
  /\ r.reason = "not_a_reminder" => ~t.trigger
OneMeaning(t, z, r) ==
  \A c \in t.clocks :
    /\ r.status = "parsed" =>
         \E hour \in 0 .. 23 :
           /\ Parser!Meanings(c) = {hour}
           /\ Parser!Showing(z, Parser!DayOf(Parser!Local(z, r.starts_at)), hour) = {r.starts_at}
    /\ r.reason = "ambiguous_hour" => Cardinality(Parser!Meanings(c)) > 1
    /\ r.reason = "invalid_time" => Parser!Meanings(c) = {}
NoneNearer(t, z, at, r) ==
  \A c \in t.clocks, d \in 0 .. 6, u \in Int :
    /\ r.status = "parsed" /\ t.dates = {<<"weekday", d>>} /\ at < u /\ u < r.starts_at
    /\ Parser!Local(z, u) % 24 \in Parser!Meanings(c)
    /\ (Parser!Local(z, u) \div 24) % 7 = d
    => Parser!Fold(z, u) = 1
AsksWithCause(t, z, at, r) ==
  \A c \in t.clocks, word \in t.dates, hour \in 0 .. 23 :
    r.reason \in {"nonexistent_local_time", "ambiguous_local_time"}
      /\ Parser!Meanings(c) = {hour} =>
        Cardinality(Parser!Showing(z, Parser!DateOf(word, hour, Parser!Local(z, at)), hour))
          = IF r.reason = "nonexistent_local_time" THEN 0 ELSE 2
Owed(t, z, at, r) ==
  StartsAhead(t, at, r) /\ OneMeaning(t, z, r) /\ NoneNearer(t, z, at, r)
    /\ AsksWithCause(t, z, at, r)

\* The way out with a clock on a date.
LEMMA PlacedIsOwed ==
  ASSUME ParserAssumed, NEW z \in Zones, NEW at \in Received, NEW t \in UserTexts,
         NEW read, ClockOnDate(t, z, at, read)
  PROVE  Owed(t, z, at, read)
<1>1. PICK c \in Parser!ClockWords, word \in Parser!DateWords, hour \in 0 .. 23 :
        /\ t.clocks = {c} /\ t.dates = {word} /\ Parser!Meanings(c) = {hour}
        /\ read = Parser!PlaceClock(z, word, hour, at)
  BY DEF ClockOnDate
<1> DEFINE wall == Parser!Local(z, at)
           day == Parser!DateOf(word, hour, wall)
           local == day * 24 + hour
<1>2. Clockwork(z) /\ at \in Int /\ wall \in Int
  BY ZoneNumbers
<1>3. /\ day \in Int /\ local \in Int
      /\ word[1] = "weekday" => /\ word[2] \in 0 .. 6 /\ day % 7 = word[2]
                                /\ local - 168 <= wall
  BY <1>2, DatesReach
<1>4. \/ /\ read = Parser!NeedsClarification("nonexistent_local_time")
         /\ Cardinality(Parser!Showing(z, day, hour)) = 0
      \/ /\ read = Parser!NeedsClarification("ambiguous_local_time")
         /\ Cardinality(Parser!Showing(z, day, hour)) = 2
      \/ read = Parser!Unsupported("past_time")
      \/ \E u \in Int : /\ read = Parser!Parsed(u, -1)
                        /\ u > at
                        /\ Parser!Local(z, u) = local
                        /\ Parser!Showing(z, day, hour) = {u}
                        /\ \A v \in Int : Parser!Local(z, v) = local => v = u
  BY <1>1, Placement
<1>5. CASE /\ read = Parser!NeedsClarification("nonexistent_local_time")
           /\ Cardinality(Parser!Showing(z, day, hour)) = 0
  <2>1. read.status # "parsed" /\ read.reason = "nonexistent_local_time"
    BY <1>5 DEF Parser!NeedsClarification
  <2>2. AsksWithCause(t, z, at, read)
    BY <1>1, <1>5, <2>1 DEF AsksWithCause
  <2> QED
    BY <2>1, <2>2 DEF Owed, StartsAhead, OneMeaning, NoneNearer
<1>6. CASE /\ read = Parser!NeedsClarification("ambiguous_local_time")
           /\ Cardinality(Parser!Showing(z, day, hour)) = 2
  <2>1. read.status # "parsed" /\ read.reason = "ambiguous_local_time"
    BY <1>6 DEF Parser!NeedsClarification
  <2>2. AsksWithCause(t, z, at, read)
    BY <1>1, <1>6, <2>1 DEF AsksWithCause
  <2> QED
    BY <2>1, <2>2 DEF Owed, StartsAhead, OneMeaning, NoneNearer
<1>7. CASE read = Parser!Unsupported("past_time")
  <2>1. read.status # "parsed" /\ read.reason = "past_time"
    BY <1>7 DEF Parser!Unsupported
  <2> QED
    BY <2>1 DEF Owed, StartsAhead, OneMeaning, NoneNearer, AsksWithCause
<1>8. ASSUME NEW u \in Int, read = Parser!Parsed(u, -1), u > at, Parser!Local(z, u) = local,
             Parser!Showing(z, day, hour) = {u},
             \A v \in Int : Parser!Local(z, v) = local => v = u
      PROVE  Owed(t, z, at, read)
  <2>1. read.status = "parsed" /\ read.reason = "none" /\ read.starts_at = u /\ read.notify_at = -1
    BY <1>8 DEF Parser!Parsed
  <2>2. StartsAhead(t, at, read)
    BY <1>8, <2>1 DEF StartsAhead
  <2>3. OneMeaning(t, z, read)
    <3> HIDE DEF day
    <3>1. Parser!DayOf(Parser!Local(z, u)) = day
      BY <1>3, <1>8 DEF Parser!DayOf
    <3> QED
      BY <1>1, <1>8, <2>1, <3>1 DEF OneMeaning
  <2>4. NoneNearer(t, z, at, read)
    <3> SUFFICES ASSUME NEW d \in 0 .. 6, NEW v \in Int,
                        t.dates = {<<"weekday", d>>}, at < v, v < u,
                        Parser!Local(z, v) % 24 = hour, (Parser!Local(z, v) \div 24) % 7 = d
                 PROVE  Parser!Fold(z, v) = 1
      BY <1>1, <2>1 DEF NoneNearer
    <3>1. word = <<"weekday", d>>
      BY <1>1
    <3>2. day % 7 = d /\ local - 168 <= wall
      BY <1>3, <3>1
    <3>3. Parser!Local(z, v) \in Int
      BY <1>2 DEF Clockwork, Parser!Local, Parser!Offset
    <3> HIDE DEF day
    <3>4. Parser!Local(z, v) >= local \/ Parser!Local(z, v) <= local - 168
      BY <1>3, <3>2, <3>3, WeeksApart
    <3> HIDE DEF local
    <3> QED
      BY <1>2, <1>3, <1>8, <3>2, <3>4, NearestAhead DEF wall
  <2>5. AsksWithCause(t, z, at, read)
    BY <2>1 DEF AsksWithCause
  <2> QED
    BY <2>2, <2>3, <2>4, <2>5 DEF Owed
<1> QED
  BY <1>4, <1>5, <1>6, <1>7, <1>8

LEMMA ReadIsOwed ==
  ASSUME ParserAssumed, NEW z \in Zones, NEW at \in Received, NEW t \in UserTexts
  PROVE  Owed(t, z, at, Parser!extract_reminder(t, z, at))
<1> DEFINE read == Parser!extract_reminder(t, z, at)
<1>1. LeftOpen(t, read) \/ FromNow(t, at, read) \/ ClockOnly(t, read) \/ ClockOnDate(t, z, at, read)
  BY Extraction
<1> SUFFICES Owed(t, z, at, read)
  OBVIOUS
<1> HIDE DEF read
<1>2. CASE LeftOpen(t, read)
  <2>1. PICK reason \in Unclear : /\ read.status # "parsed" /\ read.reason = reason
                                  /\ reason = "not_a_reminder" => ~t.trigger
    BY <1>2 DEF LeftOpen, Parser!Unsupported, Parser!NeedsClarification
  <2> QED
    BY <2>1 DEF Unclear, Owed, StartsAhead, OneMeaning, NoneNearer, AsksWithCause
<1>3. CASE FromNow(t, at, read)
  <2>1. PICK amount \in Nat \ {0} : read = Parser!Parsed(at + amount, at + amount) /\ t.clocks = {}
    BY <1>3 DEF FromNow
  <2>2. /\ read.status = "parsed" /\ read.reason = "none"
        /\ read.starts_at = at + amount /\ read.notify_at = at + amount
    BY <2>1 DEF Parser!Parsed
  <2>3. at \in Int
    BY ZoneNumbers
  <2> QED
    BY <2>1, <2>2, <2>3 DEF Owed, StartsAhead, OneMeaning, NoneNearer, AsksWithCause
<1>4. CASE ClockOnly(t, read)
  <2>1. PICK c \in Parser!ClockWords : /\ t.clocks = {c} /\ read = Parser!ParseOne(c)
                                       /\ read.status # "clock"
    BY <1>4 DEF ClockOnly
  <2>2. /\ read.status # "parsed"
        /\ \/ read.reason = "ambiguous_hour" /\ Cardinality(Parser!Meanings(c)) > 1
           \/ read.reason = "invalid_time" /\ Parser!Meanings(c) = {}
    BY <2>1, ClocksRead DEF Parser!ClockTime, Parser!NeedsClarification, Parser!Unsupported
  <2> QED
    BY <2>1, <2>2 DEF Owed, StartsAhead, OneMeaning, NoneNearer, AsksWithCause
<1>5. CASE ClockOnDate(t, z, at, read)
  BY <1>5, PlacedIsOwed
<1> QED
  BY <1>1, <1>2, <1>3, <1>4, <1>5

\* A text is read once, at the instant it is handled; the model is asked only about
\* what the parser did not take for a reminder; the notice follows from what was read.
ParserInv ==
  /\ now \in Received /\ zone \in Zones /\ written \in UserTexts
  /\ extracted = Parser!Unread => ~asked
  /\ ~asked => extracted = Parser!Unread \/ Owed(written, zone, now, extracted)
  /\ asked => /\ ~written.trigger
              /\ \E d \in ModelAnswers : extracted = Parser!FromModel(d)
  /\ scheduled # -1 =>
       /\ extracted.status = "parsed"
       /\ scheduled = extracted.starts_at - Parser!notice_before(extracted)

LEMMA ParserInvHolds ==
  ASSUME ParserAssumed
  PROVE  Parser!Spec => []ParserInv
<1>1. Parser!Init => ParserInv
  BY DEF Parser!Init, ParserInv
<1>2. ParserInv /\ [Parser!Next]_Parser!vars => ParserInv'
  <2> SUFFICES ASSUME ParserInv, [Parser!Next]_Parser!vars PROVE ParserInv'
    OBVIOUS
  <2>1. CASE Parser!Wait
    BY <2>1 DEF Parser!Wait, ParserInv
  <2>2. CASE Parser!Read
    <3>1. Owed(written, zone, now, Parser!extract_reminder(written, zone, now))
      BY ReadIsOwed DEF ParserInv
    <3>2. ~asked /\ scheduled = -1
      BY <2>2 DEF Parser!Read, ParserInv, Parser!Unread
    <3> QED
      BY <2>2, <3>1, <3>2 DEF Parser!Read, ParserInv
  <2>3. ASSUME NEW d \in ModelAnswers, Parser!AskModel(d) PROVE ParserInv'
    <3>1. extracted.reason = "not_a_reminder" /\ extracted.status = "unsupported" /\ ~asked
      BY <2>3 DEF Parser!AskModel, Parser!Undecided
    <3>2. ~written.trigger /\ scheduled = -1
      BY <3>1 DEF ParserInv, Parser!Unread, Owed, StartsAhead
    <3>3. Parser!FromModel(d) # Parser!Unread
      BY DEF Parser!FromModel, Parser!Unread, Parser!Parsed, Parser!Unsupported
    <3> QED
      BY <2>3, <3>2, <3>3 DEF Parser!AskModel, ParserInv
  <2>4. CASE Parser!Schedule
    BY <2>4 DEF Parser!Schedule, ParserInv
  <2>5. CASE UNCHANGED Parser!vars
    BY <2>5 DEF Parser!vars, ParserInv
  <2> QED
    BY <2>1, <2>2, <2>3, <2>4, <2>5 DEF Parser!Next
<1> QED
  BY <1>1, <1>2, PTL DEF Parser!Spec

\* What the model answers is a reminder with instants or nothing.
LEMMA AnswersAre ==
  ASSUME ParserAssumed, NEW d \in ModelAnswers
  PROVE  LET r == Parser!FromModel(d)
         IN  /\ r.reason \in {"none", "not_a_reminder"}
             /\ r.status = "parsed" => r.starts_at \in Int /\ r.notify_at \in Int
<1>1. d.starts_at \in Int /\ d.notify_at \in Int
  BY DEF ParserAssumed, Parser!TextAssumption
<1>2. \/ Parser!FromModel(d) = Parser!Parsed(d.starts_at, d.notify_at)
      \/ Parser!FromModel(d) = Parser!Unsupported("not_a_reminder")
  BY DEF Parser!FromModel
<1> QED
  BY <1>1, <1>2 DEF Parser!Parsed, Parser!Unsupported

LEMMA NoticeFollows ==
  ASSUME ParserAssumed, NEW start \in Int, NEW notify \in Int, NEW r,
         r.starts_at = start, r.notify_at = notify
  PROVE  LET at == start - Parser!notice_before(r)
         IN  at <= start /\ (notify # -1 => at = Parser!Min({notify, start}))
<1>1. DefaultNotice \in Nat
  BY DEF ParserAssumed, Parser!CalendarAssumption
<1>2. Parser!notice_before(r)
        = IF notify = -1 THEN DefaultNotice ELSE Parser!Max({start - notify, 0})
  BY DEF Parser!notice_before, Parser!NoNotice
<1>3. Parser!Max({start - notify, 0}) = (IF start - notify >= 0 THEN start - notify ELSE 0)
  BY OfTwo
<1>4. Parser!Min({notify, start}) = (IF notify <= start THEN notify ELSE start)
  BY OfTwo
<1> QED
  BY <1>1, <1>2, <1>3, <1>4

LEMMA ParserPart ==
  ASSUME ParserAssumed
  PROVE  Parser!Spec => []Parser!ReadsAsMeant
<1>1. ParserInv => Parser!ReadsAsMeant
  <2> SUFFICES ASSUME ParserInv PROVE Parser!ReadsAsMeant
    OBVIOUS
  <2>0. /\ Parser!Instants \subseteq Int
        /\ \A S : Parser!Cardinality(S) = Cardinality(S)
    BY ParserSizes DEF ParserAssumed, Parser!CalendarAssumption, Parser!Instants
  <2>1. \/ extracted = Parser!Unread /\ ~asked
        \/ Owed(written, zone, now, extracted) /\ ~asked
        \/ /\ asked /\ ~written.trigger
           /\ \E d \in ModelAnswers : extracted = Parser!FromModel(d)
    BY DEF ParserInv
  <2>2. /\ asked \/ extracted = Parser!Unread => extracted.reason \in {"none", "not_a_reminder"}
        /\ extracted.status = "parsed" => /\ extracted.starts_at \in Int
                                          /\ extracted.notify_at \in Int
    BY <2>1, AnswersAre DEF Parser!Unread, Owed, StartsAhead
  <2>3. extracted = Parser!Unread => extracted.status # "parsed"
    BY DEF Parser!Unread
  <2>4. Parser!NothingGuessed
    BY <2>0, <2>1, <2>2, <2>3 DEF Parser!NothingGuessed, Owed, OneMeaning
  <2>5. Parser!ParsedIsAhead
    BY <2>1, <2>3 DEF Parser!ParsedIsAhead, Owed, StartsAhead
  <2>6. Parser!NearestWeekday
    BY <2>0, <2>1, <2>3 DEF Parser!NearestWeekday, Owed, NoneNearer, Parser!Weekdays,
                            Parser!Weekday, Parser!DayOf, Parser!HourOf
  <2>7. Parser!QuestionsAreReal
    BY <2>0, <2>1, <2>2 DEF Parser!QuestionsAreReal, Owed, AsksWithCause
  <2>8. Parser!DoubtStaysWithUser
    BY <2>1 DEF Parser!DoubtStaysWithUser
  <2>9. Parser!NoticeIsNotLate
    <3> SUFFICES ASSUME scheduled # -1
                 PROVE  /\ scheduled <= extracted.starts_at
                        /\ extracted.notify_at # -1 =>
                             scheduled = Parser!Min({extracted.notify_at, extracted.starts_at})
      BY DEF Parser!NoticeIsNotLate, Parser!NoNotice
    <3>1. /\ extracted.starts_at \in Int /\ extracted.notify_at \in Int
          /\ scheduled = extracted.starts_at - Parser!notice_before(extracted)
      BY <2>2 DEF ParserInv
    <3> QED
      BY <3>1, NoticeFollows
  <2> QED
    BY <2>4, <2>5, <2>6, <2>7, <2>8, <2>9 DEF Parser!ReadsAsMeant
<1> QED
  BY <1>1, ParserInvHolds, PTL

\* extract_reminder and the notice that follows from it, for any texts, instants, time
\* zones that change their offset once, and model answers: a parsed start is ahead, is
\* the only instant that shows the one hour the text can mean, and no nearer such
\* weekday is passed over; a question about the local time is asked with cause; the
\* model is only asked about a text without a word of a reminder; the notice is not
\* after the start.
THEOREM TextsAlwaysReadAsMeant ==
  ASSUME Parser!CalendarAssumption, Parser!ReachAssumption, Parser!TextAssumption
  PROVE  Spec => []ReadsAsMeant
<1> DEFINE followed == part = "parser"
<1>1. Init => (followed => Parser!Init)
  BY DEF Init
<1>2. [Next]_vars => (followed' <=> followed) /\ (followed => [Parser!Next]_Parser!vars)
  BY FlowApart
<1>3. (followed => Parser!ReadsAsMeant) => ReadsAsMeant
  BY DEF ReadsAsMeant
<1>4. Parser!Spec => []Parser!ReadsAsMeant
  BY ParserPart DEF ParserAssumed
<1> HIDE DEF followed
<1> QED
  BY <1>1, <1>2, <1>3, <1>4, PTL DEF Spec, Parser!Spec

-----------------------------------------------------------------------------
(* The providers' answers.                                                 *)
(*                                                                         *)
(* A client's result is a function of the answer, so the invariant says    *)
(* which function, and the rest is about the two functions: the failure    *)
(* verdict by cases of the code, and the longer of two waits.              *)

LEMMA LongerWait ==
  ASSUME NEW a \in Nat, NEW b \in Nat
  PROVE  C!Max({a, b}) \in Nat /\ C!Max({a, b}) >= b
<1>1. \E x \in {a, b} : \A y \in {a, b} : x >= y
  OBVIOUS
<1>2. C!Max({a, b}) \in {a, b} /\ \A y \in {a, b} : C!Max({a, b}) >= y
  BY <1>1 DEF C!Max
<1> QED
  BY <1>2

\* The verdicts of the two copies of _classify_failure.
Verdict(code) ==
  IF code = 429 \/ code >= 500 THEN "known-transient"
  ELSE IF code >= 400 THEN "permanent" ELSE "unknown-outcome"

\* The codes the result types take; 0 is none.
Codes == {0} \cup 100 .. 599

LEMMA FailureVerdicts ==
  ASSUME NEW code \in Nat
  PROVE  /\ C!TelegramFailureOutcome(code) = Verdict(code)
         /\ C!WhatsAppFailureOutcome(code) = Verdict(code)
  BY DEF C!TelegramFailureOutcome, C!WhatsAppFailureOutcome, Verdict

LEMMA AnswerFields ==
  ASSUME C!StatusAssumption, NEW a \in C!Answer
  PROVE  /\ a.status \in 100 .. 599 /\ a.errorCode \in Nat
         /\ a.bodyWait \in Nat /\ a.headerWait \in Nat
         /\ a.net \in BOOLEAN /\ a.json \in BOOLEAN /\ a.ok \in BOOLEAN /\ a.id \in BOOLEAN
<1>1. /\ a.status \in Statuses /\ a.errorCode \in ErrorCodes
      /\ a.bodyWait \in Waits /\ a.headerWait \in Waits
      /\ a.net \in BOOLEAN /\ a.json \in BOOLEAN /\ a.ok \in BOOLEAN /\ a.id \in BOOLEAN
  BY DEF C!Answer
<1> QED
  BY <1>1 DEF C!StatusAssumption

\* TelegramBotApiClient._classify_failure, for a code of the status line or none.
LEMMA TelegramFailure ==
  ASSUME C!StatusAssumption, NEW a \in C!Answer, NEW httpCode \in Codes,
         NEW headerWait \in Nat
  PROVE  LET r == C!TelegramClassifyFailure(httpCode, a, headerWait)
             code == IF httpCode # 0 THEN httpCode ELSE C!TelegramErrorCode(a)
         IN  /\ code \in Codes
             /\ r.outcome = Verdict(code) /\ r.code = code /\ r.id = FALSE
             /\ r.wait \in Nat
             /\ r.outcome = "known-transient" => r.wait >= headerWait
             /\ r.outcome # "known-transient" => r.wait = 0
<1> DEFINE r == C!TelegramClassifyFailure(httpCode, a, headerWait)
           code == IF httpCode # 0 THEN httpCode ELSE C!TelegramErrorCode(a)
           with == [a EXCEPT !.headerWait = headerWait]
<1>1. code \in Codes
  BY AnswerFields DEF Codes, C!TelegramErrorCode, C!HttpStatus
<1>2. with.headerWait = headerWait /\ C!TelegramBodyWait(with) \in Nat
  <2>1. with.json = a.json /\ with.bodyWait = a.bodyWait /\ with.headerWait = headerWait
    BY DEF C!Answer
  <2> QED
    BY <2>1, AnswerFields DEF C!TelegramBodyWait
<1>3. C!TelegramWait(with) \in Nat /\ C!TelegramWait(with) >= headerWait
  BY <1>2, LongerWait DEF C!TelegramWait
<1>4. C!TelegramFailureOutcome(code) = Verdict(code)
  BY <1>1, FailureVerdicts DEF Codes
<1>5. r = [outcome |-> Verdict(code), code |-> code,
           wait |-> IF Verdict(code) = "known-transient" THEN C!TelegramWait(with) ELSE 0,
           id |-> FALSE]
  BY <1>4 DEF C!TelegramClassifyFailure, C!Result
<1> HIDE DEF r, code, with
<1>6. /\ code \in Codes
      /\ r.outcome = Verdict(code) /\ r.code = code /\ r.id = FALSE
      /\ r.wait \in Nat
      /\ r.outcome = "known-transient" => r.wait >= headerWait
      /\ r.outcome # "known-transient" => r.wait = 0
  BY <1>1, <1>3, <1>5
<1> QED
  BY <1>6 DEF r, code

\* What either client makes of an answer: a success with its id, an unknown
\* outcome, or the verdict on a code, which is that of the status line unless
\* the status is 2xx and Telegram's body names one.
Read(a, r, codes) ==
  \/ r = C!Result("success", 0, 0, TRUE) /\ ~a.net /\ a.status \in 200 .. 299
  \/ r = C!Unknown /\ (a.net \/ a.status \in 200 .. 299)
  \/ /\ ~a.net
     /\ \E code \in codes :
          /\ code \in Codes /\ r.code = code /\ r.outcome = Verdict(code) /\ r.id = FALSE
          /\ a.status \notin 200 .. 299 => code = a.status
          /\ r.wait \in Nat
          /\ r.outcome # "known-transient" => r.wait = 0

LEMMA TelegramReads ==
  ASSUME C!StatusAssumption, NEW a \in C!Answer
  PROVE  LET r == C!TelegramSend(a)
         IN  /\ Read(a, r, {0, a.status, a.errorCode})
             /\ (~a.net /\ a.status \notin 200 .. 299 /\ r.outcome = "known-transient")
                  => r.wait >= a.headerWait
<1> DEFINE r == C!TelegramSend(a)
<1>1. a.status \in 100 .. 599 /\ a.headerWait \in Nat
  BY AnswerFields
<1>2. CASE a.net
  <2>1. r = C!Unknown
    BY <1>2 DEF C!TelegramSend
  <2> QED
    BY <1>2, <2>1 DEF Read
<1>3. CASE ~a.net /\ a.status \notin 200 .. 299
  <2>1. r = C!TelegramClassifyFailure(a.status, a, a.headerWait)
    BY <1>1, <1>3 DEF C!TelegramSend, C!HttpStatus
  <2> HIDE DEF r
  <2>0. a.status \in Codes /\ a.status # 0
    BY <1>1 DEF Codes
  <2>2. /\ a.status \in Codes
        /\ r.outcome = Verdict(a.status) /\ r.code = a.status /\ r.id = FALSE
        /\ r.wait \in Nat
        /\ r.outcome = "known-transient" => r.wait >= a.headerWait
        /\ r.outcome # "known-transient" => r.wait = 0
    BY <1>1, <2>0, <2>1, TelegramFailure
  <2>3. Read(a, r, {0, a.status, a.errorCode})
    BY <1>3, <2>2 DEF Read
  <2> QED
    BY <2>2, <2>3 DEF r
<1>4. CASE ~a.net /\ a.status \in 200 .. 299
  <2>1. CASE a.json /\ ~a.ok
    <3> DEFINE code == C!TelegramErrorCode(a)
    <3>1. r = C!TelegramClassifyFailure(0, a, 0)
      BY <1>4, <2>1 DEF C!TelegramSend, C!TelegramClassifyResponse
    <3> HIDE DEF r
    <3>0. 0 \in Codes /\ 0 \in Nat
      BY DEF Codes
    <3>2. /\ code \in Codes
          /\ r.outcome = Verdict(code) /\ r.code = code /\ r.id = FALSE
          /\ r.wait \in Nat
          /\ r.outcome # "known-transient" => r.wait = 0
      BY <3>0, <3>1, TelegramFailure
    <3>3. code \in {0, a.status, a.errorCode}
      BY DEF C!TelegramErrorCode, C!HttpStatus
    <3> HIDE DEF code
    <3>4. Read(a, r, {0, a.status, a.errorCode})
      BY <1>4, <3>2, <3>3 DEF Read
    <3> QED
      BY <1>4, <3>4 DEF r
  <2>2. CASE ~(a.json /\ ~a.ok)
    <3>1. r \in {C!Unknown, C!Result("success", 0, 0, TRUE)}
      BY <1>4, <2>2 DEF C!TelegramSend, C!TelegramClassifyResponse
    <3> QED
      BY <1>4, <3>1 DEF Read
  <2> QED
    BY <2>1, <2>2
<1> QED
  BY <1>2, <1>3, <1>4

LEMMA WhatsAppReads ==
  ASSUME C!StatusAssumption, NEW a \in C!Answer
  PROVE  LET r == C!WhatsAppSend(a)
         IN  /\ Read(a, r, {a.status})
             /\ (~a.net /\ a.status \notin 200 .. 299 /\ r.outcome = "known-transient")
                  => r.wait = a.headerWait
<1> DEFINE r == C!WhatsAppSend(a)
<1>1. a.status \in 100 .. 599 /\ a.headerWait \in Nat
  BY AnswerFields
<1>2. CASE a.net
  <2>1. r = C!Unknown
    BY <1>2 DEF C!WhatsAppSend
  <2> QED
    BY <1>2, <2>1 DEF Read
<1>3. CASE ~a.net /\ a.status \notin 200 .. 299
  <2>1. r = C!WhatsAppClassifyFailure(a.status, a.headerWait)
    BY <1>3 DEF C!WhatsAppSend
  <2>2. C!WhatsAppFailureOutcome(a.status) = Verdict(a.status)
    BY <1>1, FailureVerdicts
  <2>3. r = [outcome |-> Verdict(a.status), code |-> a.status,
             wait |-> IF Verdict(a.status) = "known-transient" THEN a.headerWait ELSE 0,
             id |-> FALSE]
    BY <2>1, <2>2 DEF C!WhatsAppClassifyFailure, C!Result
  <2> HIDE DEF r
  <2>4. Read(a, r, {a.status})
    BY <1>1, <1>3, <2>3 DEF Read, Codes
  <2>5. r.outcome = "known-transient" => r.wait = a.headerWait
    BY <2>3
  <2> QED
    BY <2>4, <2>5 DEF r
<1>4. CASE ~a.net /\ a.status \in 200 .. 299
  <2>1. r \in {C!Unknown, C!Result("success", 0, 0, TRUE)}
    BY <1>4 DEF C!WhatsAppSend, C!WhatsAppClassifyResponse
  <2> QED
    BY <1>4, <2>1 DEF Read
<1> QED
  BY <1>2, <1>3, <1>4

\* A result is not there yet, or it is what the client reads in the answer.
ReadInv ==
  /\ answer \in C!Answer
  /\ telegram \in {C!NotYet, C!TelegramSend(answer)}
  /\ whatsapp \in {C!NotYet, C!WhatsAppSend(answer)}

LEMMA ReadInvariant == C!Spec => []ReadInv
<1>1. C!Init => ReadInv
  BY DEF C!Init, ReadInv
<1>2. ReadInv /\ [C!Next]_(C!vars) => ReadInv'
  BY DEF ReadInv, C!Next, C!vars, C!ClassifyTelegram, C!ClassifyWhatsApp
<1> QED
  BY <1>1, <1>2, PTL DEF C!Spec

\* What is read passes the validators of the result types.
LEMMA ReadsAreValid ==
  ASSUME NEW a, NEW r, NEW codes, Read(a, r, codes)
  PROVE  C!ValidMetadata(r)
<1>1. CASE r = C!Result("success", 0, 0, TRUE)
  BY <1>1 DEF C!ValidMetadata, C!Result, C!Outcomes
<1>2. CASE r = C!Unknown
  BY <1>2 DEF C!ValidMetadata, C!Result, C!Unknown, C!Outcomes
<1>3. CASE \E code \in codes :
             /\ code \in Codes /\ r.code = code /\ r.outcome = Verdict(code) /\ r.id = FALSE
             /\ r.wait \in Nat
             /\ r.outcome # "known-transient" => r.wait = 0
  BY <1>3 DEF C!ValidMetadata, C!Outcomes, Codes, Verdict
<1> QED
  BY <1>1, <1>2, <1>3 DEF Read

\* Only a code of the 400s is called permanent, and an answer that never came
\* leaves the outcome open.
LEMMA PermanentIsRefused ==
  ASSUME NEW a, NEW r, NEW codes, Read(a, r, codes)
  PROVE  /\ r.outcome = "permanent" => \E code \in codes : code \in 400 .. 499
         /\ a.net => r.outcome = "unknown-outcome"
<1>1. CASE r = C!Result("success", 0, 0, TRUE) /\ ~a.net
  BY <1>1 DEF C!Result
<1>2. CASE r = C!Unknown
  BY <1>2 DEF C!Result, C!Unknown
<1>3. CASE ~a.net /\ \E code \in codes : code \in Codes /\ r.outcome = Verdict(code)
  BY <1>3 DEF Codes, Verdict
<1> QED
  BY <1>1, <1>2, <1>3 DEF Read

LEMMA ClassificationPart ==
  ASSUME C!StatusAssumption
  PROVE  C!Spec => []C!ClassificationSound
<1>1. ASSUME ReadInv PROVE C!ClassificationSound
  <2> DEFINE t == C!TelegramSend(answer)
             w == C!WhatsAppSend(answer)
  <2>1. /\ Read(answer, t, {0, answer.status, answer.errorCode})
        /\ (~answer.net /\ answer.status \notin 200 .. 299 /\ t.outcome = "known-transient")
             => t.wait >= answer.headerWait
    BY <1>1, TelegramReads DEF ReadInv
  <2>2. /\ Read(answer, w, {answer.status})
        /\ (~answer.net /\ answer.status \notin 200 .. 299 /\ w.outcome = "known-transient")
             => w.wait = answer.headerWait
    BY <1>1, WhatsAppReads DEF ReadInv
  <2>3. telegram \in {C!NotYet, t} /\ whatsapp \in {C!NotYet, w}
    BY <1>1 DEF ReadInv
  <2>4. answer.status \in 100 .. 599 /\ answer.headerWait \in Nat
    BY <1>1, AnswerFields DEF ReadInv
  <2>5. C!NotYet.outcome = "none"
    BY DEF C!NotYet, C!Result
  <2> HIDE DEF t, w
  <2>6. C!ClassificationNeverRaises
    BY <2>1, <2>2, <2>3, ReadsAreValid DEF C!ClassificationNeverRaises
  <2>7. C!PermanentOnlyIfRefused
    <3>1. /\ t.outcome = "permanent" => \E code \in {0, answer.status, answer.errorCode} :
                                         code \in 400 .. 499
          /\ answer.net => t.outcome = "unknown-outcome"
      BY <2>1, PermanentIsRefused
    <3>2. /\ w.outcome = "permanent" => \E code \in {answer.status} : code \in 400 .. 499
          /\ answer.net => w.outcome = "unknown-outcome"
      BY <2>2, PermanentIsRefused
    <3>3. telegram.outcome \in {"none", t.outcome} /\ whatsapp.outcome \in {"none", w.outcome}
      BY <2>3, <2>5
    <3>4. telegram.outcome = "permanent" =>
            {answer.status, answer.errorCode} \cap (400 .. 499) # {}
      <4>1. 0 \notin 400 .. 499
        OBVIOUS
      <4>2. telegram.outcome = "permanent" =>
              \E code \in {answer.status, answer.errorCode} : code \in 400 .. 499
        BY <3>1, <3>3, <4>1
      <4> QED
        BY <4>2
    <3>5. whatsapp.outcome = "permanent" => answer.status \in 400 .. 499
      BY <3>2, <3>3
    <3>6. answer.net => {telegram.outcome, whatsapp.outcome} \subseteq {"none", "unknown-outcome"}
      BY <3>1, <3>2, <3>3
    <3> QED
      BY <3>4, <3>5, <3>6 DEF C!PermanentOnlyIfRefused
  <2>8. C!ChannelsAgreeOnFailures
    <3> SUFFICES ASSUME telegram # C!NotYet, whatsapp # C!NotYet,
                        answer.net \/ answer.status \notin 200 .. 299
                 PROVE  /\ t.outcome = w.outcome /\ t.code = w.code /\ t.wait >= w.wait
      BY <2>3 DEF C!ChannelsAgreeOnFailures
    <3>1. CASE answer.net
      BY <2>1, <2>2, <3>1 DEF Read, C!Unknown, C!Result
    <3>2. CASE ~answer.net
      <4>1. /\ t.code = answer.status /\ t.outcome = Verdict(answer.status) /\ t.wait \in Nat
            /\ t.outcome # "known-transient" => t.wait = 0
        BY <2>1, <3>2 DEF Read
      <4>2. /\ w.code = answer.status /\ w.outcome = Verdict(answer.status) /\ w.wait \in Nat
            /\ w.outcome # "known-transient" => w.wait = 0
        BY <2>2, <3>2 DEF Read
      <4> QED
        BY <2>1, <2>2, <2>4, <3>2, <4>1, <4>2
    <3> QED
      BY <3>1, <3>2
  <2> QED
    BY <2>6, <2>7, <2>8 DEF C!ClassificationSound
<1> QED
  BY <1>1, ReadInvariant, PTL

\* _classify_failure and _classify_response of both clients: for any status,
\* error code and waits, the result types' validators do not raise, the two
\* copies of the failure rules agree, and only a refusal is called permanent.
THEOREM ClassificationAlwaysSound ==
  ASSUME C!StatusAssumption
  PROVE  ChannelSpec => []ClassificationSound
<1> DEFINE followed == side = "client"
<1>1. ChannelInit => (followed => C!Init)
  BY DEF ChannelInit
<1>2. [ChannelNext]_channelVars => (followed' <=> followed) /\ (followed => [C!Next]_C!vars)
  BY ChannelsApart
<1>3. (followed => C!ClassificationSound) => ClassificationSound
  BY DEF ClassificationSound
<1>4. C!Spec => []C!ClassificationSound
  BY ClassificationPart
<1> HIDE DEF followed
<1> QED
  BY <1>1, <1>2, <1>3, <1>4, PTL DEF ChannelSpec, C!Spec

-----------------------------------------------------------------------------
(* The chat webhooks.                                                      *)
(*                                                                         *)
(* Where a request stands says what it has done: only a request the route  *)
(* lets through has a body, its body speaks of the reading that stays      *)
(* registered and of the question that is saved for it, and an answer of   *)
(* 200 comes after a reply was put to the provider.  One request at most   *)
(* is between registering an event and saving its question.  Copies are    *)
(* counted with the requests that are past the check of the tool's         *)
(* dictionaries, deliveries with the requests still to come.  What is told *)
(* of WhatsApp rests on its requests all being on the event loop.          *)

WebhookAssumed == W!KindAssumption /\ W!WebhookAssumption /\ W!StatusAssumption

Stages == {"idle", "admit", "transcribe", "handle", "register", "extract", "approval",
           "check", "call", "record", "speak", "answer"}
HttpCodes == {0, 200, 403, 422, 500}
Phases == {"none", "running", "ask", "clarify", "done"}
Heard == Readings \cup {W!Nothing}
Said == W!Bodies \cup {W!NoBody}
Voiced == W!Takes \cup {W!Nothing}
Remembered == W!Outcomes \cup {"none"}

WebhookRequests ==
  [pc : Stages, ev : Events, reading : Heard, body : Said, take : Voiced,
   slot : W!Slots, res : Remembered, sent : BOOLEAN, code : HttpCodes]

WebhookCalls == [body : Said, run : Nat, taken : BOOLEAN,
                 outcome : W!Outcomes]

WebhookTypes ==
  /\ channel \in [Events -> W!Platforms]
  /\ kind \in [Events -> W!Kinds]
  /\ acked \in [Events -> BOOLEAN]
  /\ tries \in [Events -> Nat]
  /\ \A e \in Events : tries[e] <= MaxDeliveries[kind[e]]
  /\ req \in [W!Threads -> WebhookRequests]
  /\ registered \in [Events -> Heard]
  /\ phase \in [Events -> Phases]
  /\ approvalRow \in [Events -> Heard]
  /\ world \in {"before", "after"}
  /\ fingerprints \in [W!Keys -> W!Prints]
  /\ terminal \in [W!Keys -> Remembered]
  /\ calls \in [W!Keys -> Seq(WebhookCalls)]
  /\ restarts \in 0 .. MaxRestarts

InRouter == {"register", "extract", "approval"}
Early == {"admit", "transcribe", "handle"} \cup InRouter
Replying == {"check", "call", "record", "speak"}
TurnedAway == {"stranger", "unsigned", "status", "sticker"}

\* What every delivery of a command reads.
CommandReading == CHOOSE r \in Readings : TRUE

Asks(body) == body[1] \in {"ask", "clarify"}

\* A body that speaks of a reminder speaks of the registered one, with the
\* question that is saved for it.
Matches(body, e) ==
  /\ Asks(body) => registered[e] # W!Nothing /\ body[2] = registered[e]
  /\ body[1] = "ask" => phase[e] \in {"ask", "done"}
  /\ body[1] = "clarify" => phase[e] = "clarify"

\* Whoever asks for an approval has stored it.
Actionable(body, e) == body[1] = "ask" => approvalRow[e] # W!Nothing

Announced(e) == calls[<<e, "reply">>] # <<>>

\* What a request has done, by where it stands.
Fits(r) ==
  /\ Matches(r.body, r.ev)
  /\ r.pc \in Early \cup {"speak"} => r.slot = "reply"
  /\ r.pc \in Replying => r.body # W!NoBody /\ Actionable(r.body, r.ev)
  /\ r.pc \in InRouter => r.reading \in Readings
  /\ r.pc \in {"extract", "approval"} => registered[r.ev] = r.reading
  /\ r.pc = "approval" => r.body[1] = "ask"
  /\ kind[r.ev] = "command" =>
       /\ r.pc # "transcribe"
       /\ r.pc \in InRouter => r.reading = CommandReading
       /\ r.pc \in Replying => registered[r.ev] # W!Nothing
       /\ r.pc = "answer" /\ r.code = 200 => registered[r.ev] # W!Nothing /\ Announced(r.ev)
  /\ kind[r.ev] \in TurnedAway =>
       /\ r.pc \in {"idle", "admit", "answer"}
       /\ r.pc = "answer" /\ r.code = 200 => kind[r.ev] = "status"
  /\ r.pc = "record" => calls[W!KeyOf(r)] # <<>> /\ r.res # "none"
  /\ r.pc = "speak" \/ r.slot = "reply-audio" => Announced(r.ev)

RequestsInv == \A t \in W!Threads : Fits(req[t])

\* The question of an event is saved by the one request that registered it.
ExtractorInv ==
  \A t \in W!Threads : req[t].pc = "extract" =>
    /\ phase[req[t].ev] = "running"
    /\ \A u \in W!Threads : req[u].pc = "extract" /\ req[u].ev = req[t].ev => u = t

\* What has been put to the provider, and what the tool remembers of it.
CallsInv ==
  \A k \in W!Keys :
    /\ \A i \in DOMAIN calls[k] :
         /\ Matches(calls[k][i].body, k[1])
         /\ Actionable(calls[k][i].body, k[1])
         /\ calls[k][i].run <= restarts
    /\ kind[k[1]] = "command" /\ calls[k] # <<>> => registered[k[1]] # W!Nothing
    /\ fingerprints[k] # W!NoPrint \/ terminal[k] # "none" => calls[k] # <<>>
    /\ kind[k[1]] \in TurnedAway => calls[k] = <<>>

EventsInv ==
  \A e \in Events :
    /\ registered[e] = W!Nothing <=> phase[e] = "none"
    /\ approvalRow[e] \in {W!Nothing, registered[e]}
    /\ kind[e] = "command" => /\ registered[e] \in {W!Nothing, CommandReading}
                              /\ acked[e] => Announced(e)
    /\ kind[e] \in TurnedAway => /\ registered[e] = W!Nothing
                                 /\ acked[e] => kind[e] = "status"

WebhookInv == WebhookTypes /\ RequestsInv /\ ExtractorInv /\ CallsInv /\ EventsInv

\* A request is on a thread of its channel.
PlacedInv == \A t \in W!Threads : req[t].pc # "idle" => t \in W!Pool(channel[req[t].ev])

\* On the event loop a command is told its question, unless its workflow was left
\* running, or had been approved: the loop is past whoever might still save it.
QuestionsInv ==
  \A e \in Events : channel[e] = "whatsapp" /\ kind[e] = "command" =>
    /\ \A i \in DOMAIN calls[<<e, "reply">>] :
         Asks(calls[<<e, "reply">>][i].body) \/ phase[e] \in {"running", "done"}
    /\ req[EventLoop].ev = e =>
         /\ req[EventLoop].pc \in Replying =>
              Asks(req[EventLoop].body) \/ phase[e] \in {"running", "done"}
         /\ req[EventLoop].pc = "extract" => calls[<<e, "reply">>] = <<>>

\* Requests under whose delivery a reply may yet be put to the provider in a slot.
MayCall(r, slot) ==
  \/ r.pc \in Early
  \/ r.pc \in {"check", "call"} /\ r.slot \in {slot, "reply"}
  \/ slot = "reply-audio" /\ r.slot = "reply" /\ r.pc \in {"record", "speak"}

Ahead(k) == {t \in W!Threads : req[t].ev = k[1] /\ MayCall(req[t], k[2])}

\* Every call belongs to a delivery of its own.
DeliveredInv == \A k \in W!Keys : Len(calls[k]) + Cardinality(Ahead(k)) <= tries[k[1]]

\* The calls of one run whose answer did not ask for another.
Copies(k, run) == {i \in DOMAIN calls[k] : /\ calls[k][i].run = run
                                           /\ calls[k][i].outcome # "known-transient"}
Calling(k) == {t \in W!Threads : req[t].pc = "call" /\ W!KeyOf(req[t]) = k}
Recording(k) == {t \in W!Threads : /\ req[t].pc = "record" /\ W!KeyOf(req[t]) = k
                                   /\ W!Remembers(req[t].res)}
Lanes(k) == W!Pool(channel[k[1]])

\* Until one of them is remembered, whoever made a copy has still to record it;
\* and nobody is past the check who would make one too many.
CopiesInv ==
  \A k \in W!Keys :
    /\ \A run \in 0 .. restarts - 1 : Cardinality(Copies(k, run)) <= Cardinality(Lanes(k))
    /\ terminal[k] = "none" =>
         Cardinality(Copies(k, restarts)) <= Cardinality(Recording(k))
    /\ Cardinality(Copies(k, restarts)) + Cardinality(Calling(k)) <= Cardinality(Lanes(k))

\* The chat holds the text, sent in this run or an earlier one.
InChat(k, body) == \E i \in DOMAIN calls[k] : calls[k][i].taken /\ calls[k][i].body = body

FitsAlone(r) ==
  /\ r.pc = "call" => ~W!Differs(r)
  /\ r.pc = "record" => /\ fingerprints[W!KeyOf(r)] = W!PrintOf(r)
                        /\ r.res = "success" => InChat(W!KeyOf(r), r.body)
  /\ r.sent => /\ r.pc \in Replying \cup {"answer"}
               /\ InChat(<<r.ev, "reply">>, r.body)

\* On the event loop, what the tool remembers is what it sent.
SingleInv ==
  /\ \A k \in W!Keys : channel[k[1]] = "whatsapp" =>
       /\ \A i \in DOMAIN calls[k] :
            calls[k][i].run = restarts => /\ fingerprints[k] # W!NoPrint
                                          /\ calls[k][i].body = fingerprints[k][1]
       /\ terminal[k] = "success" => /\ fingerprints[k] # W!NoPrint
                                     /\ InChat(k, fingerprints[k][1])
  /\ FitsAlone(req[EventLoop])

LEMMA IdleRequest ==
  ASSUME WebhookAssumed
  PROVE  /\ W!Idle \in WebhookRequests
         /\ W!Idle.pc = "idle" /\ W!Idle.body = W!NoBody /\ W!Idle.slot = "reply"
         /\ W!Idle.sent = FALSE /\ W!Idle.code = 0
         /\ CommandReading \in Readings /\ CommandReading # W!Nothing
<1>1. (CHOOSE e \in Events : TRUE) \in Events
  BY DEF WebhookAssumed, W!WebhookAssumption
<1>2. CommandReading \in Readings /\ CommandReading # W!Nothing
  BY DEF WebhookAssumed, W!WebhookAssumption, CommandReading
<1> DEFINE e0 == CHOOSE e \in Events : TRUE
<1> HIDE DEF e0
<1>3. W!Idle = [pc |-> "idle", ev |-> e0, reading |-> W!Nothing,
                body |-> W!NoBody, take |-> W!Nothing, slot |-> "reply",
                res |-> "none", sent |-> FALSE, code |-> 0]
  BY DEF W!Idle, e0
<1>4. W!Idle \in WebhookRequests
  <2>1. /\ "idle" \in Stages /\ W!Nothing \in Heard /\ W!NoBody \in Said
        /\ W!Nothing \in Voiced /\ "reply" \in W!Slots /\ "none" \in Remembered
        /\ 0 \in HttpCodes
    BY DEF Stages, Heard, Said, Voiced, W!Slots, Remembered, HttpCodes
  <2>2. e0 \in Events
    BY <1>1 DEF e0
  <2> QED
    BY <1>3, <2>1, <2>2, Zenon DEF WebhookRequests
<1> QED
  BY <1>2, <1>3, <1>4

LEMMA RequestUpdates ==
  ASSUME NEW r \in WebhookRequests
  PROVE  /\ \A x \in Stages : [r EXCEPT !.pc = x] \in WebhookRequests
         /\ \A x \in Events : [r EXCEPT !.ev = x] \in WebhookRequests
         /\ \A x \in Heard : [r EXCEPT !.reading = x] \in WebhookRequests
         /\ \A x \in Said : [r EXCEPT !.body = x] \in WebhookRequests
         /\ \A x \in Voiced : [r EXCEPT !.take = x] \in WebhookRequests
         /\ \A x \in W!Slots : [r EXCEPT !.slot = x] \in WebhookRequests
         /\ \A x \in Remembered : [r EXCEPT !.res = x] \in WebhookRequests
         /\ \A x \in BOOLEAN : [r EXCEPT !.sent = x] \in WebhookRequests
         /\ \A x \in HttpCodes : [r EXCEPT !.code = x] \in WebhookRequests
<1>1. \A x \in Stages : [r EXCEPT !.pc = x] \in WebhookRequests
  BY DEF WebhookRequests
<1>2. \A x \in Events : [r EXCEPT !.ev = x] \in WebhookRequests
  BY DEF WebhookRequests
<1>3. \A x \in Heard : [r EXCEPT !.reading = x] \in WebhookRequests
  BY DEF WebhookRequests
<1>4. \A x \in Said : [r EXCEPT !.body = x] \in WebhookRequests
  BY DEF WebhookRequests
<1>5. \A x \in Voiced : [r EXCEPT !.take = x] \in WebhookRequests
  BY DEF WebhookRequests
<1>6. \A x \in W!Slots : [r EXCEPT !.slot = x] \in WebhookRequests
  BY DEF WebhookRequests
<1>7. \A x \in Remembered : [r EXCEPT !.res = x] \in WebhookRequests
  BY DEF WebhookRequests
<1>8. \A x \in BOOLEAN : [r EXCEPT !.sent = x] \in WebhookRequests
  BY DEF WebhookRequests
<1>9. \A x \in HttpCodes : [r EXCEPT !.code = x] \in WebhookRequests
  BY DEF WebhookRequests
<1> QED
  BY <1>1, <1>2, <1>3, <1>4, <1>5, <1>6, <1>7, <1>8, <1>9

\* The step of a request to a record of its own, the others as they were.
Moved(t, n) == n \in WebhookRequests /\ req' = [req EXCEPT ![t] = n]


LEMMA OthersStay ==
  ASSUME WebhookTypes, NEW t \in W!Threads, NEW n, Moved(t, n)
  PROVE  /\ req' \in [W!Threads -> WebhookRequests]
         /\ req'[t] = n
         /\ \A u \in W!Threads : u # t => req'[u] = req[u]
BY DEF WebhookTypes, Moved

LEMMA SendReturns ==
  ASSUME WebhookAssumed, NEW c \in W!Platforms, NEW a \in Answers[c]
  PROVE  W!Send(c, a.answer).outcome \in W!Outcomes
<1>1. a.answer \in W!Answer
  BY DEF WebhookAssumed, W!WebhookAssumption
<1> DEFINE b == a.answer
<1> HIDE DEF b
<1>2. \A code \in Nat : W!TelegramFailureOutcome(code) \in W!Outcomes
  BY DEF W!TelegramFailureOutcome, W!Outcomes
<1>3. \A code \in Nat : W!WhatsAppFailureOutcome(code) \in W!Outcomes
  BY DEF W!WhatsAppFailureOutcome, W!Outcomes
<1>4. b.status \in Nat /\ b.errorCode \in Nat
  <2>1. b.status \in Statuses /\ b.errorCode \in ErrorCodes
    BY <1>1 DEF b, W!Answer
  <2>2. Statuses \subseteq 100 .. 599 /\ ErrorCodes \subseteq Nat
    BY DEF WebhookAssumed, W!StatusAssumption
  <2>3. b.status \in 100 .. 599 /\ b.errorCode \in Nat
    BY <2>1, <2>2, Zenon
  <2> QED
    BY <2>3
<1>5. ASSUME NEW h \in Nat, NEW w
      PROVE  W!TelegramClassifyFailure(h, b, w).outcome \in W!Outcomes
  <2>1. (IF h # 0 THEN h ELSE W!TelegramErrorCode(b)) \in Nat
    BY <1>4 DEF W!TelegramErrorCode, W!HttpStatus
  <2> QED
    BY <1>2, <2>1 DEF W!TelegramClassifyFailure, W!Result
<1>6. W!TelegramSend(b).outcome \in W!Outcomes
  BY <1>4, <1>5 DEF W!TelegramSend, W!TelegramClassifyResponse, W!Unknown, W!Result,
                    W!Outcomes, W!HttpStatus
<1>7. W!WhatsAppSend(b).outcome \in W!Outcomes
  BY <1>3, <1>4 DEF W!WhatsAppSend, W!WhatsAppClassifyResponse, W!WhatsAppClassifyFailure,
                    W!Unknown, W!Result, W!Outcomes
<1> QED
  BY <1>6, <1>7 DEF b, W!Send

LEMMA ReturnedRequest ==
  ASSUME NEW r \in WebhookRequests, NEW outcome
  PROVE  /\ W!Returned(r, outcome) \in WebhookRequests
         /\ W!Returned(r, outcome).pc \in {"speak", "answer"}
         /\ W!Returned(r, outcome).pc = "speak" => r.slot = "reply"
         /\ W!Returned(r, outcome).ev = r.ev
         /\ W!Returned(r, outcome).body = r.body
         /\ W!Returned(r, outcome).slot = r.slot
         /\ W!Returned(r, outcome).code = 200
         /\ W!Returned(r, outcome).sent =>
              r.sent \/ (r.slot = "reply" /\ W!SentOf(channel[r.ev], outcome))
<1> DEFINE s == W!SentOf(channel[r.ev], outcome)
<1>1. s \in BOOLEAN
  BY DEF W!SentOf
<1>2. CASE r.slot = "reply"
  <2> DEFINE p == IF s /\ W!Speaks(r) THEN "speak" ELSE "answer"
  <2>1. p \in {"speak", "answer"}
    OBVIOUS
  <2>2. W!Returned(r, outcome) =
          [r EXCEPT !.sent = s, !.res = "none", !.code = 200, !.pc = p]
    BY <1>2 DEF W!Returned
  <2> HIDE DEF p, s
  <2>3. W!Returned(r, outcome) \in WebhookRequests
    <3>1. p \in Stages /\ 200 \in HttpCodes /\ "none" \in Remembered
      BY <2>1 DEF Stages, HttpCodes, Remembered
    <3>2. PICK m : m = [r EXCEPT !.sent = s]
      OBVIOUS
    <3>3. PICK m2 : m2 = [m EXCEPT !.res = "none"]
      OBVIOUS
    <3>4. PICK m3 : m3 = [m2 EXCEPT !.code = 200]
      OBVIOUS
    <3>5. m \in WebhookRequests
      BY <1>1, <3>2, RequestUpdates
    <3>6. m2 \in WebhookRequests
      BY <3>1, <3>3, <3>5, RequestUpdates
    <3>7. m3 \in WebhookRequests
      BY <3>1, <3>4, <3>6, RequestUpdates
    <3>8. [m3 EXCEPT !.pc = p] \in WebhookRequests
      BY <3>1, <3>7, RequestUpdates
    <3>9. W!Returned(r, outcome) = [m3 EXCEPT !.pc = p]
      BY <2>2, <3>2, <3>3, <3>4
    <3> QED
      BY <3>8, <3>9
  <2>4. /\ W!Returned(r, outcome).pc = p
        /\ W!Returned(r, outcome).ev = r.ev
        /\ W!Returned(r, outcome).body = r.body
        /\ W!Returned(r, outcome).slot = r.slot
        /\ W!Returned(r, outcome).code = 200
        /\ W!Returned(r, outcome).sent = s
    BY <2>2 DEF WebhookRequests
  <2> QED
    BY <1>2, <2>1, <2>3, <2>4 DEF s
<1>3. CASE r.slot # "reply"
  <2>1. W!Returned(r, outcome) = [r EXCEPT !.res = "none", !.code = 200, !.pc = "answer"]
    BY <1>3 DEF W!Returned
  <2>2. W!Returned(r, outcome) \in WebhookRequests
    <3>1. "answer" \in Stages /\ 200 \in HttpCodes /\ "none" \in Remembered
      BY DEF Stages, HttpCodes, Remembered
    <3>2. PICK m : m = [r EXCEPT !.res = "none"]
      OBVIOUS
    <3>3. PICK m2 : m2 = [m EXCEPT !.code = 200]
      OBVIOUS
    <3>4. m \in WebhookRequests
      BY <3>1, <3>2, RequestUpdates
    <3>5. m2 \in WebhookRequests
      BY <3>1, <3>3, <3>4, RequestUpdates
    <3>6. [m2 EXCEPT !.pc = "answer"] \in WebhookRequests
      BY <3>1, <3>5, RequestUpdates
    <3>7. W!Returned(r, outcome) = [m2 EXCEPT !.pc = "answer"]
      BY <2>1, <3>2, <3>3
    <3> QED
      BY <3>6, <3>7
  <2>3. /\ W!Returned(r, outcome).pc = "answer"
        /\ W!Returned(r, outcome).ev = r.ev
        /\ W!Returned(r, outcome).body = r.body
        /\ W!Returned(r, outcome).slot = r.slot
        /\ W!Returned(r, outcome).code = 200
        /\ W!Returned(r, outcome).sent = r.sent
    BY <2>1 DEF WebhookRequests
  <2> QED
    BY <2>2, <2>3
<1> QED
  BY <1>2, <1>3

\* What a request keeps on most of its way.
Keeps(n, r) == /\ n.ev = r.ev /\ n.body = r.body /\ n.slot = r.slot
               /\ n.sent = r.sent /\ n.take = r.take

\* The ways a request's record changes.
LEMMA ToPlace ==
  ASSUME WebhookTypes, NEW t \in W!Threads, NEW x \in Stages,
         req' = [req EXCEPT ![t].pc = x]
  PROVE  \E n \in WebhookRequests :
           /\ Moved(t, n) /\ n.pc = x /\ Keeps(n, req[t])
           /\ n.code = req[t].code /\ n.res = req[t].res /\ n.reading = req[t].reading
<1>1. PICK r \in WebhookRequests : r = req[t]
  BY DEF WebhookTypes
<1>2. PICK n : n = [r EXCEPT !.pc = x]
  OBVIOUS
<1>3. n \in WebhookRequests
  BY <1>2, RequestUpdates
<1>4. Keeps(n, r) /\ n.pc = x /\ n.code = r.code /\ n.res = r.res /\ n.reading = r.reading
  BY <1>2 DEF Keeps, WebhookRequests
<1>5. req' = [req EXCEPT ![t] = n]
  BY <1>1, <1>2
<1> QED
  BY <1>1, <1>3, <1>4, <1>5 DEF Moved


LEMMA ToAnswer ==
  ASSUME WebhookTypes, NEW t \in W!Threads, NEW c \in HttpCodes,
         req' = [req EXCEPT ![t].pc = "answer", ![t].code = c]
  PROVE  \E n \in WebhookRequests :
           /\ Moved(t, n) /\ n.pc = "answer" /\ Keeps(n, req[t])
           /\ n.code = c /\ n.res = req[t].res
<1>1. PICK r \in WebhookRequests : r = req[t]
  BY DEF WebhookTypes
<1>2. PICK m : m = [r EXCEPT !.pc = "answer"]
  OBVIOUS
<1>3. PICK n : n = [m EXCEPT !.code = c]
  OBVIOUS
<1>4. m \in WebhookRequests
  BY <1>2, RequestUpdates DEF Stages
<1>5. n \in WebhookRequests
  BY <1>3, <1>4, RequestUpdates
<1>6. n = [r EXCEPT !.pc = "answer", !.code = c]
  BY <1>2, <1>3
<1>7. Keeps(n, r) /\ n.pc = "answer" /\ n.code = c /\ n.res = r.res
  BY <1>6 DEF Keeps, WebhookRequests
<1>8. req' = [req EXCEPT ![t] = n]
  BY <1>1, <1>6 DEF WebhookTypes
<1> QED
  BY <1>1, <1>5, <1>7, <1>8 DEF Moved

\* A question to ask: with an approval to store first, or as it is.
Worded(t, x, b) == req' = [req EXCEPT ![t].pc = x, ![t].body = b]

LEMMA ToReply ==
  ASSUME WebhookTypes, NEW t \in W!Threads, NEW x \in Stages, NEW b \in Said,
         Worded(t, x, b)
  PROVE  \E n \in WebhookRequests :
           /\ Moved(t, n) /\ n.pc = x /\ n.body = b /\ n.ev = req[t].ev
           /\ n.slot = req[t].slot /\ n.sent = req[t].sent /\ n.reading = req[t].reading
<1>1. PICK r \in WebhookRequests : r = req[t]
  BY DEF WebhookTypes
<1>2. PICK m : m = [r EXCEPT !.pc = x]
  OBVIOUS
<1>3. PICK n : n = [m EXCEPT !.body = b]
  OBVIOUS
<1>4. m \in WebhookRequests
  BY <1>2, RequestUpdates
<1>5. n \in WebhookRequests
  BY <1>3, <1>4, RequestUpdates
<1>6. n = [r EXCEPT !.pc = x, !.body = b]
  BY <1>2, <1>3
<1>7. /\ n.pc = x /\ n.body = b /\ n.ev = r.ev /\ n.slot = r.slot /\ n.sent = r.sent
      /\ n.reading = r.reading
  BY <1>6 DEF WebhookRequests
<1>8. req' = [req EXCEPT ![t] = n]
  BY <1>1, <1>6 DEF WebhookTypes, Worded
<1> QED
  BY <1>1, <1>5, <1>7, <1>8 DEF Moved


LEMMA ToCheck ==
  ASSUME WebhookTypes, NEW t \in W!Threads, NEW b \in Said,
         req' = [req EXCEPT ![t].pc = "check", ![t].body = b]
  PROVE  \E n \in WebhookRequests :
           /\ Moved(t, n) /\ n.pc = "check" /\ n.body = b /\ n.ev = req[t].ev
           /\ n.slot = req[t].slot /\ n.sent = req[t].sent
<1>1. PICK r \in WebhookRequests : r = req[t]
  BY DEF WebhookTypes
<1>2. PICK m : m = [r EXCEPT !.pc = "check"]
  OBVIOUS
<1>3. PICK n : n = [m EXCEPT !.body = b]
  OBVIOUS
<1>4. m \in WebhookRequests
  BY <1>2, RequestUpdates DEF Stages
<1>5. n \in WebhookRequests
  BY <1>3, <1>4, RequestUpdates
<1>6. n = [r EXCEPT !.pc = "check", !.body = b]
  BY <1>2, <1>3
<1>7. n.pc = "check" /\ n.body = b /\ n.ev = r.ev /\ n.slot = r.slot /\ n.sent = r.sent
  BY <1>6 DEF WebhookRequests
<1>8. req' = [req EXCEPT ![t] = n]
  BY <1>1, <1>6 DEF WebhookTypes
<1> QED
  BY <1>1, <1>5, <1>7, <1>8 DEF Moved


LEMMA DeliverMoves ==
  ASSUME WebhookAssumed, WebhookTypes, NEW t \in W!Threads, NEW e \in Events, W!Deliver(t, e)
  PROVE  \E n \in WebhookRequests :
           /\ Moved(t, n) /\ n.pc = "admit" /\ n.ev = e /\ n.body = W!NoBody
           /\ n.slot = "reply" /\ n.sent = FALSE /\ n.code = 0
<1>1. PICK r \in WebhookRequests : r = W!Idle
  BY IdleRequest
<1>2. PICK m : m = [r EXCEPT !.pc = "admit"]
  OBVIOUS
<1>3. PICK n : n = [m EXCEPT !.ev = e]
  OBVIOUS
<1>4. m \in WebhookRequests
  BY <1>2, RequestUpdates DEF Stages
<1>5. n \in WebhookRequests
  BY <1>3, <1>4, RequestUpdates
<1>6. n = [r EXCEPT !.pc = "admit", !.ev = e]
  BY <1>2, <1>3
<1>7. n.pc = "admit" /\ n.ev = e /\ n.body = r.body /\ n.slot = r.slot
        /\ n.sent = r.sent /\ n.code = r.code
  BY <1>6 DEF WebhookRequests
<1>8. req' = [req EXCEPT ![t] = n]
  BY <1>1, <1>6 DEF W!Deliver
<1> QED
  BY <1>1, <1>5, <1>7, <1>8, IdleRequest DEF Moved

\* Where the checks before the router may lead.
AdmittedTo(n, r) ==
  \/ n.pc = "answer" /\ n.code \in {403, 422} /\ n.body = r.body
  \/ kind[r.ev] = "status" /\ n.pc = "answer" /\ n.code = 200 /\ n.body = r.body
  \/ kind[r.ev] = "image" /\ n.pc = "check" /\ n.body = <<"unsupported", W!Nothing>>
  \/ /\ kind[r.ev] \in {"command", "text", "voice", "query"}
     /\ n.pc \in {"transcribe", "handle"}
     /\ n.pc = "transcribe" <=> kind[r.ev] = "voice"
     /\ n.body = r.body

LEMMA SpokenBodies ==
  /\ <<"unsupported", W!Nothing>> \in Said /\ <<"error", W!Nothing>> \in Said
  /\ <<"duplicate", W!Nothing>> \in Said
  /\ \A v \in {"before", "after"} : <<"view", v>> \in Said
  /\ \A p \in {"ask", "clarify"}, x \in Readings : <<p, x>> \in Said
BY DEF Said, W!Bodies, W!Fixed, W!Views, W!Questions

LEMMA AdmitMoves ==
  ASSUME WebhookAssumed, WebhookTypes, NEW t \in W!Threads, W!Admit(t)
  PROVE  \E n \in WebhookRequests :
           /\ Moved(t, n) /\ n.ev = req[t].ev /\ n.slot = req[t].slot
           /\ n.sent = req[t].sent /\ AdmittedTo(n, req[t])
<1>1. PICK r \in WebhookRequests : r = req[t]
  BY DEF WebhookTypes
<1>2. kind[r.ev] \in W!Kinds
  BY DEF WebhookTypes, WebhookRequests
<1>3. PICK d : d = W!Disposition(channel[r.ev], kind[r.ev])
  OBVIOUS
<1>4. /\ d \in {"refuse", "invalid", "ignore", "unsupported", "transcribe", "handle"}
      /\ d = "ignore" => kind[r.ev] = "status"
      /\ d = "unsupported" => kind[r.ev] = "image"
      /\ d = "transcribe" => kind[r.ev] = "voice"
      /\ d = "handle" => kind[r.ev] \in {"command", "text", "query"}
  BY <1>2, <1>3 DEF W!Disposition, W!Kinds
<1>5. ASSUME NEW c \in HttpCodes, req' = [req EXCEPT ![t] = [r EXCEPT !.pc = "answer", !.code = c]]
      PROVE  \E n \in WebhookRequests :
               Moved(t, n) /\ Keeps(n, req[t]) /\ n.pc = "answer" /\ n.code = c
  <2>1. req' = [req EXCEPT ![t].pc = "answer", ![t].code = c]
    BY <1>1, <1>5 DEF WebhookTypes
  <2> QED
    BY <2>1, ToAnswer
<1>6. CASE d = "refuse"
  <2>1. req' = [req EXCEPT ![t] = [r EXCEPT !.pc = "answer", !.code = 403]]
    BY <1>1, <1>3, <1>6 DEF W!Admit
  <2> QED
    BY <1>5, <2>1 DEF HttpCodes, Keeps, AdmittedTo
<1>7. CASE d = "invalid"
  <2>1. req' = [req EXCEPT ![t] = [r EXCEPT !.pc = "answer", !.code = 422]]
    BY <1>1, <1>3, <1>7 DEF W!Admit
  <2> QED
    BY <1>5, <2>1 DEF HttpCodes, Keeps, AdmittedTo
<1>8. CASE d = "ignore"
  <2>1. req' = [req EXCEPT ![t] = [r EXCEPT !.pc = "answer", !.code = 200]]
    BY <1>1, <1>3, <1>8 DEF W!Admit
  <2> QED
    BY <1>1, <1>4, <1>5, <1>8, <2>1 DEF HttpCodes, Keeps, AdmittedTo
<1>9. CASE d = "unsupported"
  <2>1. req' = [req EXCEPT ![t] = [r EXCEPT !.pc = "check", !.body = <<"unsupported", W!Nothing>>]]
    BY <1>1, <1>3, <1>9 DEF W!Admit
  <2>2. /\ req' = [req EXCEPT ![t].pc = "check", ![t].body = <<"unsupported", W!Nothing>>]
        /\ "check" \in Stages
    BY <1>1, <2>1 DEF WebhookTypes, Stages
  <2>3. PICK n \in WebhookRequests :
          /\ Moved(t, n) /\ n.pc = "check" /\ n.body = <<"unsupported", W!Nothing>>
          /\ n.ev = req[t].ev /\ n.slot = req[t].slot /\ n.sent = req[t].sent
    BY <2>2, ToCheck, SpokenBodies
  <2> QED
    BY <1>1, <1>4, <1>9, <2>3 DEF AdmittedTo
<1>10. CASE d \in {"transcribe", "handle"}
  <2>1. req' = [req EXCEPT ![t] = [r EXCEPT !.pc = d]]
    BY <1>1, <1>3, <1>10 DEF W!Admit
  <2>2. req' = [req EXCEPT ![t].pc = d] /\ d \in Stages
    BY <1>1, <1>10, <2>1 DEF Stages
  <2>3. PICK n \in WebhookRequests : Moved(t, n) /\ n.pc = d /\ Keeps(n, req[t])
    BY <2>2, ToPlace
  <2> QED
    BY <1>1, <1>4, <1>10, <2>3 DEF AdmittedTo, Keeps
<1> QED
  BY <1>4, <1>6, <1>7, <1>8, <1>9, <1>10

LEMMA UnderstandMoves ==
  ASSUME WebhookAssumed, WebhookTypes, NEW t \in W!Threads, W!Understand(t)
  PROVE  \E n \in WebhookRequests :
           /\ Moved(t, n) /\ n.pc = "register" /\ Keeps(n, req[t]) /\ n.reading \in Readings
           /\ kind[req[t].ev] \in {"command", "text", "voice"}
           /\ kind[req[t].ev] = "command" => n.reading = CommandReading
<1>1. PICK r \in WebhookRequests : r = req[t]
  BY DEF WebhookTypes
<1>2. PICK x \in W!ReadAs(kind[r.ev]) :
        req' = [req EXCEPT ![t].pc = "register", ![t].reading = x]
  BY <1>1 DEF W!Understand
<1>3. /\ x \in Readings /\ kind[r.ev] \in {"command", "text", "voice"}
      /\ kind[r.ev] = "command" => x = CommandReading
  <2>1. W!ReadAs("command") = {CommandReading}
    BY DEF W!ReadAs, CommandReading
  <2>2. kind[r.ev] \in {"text", "voice"} => W!ReadAs(kind[r.ev]) = Readings
    BY DEF W!ReadAs
  <2>3. kind[r.ev] \notin {"command", "text", "voice"} => W!ReadAs(kind[r.ev]) = {}
    BY DEF W!ReadAs
  <2> QED
    BY <2>1, <2>2, <2>3, IdleRequest
<1>4. PICK m : m = [r EXCEPT !.pc = "register"]
  OBVIOUS
<1>5. PICK n : n = [m EXCEPT !.reading = x]
  OBVIOUS
<1>6. m \in WebhookRequests
  BY <1>4, RequestUpdates DEF Stages
<1>7. n \in WebhookRequests
  BY <1>3, <1>5, <1>6, RequestUpdates DEF Heard
<1>8. n = [r EXCEPT !.pc = "register", !.reading = x]
  BY <1>4, <1>5
<1>9. n.pc = "register" /\ Keeps(n, r) /\ n.reading = x
  BY <1>8 DEF WebhookRequests, Keeps
<1>10. req' = [req EXCEPT ![t] = n]
  BY <1>1, <1>2, <1>8 DEF WebhookTypes
<1> QED
  BY <1>1, <1>3, <1>7, <1>9, <1>10 DEF Moved


LEMMA CallMoves ==
  ASSUME WebhookTypes, NEW t \in W!Threads, NEW x \in W!Outcomes,
         req' = [req EXCEPT ![t].pc = "record", ![t].res = x]
  PROVE  \E n \in WebhookRequests :
           Moved(t, n) /\ n.pc = "record" /\ n.res = x /\ Keeps(n, req[t])
<1>1. PICK r \in WebhookRequests : r = req[t]
  BY DEF WebhookTypes
<1>2. PICK m : m = [r EXCEPT !.pc = "record"]
  OBVIOUS
<1>3. PICK n : n = [m EXCEPT !.res = x]
  OBVIOUS
<1>4. m \in WebhookRequests
  BY <1>2, RequestUpdates DEF Stages
<1>5. n \in WebhookRequests
  BY <1>3, <1>4, RequestUpdates DEF Remembered
<1>6. n = [r EXCEPT !.pc = "record", !.res = x]
  BY <1>2, <1>3
<1>7. n.pc = "record" /\ n.res = x /\ Keeps(n, r)
  BY <1>6 DEF WebhookRequests, Keeps
<1>8. req' = [req EXCEPT ![t] = n]
  BY <1>1, <1>6 DEF WebhookTypes
<1> QED
  BY <1>1, <1>5, <1>7, <1>8 DEF Moved


LEMMA SpeakMoves ==
  ASSUME WebhookTypes, NEW t \in W!Threads, W!Speak(t)
  PROVE  \E n \in WebhookRequests :
           /\ Moved(t, n) /\ n.ev = req[t].ev /\ n.body = req[t].body
           /\ n.sent = req[t].sent
           /\ \/ n.pc = "check" /\ n.slot = "reply-audio"
              \/ n.pc = "answer" /\ n.slot = req[t].slot
<1>1. PICK r \in WebhookRequests : r = req[t]
  BY DEF WebhookTypes
<1>2. CASE req' = [req EXCEPT ![t].pc = "answer"]
  <2>1. "answer" \in Stages
    BY DEF Stages
  <2>2. PICK n \in WebhookRequests : Moved(t, n) /\ n.pc = "answer" /\ Keeps(n, req[t])
    BY <1>2, <2>1, ToPlace
  <2> QED
    BY <2>2 DEF Keeps
<1>3. ASSUME NEW x \in W!Takes,
             req' = [req EXCEPT ![t].pc = "check", ![t].slot = "reply-audio", ![t].take = x]
      PROVE  \E n \in WebhookRequests :
               /\ Moved(t, n) /\ n.ev = req[t].ev /\ n.body = req[t].body
               /\ n.sent = req[t].sent /\ n.pc = "check" /\ n.slot = "reply-audio"
  <2>1. PICK m : m = [r EXCEPT !.pc = "check"]
    OBVIOUS
  <2>2. PICK m2 : m2 = [m EXCEPT !.slot = "reply-audio"]
    OBVIOUS
  <2>3. PICK n : n = [m2 EXCEPT !.take = x]
    OBVIOUS
  <2>4. m \in WebhookRequests
    BY <2>1, RequestUpdates DEF Stages
  <2>5. m2 \in WebhookRequests
    BY <2>2, <2>4, RequestUpdates DEF W!Slots
  <2>6. n \in WebhookRequests
    BY <2>3, <2>5, RequestUpdates DEF Voiced
  <2>7. n = [r EXCEPT !.pc = "check", !.slot = "reply-audio", !.take = x]
    BY <2>1, <2>2, <2>3
  <2>8. /\ n.pc = "check" /\ n.ev = r.ev /\ n.body = r.body
        /\ n.slot = "reply-audio" /\ n.sent = r.sent
    BY <2>7 DEF WebhookRequests
  <2>9. req' = [req EXCEPT ![t] = n]
    BY <1>1, <1>3, <2>7 DEF WebhookTypes
  <2> QED
    BY <1>1, <2>6, <2>8, <2>9 DEF Moved
<1> QED
  BY <1>2, <1>3 DEF W!Speak

LEMMA ReturnMoves ==
  ASSUME WebhookTypes, NEW t \in W!Threads, NEW x,
         req' = [req EXCEPT ![t] = W!Returned(req[t], x)]
  PROVE  \E n \in WebhookRequests :
           /\ Moved(t, n) /\ n.pc \in {"speak", "answer"}
           /\ n.pc = "speak" => req[t].slot = "reply"
           /\ n.ev = req[t].ev /\ n.body = req[t].body /\ n.slot = req[t].slot
           /\ n.sent => req[t].sent
                          \/ (req[t].slot = "reply" /\ W!SentOf(channel[req[t].ev], x))
<1>1. req[t] \in WebhookRequests
  BY DEF WebhookTypes
<1>2. Moved(t, W!Returned(req[t], x))
  BY <1>1, ReturnedRequest DEF Moved
<1> QED
  BY <1>1, <1>2, ReturnedRequest

\* What is registered, asked and stored stays, and what was put to the provider.
Grown == /\ channel' = channel /\ kind' = kind
         /\ \A e \in Events : registered[e] # W!Nothing => registered'[e] = registered[e]
         /\ \A e \in Events : phase[e] \in {"ask", "done"} => phase'[e] \in {"ask", "done"}
         /\ \A e \in Events : phase[e] = "clarify" => phase'[e] = "clarify"
         /\ \A e \in Events : approvalRow[e] # W!Nothing => approvalRow'[e] = approvalRow[e]
         /\ \A k \in W!Keys : calls[k] # <<>> => calls'[k] # <<>>


LEMMA KeysAre ==
  /\ \A e \in Events : <<e, "reply">> \in W!Keys /\ <<e, "reply-audio">> \in W!Keys
  /\ \A r \in WebhookRequests : /\ W!KeyOf(r) \in W!Keys
                                /\ W!KeyOf(r)[1] = r.ev /\ W!KeyOf(r)[2] = r.slot
  /\ \A k \in W!Keys : /\ k[1] \in Events /\ k[2] \in W!Slots
                       /\ k = <<k[1], k[2]>>
BY DEF W!Keys, W!Slots, W!KeyOf, WebhookRequests

LEMMA StillMatches ==
  ASSUME Grown, NEW e \in Events, NEW body
  PROVE  /\ Matches(body, e) => Matches(body, e)'
         /\ Actionable(body, e) => Actionable(body, e)'
BY DEF Grown, Matches, Asks, Actionable

LEMMA StillFits ==
  ASSUME WebhookAssumed, Grown, NEW r \in WebhookRequests, Fits(r)
  PROVE  Fits(r)'
<1>1. r.ev \in Events
  BY DEF WebhookRequests
<1>2. Matches(r.body, r.ev)' /\ (Actionable(r.body, r.ev) => Actionable(r.body, r.ev)')
  BY <1>1, StillMatches DEF Fits
<1>3. Announced(r.ev) => Announced(r.ev)'
  BY <1>1, KeysAre DEF Grown, Announced
<1>4. calls[W!KeyOf(r)] # <<>> => calls'[W!KeyOf(r)] # <<>>
  BY KeysAre DEF Grown
<1>5. W!KeyOf(r)' = W!KeyOf(r)
  BY DEF W!KeyOf
<1>6. /\ kind'[r.ev] = kind[r.ev]
      /\ registered[r.ev] # W!Nothing => registered'[r.ev] = registered[r.ev]
      /\ r.reading \in Readings => r.reading # W!Nothing
  BY <1>1 DEF Grown, WebhookAssumed, W!WebhookAssumption
<1>7. r.pc \in {"extract", "approval"} => registered'[r.ev] = r.reading
  BY <1>6 DEF Fits, InRouter
<1> QED
  BY <1>2, <1>3, <1>4, <1>5, <1>6, <1>7 DEF Fits

\* A request moves: it has to fit where it goes.
LEMMA MovedFits ==
  ASSUME WebhookAssumed, WebhookTypes, RequestsInv, Grown, NEW t \in W!Threads, NEW n,
         Moved(t, n), Fits(n)'
  PROVE  RequestsInv'
<1>1. \A u \in W!Threads : req[u] \in WebhookRequests
  BY DEF WebhookTypes
<1>2. ASSUME NEW u \in W!Threads PROVE Fits(req[u])'
  <2>1. CASE u = t
    <3>1. req'[u] = n
      BY <2>1, OthersStay
    <3> QED
      BY <3>1 DEF Fits, Matches, Asks, Actionable, Announced, W!KeyOf
  <2>2. CASE u # t
    <3>1. PICK r \in WebhookRequests : r = req[u]
      BY <1>1
    <3>2. req'[u] = r
      BY <2>2, <3>1, OthersStay
    <3>3. Fits(r)'
      BY <3>1, StillFits DEF RequestsInv
    <3> QED
      BY <3>2, <3>3 DEF Fits, Matches, Asks, Actionable, Announced, W!KeyOf
  <2> QED
    BY <2>1, <2>2
<1> QED
  BY <1>2 DEF RequestsInv

LEMMA MovedExtractor ==
  ASSUME WebhookTypes, ExtractorInv, NEW t \in W!Threads, NEW n, Moved(t, n),
         n.pc # "extract", phase' = phase
  PROVE  ExtractorInv'
<1>1. \A u \in W!Threads : req'[u].pc = "extract" => req'[u] = req[u]
  BY OthersStay
<1> QED
  BY <1>1 DEF ExtractorInv

\* What was put to the provider is still true when nothing more is.
LEMMA StillCalls ==
  ASSUME WebhookTypes, CallsInv, Grown, UNCHANGED <<fingerprints, terminal, calls, restarts>>,
         \A e \in Events : kind[e] \in TurnedAway => registered'[e] = registered[e]
  PROVE  CallsInv'
<1>1. ASSUME NEW k \in W!Keys, NEW i \in DOMAIN calls[k]
      PROVE  Matches(calls[k][i].body, k[1])' /\ Actionable(calls[k][i].body, k[1])'
  <2>1. k[1] \in Events
    BY KeysAre
  <2>2. PICK b : b = calls[k][i].body
    OBVIOUS
  <2>3. Matches(b, k[1])' /\ Actionable(b, k[1])'
    BY <2>1, <2>2, StillMatches DEF CallsInv
  <2> QED
    BY <2>2, <2>3 DEF Matches, Asks, Actionable
<1>2. \A k \in W!Keys : registered[k[1]] # W!Nothing => registered'[k[1]] # W!Nothing
  BY KeysAre DEF Grown
<1> QED
  BY <1>1, <1>2 DEF CallsInv, Grown

\* A step that only moves a request.
LEMMA QuietInv ==
  ASSUME WebhookAssumed, WebhookInv, NEW t \in W!Threads, NEW n, Moved(t, n), Fits(n),
         n.pc # "extract",
         UNCHANGED <<channel, kind, acked, tries, registered, phase, approvalRow, world,
                     fingerprints, terminal, calls, restarts>>
  PROVE  WebhookInv'
<1>1. WebhookTypes'
  BY OthersStay DEF WebhookInv, WebhookTypes
<1>2. Grown
  BY DEF Grown
<1>3. RequestsInv'
  <2>1. Fits(n)'
    BY <1>2, StillFits DEF Moved
  <2> QED
    BY <1>2, <2>1, MovedFits DEF WebhookInv
<1>4. CallsInv'
  BY <1>2, StillCalls DEF WebhookInv
<1>5. EventsInv'
  BY DEF WebhookInv, EventsInv, Announced
<1>6. ExtractorInv'
  BY MovedExtractor DEF WebhookInv
<1> QED
  BY <1>1, <1>3, <1>4, <1>5, <1>6 DEF WebhookInv

LEMMA BodiesAre ==
  /\ W!NoBody[1] = "none"
  /\ \A x : <<"error", x>>[1] = "error" /\ <<"unsupported", x>>[1] = "unsupported"
  /\ \A x : <<"view", x>>[1] = "view" /\ <<"duplicate", x>>[1] = "duplicate"
  /\ \A p, x : <<p, x>>[1] = p /\ <<p, x>>[2] = x
BY DEF W!NoBody

\* A request after the checks of the route and in the transcriber.
LEMMA RouteInv ==
  ASSUME WebhookAssumed, WebhookInv, NEW t \in W!Threads,
         W!Admit(t) \/ W!TranscriptionFails(t) \/ W!Transcribe(t) \/ W!HandleRaises(t)
  PROVE  WebhookInv'
<1>1. PICK r \in WebhookRequests : r = req[t]
  BY DEF WebhookInv, WebhookTypes
<1>0. WebhookTypes
  BY DEF WebhookInv
<1>2. Fits(r) /\ WebhookTypes
  BY <1>1 DEF WebhookInv, RequestsInv
<1>3. UNCHANGED <<channel, kind, acked, tries, registered, phase, approvalRow, world,
                  fingerprints, terminal, calls, restarts>>
  BY DEF W!Admit, W!TranscriptionFails, W!Transcribe, W!HandleRaises, W!providerVars,
         W!storeVars, W!toolVars
<1>4. CASE W!Admit(t)
  <2>1. PICK n \in WebhookRequests :
          /\ Moved(t, n) /\ n.ev = r.ev /\ n.slot = r.slot
          /\ n.sent = r.sent /\ AdmittedTo(n, r)
    BY <1>1, <1>2, <1>4, AdmitMoves
  <2>2. r.pc = "admit"
    BY <1>1, <1>4 DEF W!Admit
  <2>3. r.slot = "reply" /\ Matches(r.body, r.ev)
    BY <1>2, <2>2 DEF Fits, Early
  <2>4. Matches(n.body, n.ev) /\ n.pc \in {"answer", "check", "transcribe", "handle"}
    BY <2>1, <2>3, BodiesAre DEF AdmittedTo, Matches, Asks
  <2>5. n.pc = "check" => n.body # W!NoBody /\ Actionable(n.body, n.ev)
    BY <2>1, BodiesAre DEF AdmittedTo, Actionable
  <2>6. Fits(n)
    BY <1>2, <2>1, <2>3, <2>4, <2>5
    DEF Fits, AdmittedTo, Early, InRouter, Replying, TurnedAway
  <2> QED
    BY <1>3, <2>1, <2>4, <2>6, QuietInv
<1>5. CASE W!TranscriptionFails(t)
  <2>1. r.pc = "transcribe" /\ req' = [req EXCEPT ![t].pc = "check", ![t].body = <<"error", W!Nothing>>]
    BY <1>1, <1>5 DEF W!TranscriptionFails
  <2>2. PICK n \in WebhookRequests :
          /\ Moved(t, n) /\ n.pc = "check" /\ n.body = <<"error", W!Nothing>> /\ n.ev = r.ev
          /\ n.slot = r.slot
    BY <1>1, <1>2, <2>1, SpokenBodies, ToCheck
  <2>3. Matches(n.body, n.ev) /\ n.body # W!NoBody /\ Actionable(n.body, n.ev)
    BY <2>2, BodiesAre DEF Matches, Asks, Actionable
  <2>4. Fits(n)
    BY <1>2, <2>1, <2>2, <2>3 DEF Fits, Early, InRouter, Replying, TurnedAway
  <2> QED
    BY <1>3, <2>2, <2>4, QuietInv
<1>6. CASE W!Transcribe(t)
  <2>1. r.pc = "transcribe" /\ req' = [req EXCEPT ![t].pc = "handle"] /\ "handle" \in Stages
    BY <1>1, <1>6 DEF W!Transcribe, Stages
  <2>2. PICK n \in WebhookRequests : Moved(t, n) /\ n.pc = "handle" /\ Keeps(n, r)
    BY <1>1, <1>2, <2>1, ToPlace
  <2>3. Fits(n)
    BY <1>2, <2>1, <2>2 DEF Fits, Keeps, Early, InRouter, Replying, TurnedAway
  <2> QED
    BY <1>3, <2>2, <2>3, QuietInv
<1>7. CASE W!HandleRaises(t)
  <2>0. req' = [req EXCEPT ![t].pc = "answer", ![t].code = 500]
    BY <1>7 DEF W!HandleRaises
  <2>1. r.pc \in Early /\ r.pc # "admit"
    BY <1>1, <1>7 DEF W!HandleRaises, Early, InRouter
  <2>2. PICK n \in WebhookRequests :
          Moved(t, n) /\ n.pc = "answer" /\ Keeps(n, r) /\ n.code = 500
    <3>1. PICK c \in HttpCodes : c = 500
      BY DEF HttpCodes
    <3>2. req' = [req EXCEPT ![t].pc = "answer", ![t].code = c]
      BY <2>0, <3>1
    <3>3. \E n \in WebhookRequests :
            Moved(t, n) /\ n.pc = "answer" /\ Keeps(n, req[t]) /\ n.code = c
      BY <1>0, <3>2, ToAnswer
    <3> QED
      BY <1>1, <3>1, <3>3
  <2>3. Fits(n)
    BY <1>2, <2>1, <2>2 DEF Fits, Keeps, Early, InRouter, Replying, TurnedAway
  <2> QED
    BY <1>3, <2>2, <2>3, QuietInv
<1> QED
  BY <1>4, <1>5, <1>6, <1>7

\* A request at the router that reads the text, or finds it registered.
LEMMA HandleInv ==
  ASSUME WebhookAssumed, WebhookInv, NEW t \in W!Threads,
         \/ W!Understand(t) \/ W!HandleQuery(t)
         \/ W!RegisterConflicts(t) \/ W!RegisterReplays(t)
  PROVE  WebhookInv'
<1>1. PICK r \in WebhookRequests : r = req[t]
  BY DEF WebhookInv, WebhookTypes
<1>0. WebhookTypes
  BY DEF WebhookInv
<1>2. Fits(r) /\ WebhookTypes /\ EventsInv /\ r.ev \in Events
  BY <1>1 DEF WebhookInv, RequestsInv, WebhookRequests
<1>3. UNCHANGED <<channel, kind, acked, tries, registered, phase, approvalRow, world,
                  fingerprints, terminal, calls, restarts>>
  BY DEF W!Understand, W!HandleQuery, W!RegisterConflicts, W!RegisterReplays, W!providerVars,
         W!storeVars, W!toolVars
<1>4. r.pc \in {"handle", "register"} /\ r.slot = "reply" /\ kind[r.ev] \notin TurnedAway
  <2>1. r.pc \in {"handle", "register"}
    BY <1>1 DEF W!Understand, W!HandleQuery, W!RegisterConflicts, W!RegisterReplays
  <2> QED
    BY <1>2, <2>1 DEF Fits, Early, InRouter, TurnedAway
<1>5. CASE W!Understand(t)
  <2>1. PICK n \in WebhookRequests :
          /\ Moved(t, n) /\ n.pc = "register" /\ Keeps(n, r) /\ n.reading \in Readings
          /\ kind[r.ev] = "command" => n.reading = CommandReading
    BY <1>1, <1>2, <1>5, UnderstandMoves
  <2>2. Fits(n)
    BY <1>2, <1>4, <2>1 DEF Fits, Keeps, Early, InRouter, Replying
  <2> QED
    BY <1>3, <2>1, <2>2, QuietInv
<1>6. CASE W!HandleQuery(t)
  <2>0. PICK b \in Said : b = <<"view", world>>
    BY <1>2, SpokenBodies DEF WebhookTypes
  <2>1. kind[r.ev] # "command"
    BY <1>1, <1>6 DEF W!HandleQuery
  <2>2. req' = [req EXCEPT ![t].pc = "check", ![t].body = b]
    BY <1>6, <2>0 DEF W!HandleQuery
  <2>3. PICK n \in WebhookRequests :
          /\ Moved(t, n) /\ n.pc = "check" /\ n.body = b /\ n.ev = r.ev
          /\ n.slot = r.slot
    BY <1>1, <1>2, <2>2, ToCheck
  <2>4. Matches(n.body, n.ev) /\ n.body # W!NoBody /\ Actionable(n.body, n.ev)
    BY <2>0, <2>3, BodiesAre DEF Matches, Asks, Actionable
  <2>5. Fits(n)
    BY <1>4, <2>1, <2>3, <2>4 DEF Fits, Early, InRouter, Replying
  <2> QED
    BY <1>3, <2>3, <2>5, QuietInv
<1>7. CASE W!RegisterConflicts(t)
  <2>1. req' = [req EXCEPT ![t].pc = "answer", ![t].code = 200] /\ 200 \in HttpCodes
    BY <1>7 DEF W!RegisterConflicts, HttpCodes
  <2>2. r.pc = "register" /\ registered[r.ev] \notin {W!Nothing, r.reading}
    BY <1>1, <1>7 DEF W!RegisterConflicts, W!Conflict
  <2>3. kind[r.ev] # "command"
    BY <1>2, <2>2 DEF EventsInv, Fits, InRouter
  <2>4. PICK n \in WebhookRequests :
          Moved(t, n) /\ n.pc = "answer" /\ Keeps(n, r) /\ n.code = 200
    BY <1>1, <1>2, <2>1, ToAnswer
  <2>5. Fits(n)
    BY <1>2, <1>4, <2>3, <2>4 DEF Fits, Keeps, Early, InRouter, Replying
  <2> QED
    BY <1>3, <2>4, <2>5, QuietInv
<1>8. CASE W!RegisterReplays(t)
  <2>1. PICK p \in Phases, g \in Readings :
          p = phase[r.ev] /\ g = registered[r.ev] /\ g # W!Nothing /\ p # "none"
    <3>1. registered[r.ev] # W!Nothing
      BY <1>1, <1>8 DEF W!RegisterReplays
    <3> QED
      BY <1>2, <3>1 DEF EventsInv, WebhookTypes, Heard
  <2>2. r.pc = "register" /\ g = r.reading
    BY <1>1, <1>8, <2>1 DEF W!RegisterReplays, W!Conflict
  <2>3. PICK x \in Stages : x = IF p = "ask" THEN "approval" ELSE "check"
    BY DEF Stages
  <2>4. PICK b : b = IF p \in {"ask", "clarify"} THEN <<p, g>> ELSE <<"duplicate", W!Nothing>>
    OBVIOUS
  <2>5. b \in Said
    BY <2>4, SpokenBodies
  <2>6. Worded(t, x, b)
    BY <1>1, <1>8, <2>1, <2>3, <2>4 DEF W!RegisterReplays, Worded
  <2>7. PICK n \in WebhookRequests :
          /\ Moved(t, n) /\ n.pc = x /\ n.body = b /\ n.ev = r.ev
          /\ n.slot = r.slot /\ n.reading = r.reading
    <3>1. \E n \in WebhookRequests :
            /\ Moved(t, n) /\ n.pc = x /\ n.body = b /\ n.ev = req[t].ev
            /\ n.slot = req[t].slot /\ n.reading = req[t].reading
      BY <1>0, <2>5, <2>6, ToReply
    <3> QED
      BY <1>1, <3>1
  <2>8. /\ Matches(b, r.ev) /\ b # W!NoBody
        /\ x = "approval" => b[1] = "ask"
        /\ x = "check" => b[1] # "ask"
    BY <2>1, <2>3, <2>4, BodiesAre DEF Matches, Asks, Phases
  <2>9. Fits(n)
    BY <1>2, <1>4, <2>1, <2>2, <2>3, <2>7, <2>8
    DEF Fits, Actionable, Early, InRouter, Replying
  <2> QED
    BY <1>3, <2>3, <2>7, <2>9, QuietInv
<1> QED
  BY <1>5, <1>6, <1>7, <1>8

\* A request moves and the router's stores with it.
LEMMA StoredInv ==
  ASSUME WebhookAssumed, WebhookInv, Grown, NEW t \in W!Threads, NEW n, Moved(t, n), Fits(n)',
         UNCHANGED <<channel, kind, acked, tries, world, fingerprints, terminal, calls, restarts>>,
         registered' \in [Events -> Heard], phase' \in [Events -> Phases],
         approvalRow' \in [Events -> Heard],
         \A e \in Events : kind[e] \in TurnedAway => registered'[e] = registered[e],
         ExtractorInv', EventsInv'
  PROVE  WebhookInv'
<1>1. WebhookTypes'
  BY OthersStay DEF WebhookInv, WebhookTypes
<1>2. RequestsInv'
  BY MovedFits DEF WebhookInv
<1>3. CallsInv'
  BY StillCalls DEF WebhookInv
<1> QED
  BY <1>1, <1>2, <1>3 DEF WebhookInv

\* The first delivery registers the workflow as running.
LEMMA RegistersInv ==
  ASSUME WebhookAssumed, WebhookInv, NEW t \in W!Threads, W!RegisterFirst(t)
  PROVE  WebhookInv' /\ Grown
<1>0. WebhookTypes /\ RequestsInv /\ ExtractorInv /\ EventsInv
  BY DEF WebhookInv
<1>1. PICK r \in WebhookRequests : r = req[t]
  BY <1>0 DEF WebhookTypes
<1>2. Fits(r) /\ r.ev \in Events /\ r.pc = "register"
  BY <1>0, <1>1 DEF RequestsInv, WebhookRequests, W!RegisterFirst
<1>3. /\ r.reading \in Readings /\ r.reading # W!Nothing /\ r.slot = "reply"
      /\ kind[r.ev] \notin TurnedAway
      /\ kind[r.ev] = "command" => r.reading = CommandReading
  BY <1>2 DEF Fits, InRouter, Early, TurnedAway, WebhookAssumed, W!WebhookAssumption
<1>4. /\ registered[r.ev] = W!Nothing
      /\ registered' = [registered EXCEPT ![r.ev] = r.reading]
      /\ phase' = [phase EXCEPT ![r.ev] = "running"]
      /\ UNCHANGED <<channel, kind, acked, tries, approvalRow, world, fingerprints, terminal,
                     calls, restarts>>
  BY <1>1 DEF W!RegisterFirst, W!providerVars, W!toolVars
<1>5. /\ registered' \in [Events -> Heard] /\ phase' \in [Events -> Phases]
      /\ registered'[r.ev] = r.reading /\ phase'[r.ev] = "running"
      /\ \A e \in Events : e # r.ev => registered'[e] = registered[e] /\ phase'[e] = phase[e]
  BY <1>0, <1>2, <1>3, <1>4 DEF WebhookTypes, Heard, Phases
<1>6. phase[r.ev] = "none" /\ approvalRow[r.ev] = W!Nothing
  BY <1>0, <1>2, <1>4 DEF EventsInv
<1>7. Grown
  BY <1>4, <1>5, <1>6 DEF Grown
<1>8. PICK n \in WebhookRequests :
        Moved(t, n) /\ n.pc = "extract" /\ Keeps(n, r) /\ n.reading = r.reading
  <2>1. PICK x \in Stages : x = "extract"
    BY DEF Stages
  <2>2. req' = [req EXCEPT ![t].pc = x]
    BY <2>1 DEF W!RegisterFirst
  <2> QED
    BY <1>0, <1>1, <2>1, <2>2, ToPlace
<1>9. Fits(n)'
  <2>1. Fits(r)'
    BY <1>2, <1>7, StillFits
  <2> QED
    BY <1>2, <1>3, <1>4, <1>5, <1>8, <2>1
    DEF Fits, Keeps, Matches, Asks, Announced, W!KeyOf, Early, InRouter, Replying, TurnedAway
<1>10. \A u \in W!Threads : req[u].pc = "extract" => req[u].ev # r.ev /\ req[u].ev \in Events
  <2>1. ASSUME NEW u \in W!Threads, req[u].pc = "extract"
        PROVE  req[u].ev # r.ev /\ req[u].ev \in Events
    <3>1. Fits(req[u]) /\ req[u].ev \in Events
      BY <1>0 DEF RequestsInv, WebhookTypes, WebhookRequests
    <3>2. registered[req[u].ev] \in Readings
      BY <2>1, <3>1 DEF Fits, InRouter
    <3> QED
      BY <1>4, <3>1, <3>2 DEF WebhookAssumed, W!WebhookAssumption
  <2> QED
    BY <2>1
<1>11. ExtractorInv'
  <2>1. req'[t] = n /\ \A u \in W!Threads : u # t => req'[u] = req[u]
    BY <1>0, <1>8, OthersStay
  <2>2. n.ev = r.ev
    BY <1>8 DEF Keeps
  <2>3. ASSUME NEW u \in W!Threads, req'[u].pc = "extract"
        PROVE  phase'[req'[u].ev] = "running"
    BY <1>0, <1>5, <1>10, <2>1, <2>2, <2>3 DEF ExtractorInv
  <2>4. ASSUME NEW u \in W!Threads, NEW v \in W!Threads, req'[u].pc = "extract",
               req'[v].pc = "extract", req'[v].ev = req'[u].ev
        PROVE  u = v
    BY <1>0, <1>10, <2>1, <2>2, <2>4 DEF ExtractorInv
  <2> QED
    BY <2>3, <2>4 DEF ExtractorInv
<1>12. EventsInv'
  <2>1. ASSUME NEW e \in Events
        PROVE  /\ registered'[e] = W!Nothing <=> phase'[e] = "none"
               /\ approvalRow'[e] \in {W!Nothing, registered'[e]}
               /\ kind'[e] = "command" => registered'[e] \in {W!Nothing, CommandReading}
               /\ kind'[e] \in TurnedAway => registered'[e] = W!Nothing
    <3>1. CASE e = r.ev
      BY <1>3, <1>4, <1>5, <1>6, <3>1
    <3>2. CASE e # r.ev
      BY <1>0, <1>4, <1>5, <3>2 DEF EventsInv
    <3> QED
      BY <3>1, <3>2
  <2>2. \A e \in Events : /\ kind'[e] = "command" /\ acked'[e] => Announced(e)'
                          /\ kind'[e] \in TurnedAway /\ acked'[e] => kind'[e] = "status"
    BY <1>0, <1>4 DEF EventsInv, Announced
  <2> QED
    BY <2>1, <2>2 DEF EventsInv
<1>13. approvalRow' \in [Events -> Heard]
  BY <1>0, <1>4 DEF WebhookTypes
<1>14. \A e \in Events : kind[e] \in TurnedAway => registered'[e] = registered[e]
  BY <1>3, <1>5
<1> QED
  BY <1>4, <1>5, <1>7, <1>8, <1>9, <1>11, <1>12, <1>13, <1>14, StoredInv

\* The question that was extracted is saved.
LEMMA ExtractInv ==
  ASSUME WebhookAssumed, WebhookInv, NEW t \in W!Threads, W!Extract(t)
  PROVE  WebhookInv' /\ Grown
<1>0. WebhookTypes /\ RequestsInv /\ ExtractorInv /\ EventsInv
  BY DEF WebhookInv
<1>1. PICK r \in WebhookRequests : r = req[t]
  BY <1>0 DEF WebhookTypes
<1>2. Fits(r) /\ r.ev \in Events /\ r.pc = "extract"
  BY <1>0, <1>1 DEF RequestsInv, WebhookRequests, W!Extract
<1>3. /\ r.reading \in Readings /\ r.reading # W!Nothing /\ r.slot = "reply"
      /\ kind[r.ev] \notin TurnedAway /\ registered[r.ev] = r.reading
      /\ kind[r.ev] = "command" => r.reading = CommandReading
  BY <1>2 DEF Fits, InRouter, Early, TurnedAway, WebhookAssumed, W!WebhookAssumption
<1>4. PICK p \in {"ask", "clarify"} :
        /\ phase' = [phase EXCEPT ![r.ev] = p]
        /\ req' = [req EXCEPT ![t].pc = IF p = "ask" THEN "approval" ELSE "check",
                              ![t].body = <<p, r.reading>>]
  BY <1>1 DEF W!Extract
<1>5. UNCHANGED <<channel, kind, acked, tries, registered, approvalRow, world, fingerprints,
                  terminal, calls, restarts>>
  BY DEF W!Extract, W!providerVars, W!toolVars
<1>6. /\ phase' \in [Events -> Phases] /\ phase'[r.ev] = p /\ phase[r.ev] = "running"
      /\ \A e \in Events : e # r.ev => phase'[e] = phase[e]
  BY <1>0, <1>1, <1>2, <1>4 DEF WebhookTypes, Phases, ExtractorInv
<1>7. Grown
  BY <1>5, <1>6 DEF Grown
<1>8. PICK x \in Stages : x = IF p = "ask" THEN "approval" ELSE "check"
  BY DEF Stages
<1>9. PICK b \in Said : b = <<p, r.reading>>
  BY <1>3, SpokenBodies
<1>10. PICK n \in WebhookRequests :
         /\ Moved(t, n) /\ n.pc = x /\ n.body = b /\ n.ev = r.ev
         /\ n.slot = r.slot /\ n.reading = r.reading
  <2>1. Worded(t, x, b)
    BY <1>4, <1>8, <1>9 DEF Worded
  <2> QED
    BY <1>0, <1>1, <2>1, ToReply
<1>11. b[1] = p /\ b[2] = r.reading /\ b # W!NoBody
  BY <1>9, BodiesAre
<1>12. Fits(n)'
  <2>1. Matches(n.body, n.ev)'
    BY <1>3, <1>5, <1>6, <1>10, <1>11 DEF Matches, Asks
  <2>2. x = "check" => Actionable(n.body, n.ev)'
    BY <1>8, <1>10, <1>11 DEF Actionable
  <2> QED
    BY <1>2, <1>3, <1>5, <1>8, <1>10, <1>11, <2>1, <2>2
    DEF Fits, Early, InRouter, Replying, TurnedAway
<1>13. ExtractorInv'
  <2>1. req'[t] = n /\ \A u \in W!Threads : u # t => req'[u] = req[u]
    BY <1>0, <1>10, OthersStay
  <2>2. n.pc # "extract"
    BY <1>8, <1>10
  <2>3. \A u \in W!Threads : req'[u].pc = "extract" =>
          u # t /\ req'[u] = req[u] /\ req[u].ev # r.ev /\ req[u].ev \in Events
    BY <1>0, <1>1, <1>2, <2>1, <2>2 DEF ExtractorInv, WebhookTypes, WebhookRequests
  <2> QED
    BY <1>0, <1>6, <2>3 DEF ExtractorInv
<1>14. EventsInv'
  <2>1. \A e \in Events : registered'[e] = W!Nothing <=> phase'[e] = "none"
    BY <1>0, <1>3, <1>5, <1>6 DEF EventsInv
  <2> QED
    BY <1>0, <1>5, <2>1 DEF EventsInv, Announced
<1>15. registered' \in [Events -> Heard] /\ approvalRow' \in [Events -> Heard]
  BY <1>0, <1>5 DEF WebhookTypes
<1> QED
  BY <1>5, <1>6, <1>7, <1>10, <1>12, <1>13, <1>14, <1>15, StoredInv

\* The approval is stored before its question is asked.
LEMMA ApprovalInv ==
  ASSUME WebhookAssumed, WebhookInv, NEW t \in W!Threads, W!CreateApproval(t)
  PROVE  WebhookInv' /\ Grown
<1>0. WebhookTypes /\ RequestsInv /\ ExtractorInv /\ EventsInv
  BY DEF WebhookInv
<1>1. PICK r \in WebhookRequests : r = req[t]
  BY <1>0 DEF WebhookTypes
<1>2. Fits(r) /\ r.ev \in Events /\ r.pc = "approval"
  BY <1>0, <1>1 DEF RequestsInv, WebhookRequests, W!CreateApproval
<1>3. /\ r.reading \in Readings /\ r.reading # W!Nothing /\ r.slot = "reply"
      /\ kind[r.ev] \notin TurnedAway /\ registered[r.ev] = r.reading
      /\ r.body[1] = "ask" /\ r.body # W!NoBody
  BY <1>2, BodiesAre DEF Fits, InRouter, Early, TurnedAway, WebhookAssumed, W!WebhookAssumption
<1>4. /\ approvalRow[r.ev] \in {W!Nothing, r.reading}
      /\ approvalRow' = [approvalRow EXCEPT ![r.ev] = r.reading]
      /\ UNCHANGED <<channel, kind, acked, tries, registered, phase, world, fingerprints,
                     terminal, calls, restarts>>
  BY <1>1 DEF W!CreateApproval, W!providerVars, W!toolVars
<1>5. /\ approvalRow' \in [Events -> Heard] /\ approvalRow'[r.ev] = r.reading
      /\ \A e \in Events : e # r.ev => approvalRow'[e] = approvalRow[e]
  BY <1>0, <1>2, <1>3, <1>4 DEF WebhookTypes, Heard
<1>6. Grown
  BY <1>4, <1>5 DEF Grown
<1>7. PICK n \in WebhookRequests :
        Moved(t, n) /\ n.pc = "check" /\ Keeps(n, r) /\ n.reading = r.reading
  <2>1. PICK x \in Stages : x = "check"
    BY DEF Stages
  <2>2. req' = [req EXCEPT ![t].pc = x]
    BY <2>1 DEF W!CreateApproval
  <2> QED
    BY <1>0, <1>1, <2>1, <2>2, ToPlace
<1>8. Fits(n)'
  <2>1. Matches(r.body, r.ev)'
    BY <1>2, <1>6, StillFits DEF Fits
  <2>2. Actionable(n.body, n.ev)'
    BY <1>3, <1>5, <1>7 DEF Actionable, Keeps
  <2>3. Matches(n.body, n.ev)'
    BY <1>7, <2>1 DEF Matches, Asks, Keeps
  <2> QED
    BY <1>2, <1>3, <1>4, <1>7, <2>2, <2>3
    DEF Fits, Keeps, Announced, W!KeyOf, Early, InRouter, Replying, TurnedAway
<1>9. ExtractorInv'
  BY <1>0, <1>4, <1>7, MovedExtractor
<1>10. EventsInv'
  <2>1. \A e \in Events : approvalRow'[e] \in {W!Nothing, registered'[e]}
    BY <1>0, <1>3, <1>4, <1>5 DEF EventsInv
  <2> QED
    BY <1>0, <1>4, <2>1 DEF EventsInv, Announced
<1>11. registered' \in [Events -> Heard] /\ phase' \in [Events -> Phases]
  BY <1>0, <1>4 DEF WebhookTypes
<1> QED
  BY <1>4, <1>5, <1>6, <1>7, <1>8, <1>9, <1>10, <1>11, StoredInv

\* A request at the check of the tool's dictionaries, or with a reply to speak.
LEMMA CheckInv ==
  ASSUME WebhookAssumed, WebhookInv, NEW t \in W!Threads,
         W!SendConflict(t) \/ W!SendReused(t) \/ W!SendFresh(t) \/ W!Speak(t)
  PROVE  WebhookInv'
<1>1. PICK r \in WebhookRequests : r = req[t]
  BY DEF WebhookInv, WebhookTypes
<1>2. Fits(r) /\ WebhookTypes
  BY <1>1 DEF WebhookInv, RequestsInv
<1>3. UNCHANGED <<channel, kind, acked, tries, registered, phase, approvalRow, world,
                  fingerprints, terminal, calls, restarts>>
  BY DEF W!SendConflict, W!SendReused, W!SendFresh, W!Speak, W!providerVars, W!storeVars,
         W!toolVars
<1>4. fingerprints[W!KeyOf(r)] # W!NoPrint \/ terminal[W!KeyOf(r)] # "none" =>
        /\ calls[W!KeyOf(r)] # <<>>
        /\ Announced(r.ev)
  <2>1. fingerprints[W!KeyOf(r)] # W!NoPrint \/ terminal[W!KeyOf(r)] # "none" =>
          calls[W!KeyOf(r)] # <<>>
    BY KeysAre DEF WebhookInv, CallsInv
  <2>2. CASE r.slot = "reply"
    BY <2>1, <2>2 DEF Announced, W!KeyOf
  <2>3. CASE r.slot = "reply-audio"
    BY <1>2, <2>1, <2>3 DEF Fits
  <2> QED
    BY <2>2, <2>3 DEF WebhookRequests, W!Slots
<1>5. CASE W!SendConflict(t)
  <2>0. req' = [req EXCEPT ![t].pc = "answer", ![t].code = 200] /\ 200 \in HttpCodes
    BY <1>5 DEF W!SendConflict, HttpCodes
  <2>1. r.pc = "check" /\ fingerprints[W!KeyOf(r)] # W!NoPrint
    BY <1>1, <1>5 DEF W!SendConflict, W!Differs
  <2>2. PICK n \in WebhookRequests :
          Moved(t, n) /\ n.pc = "answer" /\ Keeps(n, r) /\ n.code = 200
    BY <1>1, <1>2, <2>0, ToAnswer
  <2>3. Fits(n)
    BY <1>2, <1>4, <2>1, <2>2 DEF Fits, Keeps, Early, InRouter, Replying, TurnedAway
  <2> QED
    BY <1>3, <2>2, <2>3, QuietInv
<1>6. CASE W!SendReused(t)
  <2>1. /\ r.pc = "check" /\ terminal[W!KeyOf(r)] # "none"
        /\ req' = [req EXCEPT ![t] = W!Returned(req[t], terminal[W!KeyOf(r)])]
    BY <1>1, <1>6 DEF W!SendReused
  <2>2. PICK n \in WebhookRequests :
          /\ Moved(t, n) /\ n.pc \in {"speak", "answer"}
          /\ n.pc = "speak" => r.slot = "reply"
          /\ n.ev = r.ev /\ n.body = r.body /\ n.slot = r.slot
    BY <1>1, <1>2, <2>1, ReturnMoves
  <2>3. Fits(n)
    BY <1>2, <1>4, <2>1, <2>2 DEF Fits, Early, InRouter, Replying, TurnedAway
  <2> QED
    BY <1>3, <2>2, <2>3, QuietInv
<1>7. CASE W!SendFresh(t)
  <2>1. r.pc = "check" /\ req' = [req EXCEPT ![t].pc = "call"] /\ "call" \in Stages
    BY <1>1, <1>7 DEF W!SendFresh, Stages
  <2>2. PICK n \in WebhookRequests : Moved(t, n) /\ n.pc = "call" /\ Keeps(n, r)
    BY <1>1, <1>2, <2>1, ToPlace
  <2>3. Fits(n)
    BY <1>2, <2>1, <2>2 DEF Fits, Keeps, Early, InRouter, Replying, TurnedAway
  <2> QED
    BY <1>3, <2>2, <2>3, QuietInv
<1>8. CASE W!Speak(t)
  <2>1. r.pc = "speak"
    BY <1>1, <1>8 DEF W!Speak
  <2>2. PICK n \in WebhookRequests :
          /\ Moved(t, n) /\ n.ev = r.ev /\ n.body = r.body
          /\ \/ n.pc = "check" /\ n.slot = "reply-audio"
             \/ n.pc = "answer" /\ n.slot = r.slot
    BY <1>1, <1>2, <1>8, SpeakMoves
  <2>3. Fits(n)
    BY <1>2, <2>1, <2>2 DEF Fits, Early, InRouter, Replying, TurnedAway
  <2> QED
    BY <1>3, <2>2, <2>3, QuietInv
<1> QED
  BY <1>5, <1>6, <1>7, <1>8

\* The router handles a reminder, a query or a redelivery that reads differently.
LEMMA Appended ==
  ASSUME NEW S, NEW s \in Seq(S), NEW c \in S
  PROVE  /\ Append(s, c) \in Seq(S) /\ Append(s, c) # <<>>
         /\ Len(Append(s, c)) = Len(s) + 1 /\ Len(s) \in Nat
         /\ DOMAIN s = 1 .. Len(s) /\ DOMAIN Append(s, c) = 1 .. Len(s) + 1
         /\ \A i \in 1 .. Len(s) : Append(s, c)[i] = s[i]
         /\ Append(s, c)[Len(s) + 1] = c
OBVIOUS

\* A call as the step that makes it.
Called(t, k, c) ==
  /\ c \in WebhookCalls
  /\ k = W!KeyOf(req[t]) /\ req[t].pc = "call"
  /\ c.body = req[t].body /\ c.run = restarts
  /\ calls' = [calls EXCEPT ![k] = Append(@, c)]
  /\ fingerprints' = [fingerprints EXCEPT ![k] = W!PrintOf(req[t])]
  /\ UNCHANGED <<channel, kind, acked, tries, registered, phase, approvalRow, world, terminal,
                 restarts>>

LEMMA CallCalls ==
  ASSUME WebhookAssumed, WebhookTypes, NEW t \in W!Threads, W!Call(t)
  PROVE  \E n \in WebhookRequests, k \in W!Keys, c \in WebhookCalls, a \in Answers[channel[req[t].ev]] :
           /\ Called(t, k, c) /\ Moved(t, n)
           /\ n.pc = "record" /\ n.res = c.outcome /\ Keeps(n, req[t])
           /\ c.outcome = W!Send(channel[req[t].ev], a.answer).outcome /\ c.taken = a.taken
<1>1. PICK r \in WebhookRequests : r = req[t]
  BY DEF WebhookTypes
<1>2. PICK k \in W!Keys : k = W!KeyOf(r)
  BY KeysAre
<1>0. PICK h \in W!Platforms : h = channel[r.ev] /\ h = channel[req[t].ev]
  BY <1>1 DEF WebhookTypes, WebhookRequests
<1>3. PICK a \in Answers[h] :
        /\ calls' = [calls EXCEPT ![k] = Append(@,
             [body |-> r.body, run |-> restarts, taken |-> a.taken,
              outcome |-> W!Send(h, a.answer).outcome])]
        /\ req' = [req EXCEPT ![t].pc = "record", ![t].res = W!Send(h, a.answer).outcome]
  BY <1>0, <1>1, <1>2 DEF W!Call
<1>4. PICK x \in W!Outcomes : x = W!Send(h, a.answer).outcome
  BY SendReturns
<1>5. PICK c : c = [body |-> r.body, run |-> restarts, taken |-> a.taken, outcome |-> x]
  OBVIOUS
<1>6. c \in WebhookCalls
  <2>1. r.body \in Said /\ restarts \in Nat
    BY DEF WebhookRequests, WebhookTypes
  <2>2. a.taken \in BOOLEAN
    BY DEF WebhookAssumed, W!WebhookAssumption
  <2> QED
    BY <1>5, <2>1, <2>2, Zenon DEF WebhookCalls
<1>7. c.body = r.body /\ c.run = restarts /\ c.taken = a.taken /\ c.outcome = x
  BY <1>5
<1>8. PICK n \in WebhookRequests :
        Moved(t, n) /\ n.pc = "record" /\ n.res = x /\ Keeps(n, req[t])
  BY <1>3, <1>4, CallMoves
<1>9. Called(t, k, c)
  BY <1>1, <1>2, <1>3, <1>4, <1>5, <1>6, <1>7
  DEF Called, W!Call, W!providerVars, W!storeVars
<1> QED
  BY <1>0, <1>4, <1>6, <1>7, <1>8, <1>9

LEMMA CalledEffect ==
  ASSUME WebhookInv, NEW t \in W!Threads, NEW k \in W!Keys, NEW c \in WebhookCalls, Called(t, k, c)
  PROVE  /\ Grown
         /\ calls' \in [W!Keys -> Seq(WebhookCalls)]
         /\ calls'[k] = Append(calls[k], c)
         /\ \A l \in W!Keys : l # k => calls'[l] = calls[l]
         /\ fingerprints' \in [W!Keys -> W!Prints]
         /\ fingerprints'[k] = W!PrintOf(req[t]) /\ W!PrintOf(req[t]) # W!NoPrint
         /\ \A l \in W!Keys : l # k => fingerprints'[l] = fingerprints[l]
<1>1. PICK r \in WebhookRequests : r = req[t]
  BY DEF WebhookInv, WebhookTypes
<1>2. r.body # W!NoBody
  BY <1>1 DEF WebhookInv, RequestsInv, Fits, Called, Replying
<1>3. W!PrintOf(r) \in W!Prints /\ W!PrintOf(r) # W!NoPrint
  <2>1. r.body \in W!Bodies /\ r.take \in Voiced
    BY <1>2 DEF WebhookRequests, Said
  <2> QED
    BY <1>2, <2>1 DEF W!Prints, W!PrintOf, W!NoPrint, Voiced
<1>4. calls \in [W!Keys -> Seq(WebhookCalls)] /\ fingerprints \in [W!Keys -> W!Prints]
  BY DEF WebhookInv, WebhookTypes
<1>5. Append(calls[k], c) \in Seq(WebhookCalls) /\ Append(calls[k], c) # <<>>
  BY <1>4, Appended
<1>6. /\ calls' = [calls EXCEPT ![k] = Append(calls[k], c)]
      /\ fingerprints' = [fingerprints EXCEPT ![k] = W!PrintOf(r)]
      /\ UNCHANGED <<channel, kind, registered, phase, approvalRow>>
  BY <1>1 DEF Called
<1> QED
  BY <1>1, <1>3, <1>4, <1>5, <1>6 DEF Grown

LEMMA CallInv ==
  ASSUME WebhookAssumed, WebhookInv, NEW t \in W!Threads, W!Call(t)
  PROVE  WebhookInv' /\ Grown
<1>1. PICK r \in WebhookRequests : r = req[t]
  BY DEF WebhookInv, WebhookTypes
<1>2. Fits(r) /\ WebhookTypes /\ RequestsInv /\ ExtractorInv /\ CallsInv /\ EventsInv
  BY <1>1 DEF WebhookInv, RequestsInv
<1>3. PICK n \in WebhookRequests, k \in W!Keys, c \in WebhookCalls :
        /\ Called(t, k, c) /\ Moved(t, n)
        /\ n.pc = "record" /\ n.res = c.outcome /\ Keeps(n, r)
  BY <1>1, <1>2, CallCalls
<1>4. /\ k = W!KeyOf(r) /\ r.pc = "call" /\ c.body = r.body /\ c.run = restarts
      /\ UNCHANGED <<channel, kind, acked, tries, registered, phase, approvalRow, world, terminal,
                 restarts>>
  BY <1>1, <1>3 DEF Called
<1>5. /\ Grown
      /\ calls' \in [W!Keys -> Seq(WebhookCalls)]
      /\ calls'[k] = Append(calls[k], c)
      /\ \A l \in W!Keys : l # k => calls'[l] = calls[l]
      /\ fingerprints' \in [W!Keys -> W!Prints]
      /\ \A l \in W!Keys : l # k => fingerprints'[l] = fingerprints[l]
  BY <1>3, CalledEffect
<1>6. calls[k] \in Seq(WebhookCalls)
  BY <1>2 DEF WebhookTypes
<1>7. WebhookTypes'
  BY <1>2, <1>3, <1>4, <1>5, OthersStay DEF WebhookTypes
<1>8. k[1] = r.ev /\ r.ev \in Events /\ W!KeyOf(n) = k /\ n.ev = r.ev
  BY <1>3, <1>4, KeysAre DEF W!KeyOf, Keeps, WebhookRequests
<1>9. Fits(n)'
  <2>1. Fits(r)'
    BY <1>2, <1>5, StillFits
  <2>2. calls'[k] # <<>>
    BY <1>5, <1>6, Appended
  <2>3. W!KeyOf(n)' = k
    BY <1>8 DEF W!KeyOf
  <2>4. n.res # "none"
    BY <1>3 DEF WebhookCalls, W!Outcomes
  <2> QED
    BY <1>3, <1>4, <2>1, <2>2, <2>3, <2>4
    DEF Fits, Matches, Asks, Actionable, Announced, Keeps, Early, InRouter, Replying, TurnedAway
<1>10. RequestsInv'
  BY <1>2, <1>3, <1>5, <1>9, MovedFits
<1>11. /\ kind[r.ev] \notin TurnedAway /\ Matches(r.body, r.ev) /\ Actionable(r.body, r.ev)
       /\ kind[r.ev] = "command" => registered[r.ev] # W!Nothing
  BY <1>2, <1>4 DEF Fits, TurnedAway, Replying
<1>12. CallsInv'
  <2>1. ASSUME NEW l \in W!Keys, l # k
        PROVE  /\ \A i \in DOMAIN calls'[l] :
                    /\ Matches(calls[l][i].body, l[1])'
                    /\ Actionable(calls[l][i].body, l[1])'
                    /\ calls'[l][i].run <= restarts'
               /\ kind'[l[1]] = "command" /\ calls'[l] # <<>> => registered'[l[1]] # W!Nothing
               /\ fingerprints'[l] # W!NoPrint \/ terminal'[l] # "none" => calls'[l] # <<>>
               /\ kind'[l[1]] \in TurnedAway => calls'[l] = <<>>
    BY <1>2, <1>4, <1>5, <2>1 DEF CallsInv, Matches, Asks, Actionable
  <2>2. ASSUME NEW i \in DOMAIN calls'[k]
        PROVE  /\ Matches(calls[k][i].body, k[1])'
               /\ Actionable(calls[k][i].body, k[1])'
               /\ calls'[k][i].run <= restarts'
    <3>1. CASE i \in DOMAIN calls[k]
      <4>1. calls'[k][i] = calls[k][i]
        BY <1>5, <1>6, <3>1, Appended
      <4> QED
        BY <1>2, <1>4, <3>1, <4>1 DEF CallsInv, Matches, Asks, Actionable
    <3>2. CASE i = Len(calls[k]) + 1
      <4>1. calls'[k][i] = c
        BY <1>5, <1>6, <3>2, Appended
      <4>2. c.run <= restarts'
        BY <1>2, <1>4 DEF WebhookTypes
      <4> QED
        BY <1>4, <1>8, <1>11, <4>1, <4>2 DEF Matches, Asks, Actionable
    <3> QED
      BY <1>5, <1>6, <3>1, <3>2, Appended
  <2>3. calls'[k] # <<>>
    BY <1>5, <1>6, Appended
  <2> QED
    BY <1>4, <1>8, <1>11, <2>1, <2>2, <2>3 DEF CallsInv
<1>13. EventsInv'
  <2>1. \A e \in Events : Announced(e) => Announced(e)'
    BY <1>5, KeysAre DEF Announced, Grown
  <2> QED
    BY <1>2, <1>4, <2>1 DEF EventsInv
<1>14. ExtractorInv'
  BY <1>2, <1>3, <1>4, MovedExtractor
<1> QED
  BY <1>5, <1>7, <1>10, <1>12, <1>13, <1>14 DEF WebhookInv

LEMMA RecordInv ==
  ASSUME WebhookAssumed, WebhookInv, NEW t \in W!Threads, W!Record(t)
  PROVE  WebhookInv'
<1>1. PICK r \in WebhookRequests : r = req[t]
  BY DEF WebhookInv, WebhookTypes
<1>2. Fits(r) /\ WebhookTypes /\ RequestsInv /\ ExtractorInv /\ CallsInv /\ EventsInv
  BY <1>1 DEF WebhookInv, RequestsInv
<1>3. /\ UNCHANGED <<channel, kind, acked, tries, registered, phase, approvalRow, world,
                     fingerprints, calls, restarts>>
      /\ terminal' = terminal \/ terminal' = [terminal EXCEPT ![W!KeyOf(r)] = r.res]
      /\ r.pc = "record"
      /\ req' = [req EXCEPT ![t] = W!Returned(req[t], r.res)]
  BY <1>1 DEF W!Record, W!providerVars, W!storeVars
<1>4. PICK k \in W!Keys : k = W!KeyOf(r)
  BY KeysAre
<1>5. calls[k] # <<>> /\ r.res \in Remembered /\ r.ev \in Events
  BY <1>2, <1>3, <1>4 DEF Fits, WebhookRequests
<1>6. /\ terminal' \in [W!Keys -> Remembered]
      /\ \A l \in W!Keys : terminal'[l] # terminal[l] => l = k
  BY <1>2, <1>3, <1>4, <1>5 DEF WebhookTypes
<1>7. Grown
  BY <1>3 DEF Grown
<1>8. Announced(r.ev)
  <2>1. CASE r.slot = "reply"
    BY <1>4, <1>5, <2>1 DEF Announced, W!KeyOf
  <2>2. CASE r.slot = "reply-audio"
    BY <1>2, <2>2 DEF Fits
  <2> QED
    BY <2>1, <2>2 DEF WebhookRequests, W!Slots
<1>9. PICK n \in WebhookRequests :
        /\ Moved(t, n) /\ n.pc \in {"speak", "answer"}
        /\ n.pc = "speak" => r.slot = "reply"
        /\ n.ev = r.ev /\ n.body = r.body /\ n.slot = r.slot
  BY <1>1, <1>2, <1>3, ReturnMoves
<1>10. Fits(n)
  BY <1>2, <1>3, <1>8, <1>9 DEF Fits, Early, InRouter, Replying, TurnedAway
<1>11. RequestsInv'
  BY <1>2, <1>7, <1>9, <1>10, MovedFits, StillFits
<1>12. WebhookTypes'
  BY <1>2, <1>3, <1>6, <1>9, OthersStay DEF WebhookTypes
<1>13. CallsInv'
  BY <1>2, <1>3, <1>5, <1>6 DEF CallsInv, Matches, Asks, Actionable
<1>14. EventsInv'
  BY <1>2, <1>3 DEF EventsInv, Announced
<1>15. ExtractorInv'
  BY <1>2, <1>3, <1>9, MovedExtractor
<1> QED
  BY <1>11, <1>12, <1>13, <1>14, <1>15 DEF WebhookInv

\* The provider delivers an event, sees the answer or does not.
LEMMA ProviderInv ==
  ASSUME WebhookAssumed, WebhookInv, NEW t \in W!Threads,
         \/ \E e \in Events : W!Deliver(t, e)
         \/ W!Answer200(t) \/ W!AnswerLostOrRefused(t)
  PROVE  WebhookInv'
<1>1. PICK r \in WebhookRequests : r = req[t]
  BY DEF WebhookInv, WebhookTypes
<1>2. Fits(r) /\ WebhookTypes /\ RequestsInv /\ ExtractorInv /\ CallsInv /\ EventsInv
  BY <1>1 DEF WebhookInv, RequestsInv
<1>3. UNCHANGED <<channel, kind, registered, phase, approvalRow, world, fingerprints,
                  terminal, calls, restarts>>
  BY DEF W!Deliver, W!Answer200, W!AnswerLostOrRefused, W!providerVars, W!storeVars, W!toolVars
<1>4. Grown
  BY <1>3 DEF Grown
<1>5. ASSUME NEW n \in WebhookRequests, n.body = W!NoBody, n.slot = "reply",
             n.pc \in {"idle", "admit"}
      PROVE  Fits(n)
  BY <1>5, BodiesAre DEF Fits, Matches, Asks, Early, InRouter, Replying, TurnedAway
<1>6. ASSUME NEW n \in WebhookRequests, Moved(t, n), Fits(n), n.pc \in {"idle", "admit"},
             tries' \in [Events -> Nat], \A e \in Events : tries'[e] <= MaxDeliveries[kind[e]],
             acked' \in [Events -> BOOLEAN],
             \A e \in Events : acked'[e] # acked[e] => e = r.ev /\ r.pc = "answer" /\ r.code = 200
      PROVE  WebhookInv'
  <2>1. WebhookTypes'
    BY <1>2, <1>3, <1>6, OthersStay DEF WebhookTypes
  <2>2. RequestsInv'
    BY <1>2, <1>4, <1>6, MovedFits, StillFits
  <2>3. CallsInv'
    BY <1>2, <1>3 DEF CallsInv, Matches, Asks, Actionable
  <2>4. EventsInv'
    <3>1. ASSUME NEW e \in Events, acked'[e]
          PROVE  /\ kind[e] = "command" => Announced(e)
                 /\ kind[e] \in TurnedAway => kind[e] = "status"
      <4>1. CASE acked'[e] = acked[e]
        BY <1>2, <3>1, <4>1 DEF EventsInv
      <4>2. CASE acked'[e] # acked[e]
        BY <1>2, <1>6, <4>2 DEF Fits
      <4> QED
        BY <4>1, <4>2
    <3> QED
      BY <1>2, <1>3, <3>1 DEF EventsInv, Announced
  <2>5. ExtractorInv'
    BY <1>2, <1>3, <1>6, MovedExtractor
  <2> QED
    BY <2>1, <2>2, <2>3, <2>4, <2>5 DEF WebhookInv
<1>7. ASSUME NEW e \in Events, W!Deliver(t, e) PROVE WebhookInv'
  <2>1. PICK n \in WebhookRequests :
          /\ Moved(t, n) /\ n.pc = "admit" /\ n.body = W!NoBody /\ n.slot = "reply"
    BY <1>2, <1>7, DeliverMoves
  <2>2. /\ tries[e] \in Nat /\ MaxDeliveries[kind[e]] \in Nat /\ tries[e] < MaxDeliveries[kind[e]]
        /\ tries' = [tries EXCEPT ![e] = tries[e] + 1] /\ acked' = acked
    BY <1>2, <1>7 DEF WebhookTypes, WebhookAssumed, W!WebhookAssumption, W!Deliver
  <2>3. /\ tries' \in [Events -> Nat] /\ acked' \in [Events -> BOOLEAN]
        /\ \A d \in Events : tries'[d] <= MaxDeliveries[kind[d]]
    BY <1>2, <2>2 DEF WebhookTypes
  <2> QED
    BY <1>5, <1>6, <2>1, <2>2, <2>3
<1>8. CASE W!Answer200(t) \/ W!AnswerLostOrRefused(t)
  <2>1. PICK n \in WebhookRequests :
          /\ Moved(t, n) /\ n.pc = "idle" /\ n.body = W!NoBody /\ n.slot = "reply"
    BY <1>8, IdleRequest DEF W!Answer200, W!AnswerLostOrRefused, Moved
  <2>2. /\ tries' = tries
        /\ \/ acked' = acked
           \/ acked' = [acked EXCEPT ![r.ev] = TRUE] /\ r.pc = "answer" /\ r.code = 200
    BY <1>1, <1>8 DEF W!Answer200, W!AnswerLostOrRefused, W!providerVars
  <2>3. /\ tries' \in [Events -> Nat] /\ acked' \in [Events -> BOOLEAN]
        /\ \A e \in Events : tries'[e] <= MaxDeliveries[kind[e]]
    <3>1. /\ acked \in [Events -> BOOLEAN] /\ tries' \in [Events -> Nat]
          /\ \A e \in Events : tries'[e] <= MaxDeliveries[kind[e]]
      BY <1>2, <2>2 DEF WebhookTypes
    <3>2. [acked EXCEPT ![r.ev] = TRUE] \in [Events -> BOOLEAN]
      BY <3>1
    <3> QED
      BY <2>2, <3>1, <3>2
  <2>4. \A e \in Events : acked'[e] # acked[e] => e = r.ev /\ r.pc = "answer" /\ r.code = 200
    BY <1>2, <2>2 DEF WebhookTypes
  <2> QED
    BY <1>5, <1>6, <2>1, <2>3, <2>4
<1> QED
  BY <1>7, <1>8

\* Other requests, the time that passes and a restart.
LEMMA AroundInv ==
  ASSUME WebhookAssumed, WebhookInv,
         \/ \E e \in Events : W!Approved(e)
         \/ W!WorldChanges \/ W!Restart \/ UNCHANGED W!vars
  PROVE  WebhookInv'
<1>1. WebhookTypes /\ RequestsInv /\ ExtractorInv /\ CallsInv /\ EventsInv
  BY DEF WebhookInv
<1>2. CASE (\E e \in Events : W!Approved(e)) \/ W!WorldChanges \/ UNCHANGED W!vars
  <2>1. UNCHANGED <<channel, kind, acked, tries, req, registered, approvalRow, fingerprints,
                    terminal, calls, restarts>>
    BY <1>2 DEF W!Approved, W!WorldChanges, W!vars, W!providerVars, W!toolVars
  <2>2. /\ phase' \in [Events -> Phases] /\ world' \in {"before", "after"}
        /\ \A e \in Events : phase'[e] = phase[e] \/ (phase[e] = "ask" /\ phase'[e] = "done")
    BY <1>1, <1>2 DEF W!Approved, W!WorldChanges, W!vars, WebhookTypes, Phases
  <2>3. Grown
    BY <2>1, <2>2 DEF Grown
  <2>4. WebhookTypes'
    BY <1>1, <2>1, <2>2 DEF WebhookTypes
  <2>5. RequestsInv'
    <3>1. ASSUME NEW u \in W!Threads PROVE Fits(req[u])'
      <4>1. PICK r \in WebhookRequests : r = req[u] /\ r = req'[u]
        BY <1>1, <2>1 DEF WebhookTypes
      <4>2. Fits(r)'
        BY <1>1, <2>3, <4>1, StillFits DEF RequestsInv
      <4> QED
        BY <4>1, <4>2 DEF Fits, Matches, Asks, Actionable, Announced, W!KeyOf
    <3> QED
      BY <3>1 DEF RequestsInv
  <2>6. CallsInv'
    BY <1>1, <2>1, <2>3, StillCalls
  <2>7. EventsInv'
    BY <1>1, <2>1, <2>2 DEF EventsInv, Announced
  <2>8. ExtractorInv'
    BY <1>1, <2>1, <2>2 DEF ExtractorInv, WebhookTypes, WebhookRequests
  <2> QED
    BY <2>4, <2>5, <2>6, <2>7, <2>8 DEF WebhookInv
<1>3. CASE W!Restart
  <2>1. /\ UNCHANGED <<channel, kind, acked, tries, registered, phase, approvalRow, world, calls>>
        /\ restarts' = restarts + 1 /\ restarts < MaxRestarts
        /\ req' = [t \in W!Threads |-> W!Idle]
        /\ fingerprints' = [k \in W!Keys |-> W!NoPrint]
        /\ terminal' = [k \in W!Keys |-> "none"]
    BY <1>3 DEF W!Restart, W!providerVars, W!storeVars
  <2>2. restarts \in Nat /\ restarts' \in 0 .. MaxRestarts
    BY <1>1, <2>1 DEF WebhookTypes, WebhookAssumed, W!WebhookAssumption
  <2>3. req' \in [W!Threads -> WebhookRequests]
    BY <2>1, IdleRequest
  <2>4. fingerprints' \in [W!Keys -> W!Prints] /\ terminal' \in [W!Keys -> Remembered]
    BY <2>1 DEF W!Prints, W!NoPrint, Remembered
  <2>5. WebhookTypes'
    BY <1>1, <2>1, <2>2, <2>3, <2>4 DEF WebhookTypes
  <2>6. RequestsInv'
    <3>1. ASSUME NEW t \in W!Threads PROVE Fits(req[t])'
      <4>1. /\ req'[t].pc = "idle" /\ req'[t].body = W!NoBody /\ req'[t].slot = "reply"
        BY <2>1, IdleRequest
      <4> QED
        BY <4>1, BodiesAre DEF Fits, Matches, Asks, Early, InRouter, Replying, TurnedAway
    <3> QED
      BY <3>1 DEF RequestsInv
  <2>7. CallsInv'
    <3>1. ASSUME NEW k \in W!Keys, NEW i \in DOMAIN calls[k]
          PROVE  calls[k][i].run <= restarts + 1
      <4>1. calls[k] \in Seq(WebhookCalls)
        BY <1>1 DEF WebhookTypes
      <4>2. calls[k][i] \in WebhookCalls
        BY <4>1
      <4>3. calls[k][i].run \in Nat /\ calls[k][i].run <= restarts
        BY <1>1, <4>2 DEF CallsInv, WebhookCalls
      <4> QED
        BY <2>2, <4>3
    <3>2. \A k \in W!Keys : fingerprints'[k] = W!NoPrint /\ terminal'[k] = "none"
      BY <2>1
    <3> QED
      BY <1>1, <2>1, <3>1, <3>2 DEF CallsInv, Matches, Asks, Actionable
  <2>8. EventsInv'
    BY <1>1, <2>1 DEF EventsInv, Announced
  <2>9. ExtractorInv'
    <3>1. \A t \in W!Threads : req'[t].pc # "extract"
      BY <2>1, IdleRequest
    <3> QED
      BY <3>1 DEF ExtractorInv
  <2> QED
    BY <2>5, <2>6, <2>7, <2>8, <2>9 DEF WebhookInv
<1> QED
  BY <1>2, <1>3

LEMMA WebhookInitial ==
  ASSUME WebhookAssumed, W!Init
  PROVE  WebhookInv
<1>1. WebhookTypes
  <2>1. req \in [W!Threads -> WebhookRequests]
    BY IdleRequest DEF W!Init
  <2>2. fingerprints \in [W!Keys -> W!Prints] /\ terminal \in [W!Keys -> Remembered]
    BY DEF W!Init, W!Prints, W!NoPrint, Remembered
  <2>3. kind \in [Events -> W!Kinds] /\ 0 \in 0 .. MaxRestarts
    BY DEF W!Init, WebhookAssumed, W!WebhookAssumption
  <2>5. \A e \in Events : tries[e] <= MaxDeliveries[kind[e]]
    BY <2>3 DEF W!Init, WebhookAssumed, W!WebhookAssumption
  <2>4. calls \in [W!Keys -> Seq(WebhookCalls)]
    BY DEF W!Init
  <2> QED
    BY <2>1, <2>2, <2>3, <2>4, <2>5 DEF W!Init, WebhookTypes, Heard, Phases
<1>2. RequestsInv
  <2>1. ASSUME NEW t \in W!Threads PROVE Fits(req[t])
    <3>1. /\ req[t].pc = "idle" /\ req[t].body = W!NoBody /\ req[t].slot = "reply"
      BY IdleRequest DEF W!Init
    <3> QED
      BY <3>1, BodiesAre DEF Fits, Matches, Asks, Early, InRouter, Replying, TurnedAway
  <2> QED
    BY <2>1 DEF RequestsInv
<1>3. CallsInv
  BY DEF W!Init, CallsInv
<1>4. EventsInv
  BY DEF W!Init, EventsInv
<1>5. ExtractorInv
  BY IdleRequest DEF W!Init, ExtractorInv
<1> QED
  BY <1>1, <1>2, <1>3, <1>4, <1>5 DEF WebhookInv

LEMMA WebhookStep ==
  ASSUME WebhookAssumed, WebhookInv, [W!Next]_(W!vars)
  PROVE  WebhookInv'
<1>1. ASSUME NEW t \in W!Threads, W!Serve(t) PROVE WebhookInv'
  BY <1>1, RouteInv, HandleInv, RegistersInv, ExtractInv, ApprovalInv, CheckInv, CallInv,
     RecordInv, ProviderInv DEF W!Serve
<1>2. ASSUME NEW t \in W!Threads, NEW e \in Events, W!Deliver(t, e) PROVE WebhookInv'
  BY <1>2, ProviderInv
<1> QED
  BY <1>1, <1>2, AroundInv DEF W!Next

LEMMA WebhookInvariant ==
  ASSUME WebhookAssumed
  PROVE  W!Spec => []WebhookInv
<1>1. W!Init => WebhookInv
  BY WebhookInitial
<1>2. WebhookInv /\ [W!Next]_(W!vars) => WebhookInv'
  BY WebhookStep
<1> QED
  BY <1>1, <1>2, PTL DEF W!Spec

\* The steps of the route and of the router, up to the reply.
EarlyStep(t) ==
  \/ W!Admit(t) \/ W!TranscriptionFails(t) \/ W!Transcribe(t)
  \/ W!Understand(t) \/ W!HandleQuery(t) \/ W!RegisterConflicts(t) \/ W!RegisterFirst(t)
  \/ W!RegisterReplays(t) \/ W!Extract(t) \/ W!CreateApproval(t) \/ W!HandleRaises(t)

\* What they make of a request; the reply to a command is its question, unless
\* its workflow is running or done.
EarlyTo(t, n, r) ==
  /\ Moved(t, n) /\ n.ev = r.ev /\ n.slot = r.slot /\ n.sent = r.sent
  /\ n.pc \in {"transcribe", "handle", "check", "answer"} \cup InRouter
  /\ n.pc = "extract" => W!RegisterFirst(t)
  /\ n.pc = "check" /\ kind[r.ev] = "command" =>
       Asks(n.body) \/ phase[r.ev] \in {"running", "done"}

LEMMA EarlyMoves ==
  ASSUME WebhookAssumed, WebhookInv, NEW t \in W!Threads, EarlyStep(t)
  PROVE  req[t].pc \in Early /\ \E n \in WebhookRequests : EarlyTo(t, n, req[t])
<1>0. WebhookTypes
  BY DEF WebhookInv
<1>1. PICK r \in WebhookRequests : r = req[t]
  BY <1>0 DEF WebhookTypes
<1>2. Fits(r) /\ r.ev \in Events
  BY <1>1 DEF WebhookInv, RequestsInv, WebhookRequests
<1>3. r.pc \in Early
  BY <1>1 DEF EarlyStep, W!Admit, W!TranscriptionFails, W!Transcribe, W!Understand,
     W!HandleQuery, W!RegisterConflicts, W!RegisterFirst, W!RegisterReplays, W!Extract,
     W!CreateApproval, W!HandleRaises, Early, InRouter
<1>4. ASSUME W!Admit(t) PROVE \E n \in WebhookRequests : EarlyTo(t, n, r)
  BY <1>0, <1>1, <1>4, AdmitMoves DEF AdmittedTo, EarlyTo
<1>5. ASSUME W!TranscriptionFails(t) PROVE \E n \in WebhookRequests : EarlyTo(t, n, r)
  <2>1. r.pc = "transcribe" /\ req' = [req EXCEPT ![t].pc = "check", ![t].body = <<"error", W!Nothing>>]
    BY <1>1, <1>5 DEF W!TranscriptionFails
  <2>2. PICK n \in WebhookRequests :
          Moved(t, n) /\ n.pc = "check" /\ n.ev = r.ev /\ n.slot = r.slot /\ n.sent = r.sent
    BY <1>0, <1>1, <2>1, SpokenBodies, ToCheck
  <2>3. kind[r.ev] # "command"
    BY <1>2, <2>1 DEF Fits
  <2> QED
    BY <2>2, <2>3 DEF EarlyTo
<1>6. ASSUME W!Transcribe(t) PROVE \E n \in WebhookRequests : EarlyTo(t, n, r)
  <2>1. req' = [req EXCEPT ![t].pc = "handle"] /\ "handle" \in Stages
    BY <1>6 DEF W!Transcribe, Stages
  <2>2. PICK n \in WebhookRequests : Moved(t, n) /\ n.pc = "handle" /\ Keeps(n, r)
    BY <1>0, <1>1, <2>1, ToPlace
  <2> QED
    BY <2>2 DEF EarlyTo, Keeps
<1>7. ASSUME W!Understand(t) PROVE \E n \in WebhookRequests : EarlyTo(t, n, r)
  BY <1>0, <1>1, <1>7, UnderstandMoves DEF EarlyTo, Keeps, InRouter
<1>8. ASSUME W!HandleQuery(t) PROVE \E n \in WebhookRequests : EarlyTo(t, n, r)
  <2>0. PICK b \in Said : b = <<"view", world>>
    BY <1>0, SpokenBodies DEF WebhookTypes
  <2>1. kind[r.ev] # "command" /\ req' = [req EXCEPT ![t].pc = "check", ![t].body = b]
    BY <1>1, <1>8, <2>0 DEF W!HandleQuery
  <2>2. PICK n \in WebhookRequests :
          Moved(t, n) /\ n.pc = "check" /\ n.ev = r.ev /\ n.slot = r.slot /\ n.sent = r.sent
    BY <1>0, <1>1, <2>1, ToCheck
  <2> QED
    BY <2>1, <2>2 DEF EarlyTo
<1>9. ASSUME W!RegisterConflicts(t) \/ W!HandleRaises(t)
      PROVE  \E n \in WebhookRequests : EarlyTo(t, n, r)
  <2>1. PICK c \in HttpCodes : req' = [req EXCEPT ![t].pc = "answer", ![t].code = c]
    BY <1>9 DEF W!RegisterConflicts, W!HandleRaises, HttpCodes
  <2>2. PICK n \in WebhookRequests : Moved(t, n) /\ n.pc = "answer" /\ Keeps(n, r)
    BY <1>0, <1>1, <2>1, ToAnswer
  <2> QED
    BY <2>2 DEF EarlyTo, Keeps
<1>10. ASSUME W!RegisterFirst(t) PROVE \E n \in WebhookRequests : EarlyTo(t, n, r)
  <2>1. PICK x \in Stages : x = "extract"
    BY DEF Stages
  <2>2. req' = [req EXCEPT ![t].pc = x]
    BY <1>10, <2>1 DEF W!RegisterFirst
  <2>3. PICK n \in WebhookRequests : Moved(t, n) /\ n.pc = x /\ Keeps(n, r)
    BY <1>0, <1>1, <2>2, ToPlace
  <2> QED
    BY <1>10, <2>1, <2>3 DEF EarlyTo, Keeps, InRouter
<1>11. ASSUME NEW x \in Stages, NEW b \in Said, Worded(t, x, b), x \in {"approval", "check"},
              Asks(b) \/ phase[r.ev] \in {"running", "done"}
       PROVE  \E n \in WebhookRequests : EarlyTo(t, n, r)
  <2>1. PICK n \in WebhookRequests :
          /\ Moved(t, n) /\ n.pc = x /\ n.body = b /\ n.ev = r.ev
          /\ n.slot = r.slot /\ n.sent = r.sent
    BY <1>0, <1>1, <1>11, ToReply
  <2> QED
    BY <1>11, <2>1 DEF EarlyTo, InRouter
<1>12. ASSUME W!RegisterReplays(t) PROVE \E n \in WebhookRequests : EarlyTo(t, n, r)
  <2>1. PICK p \in Phases, g \in Readings :
          p = phase[r.ev] /\ g = registered[r.ev] /\ p # "none"
    <3>1. registered[r.ev] # W!Nothing
      BY <1>1, <1>12 DEF W!RegisterReplays
    <3> QED
      BY <1>2, <3>1 DEF WebhookInv, EventsInv, WebhookTypes, Heard
  <2>2. PICK x \in Stages : x = IF p = "ask" THEN "approval" ELSE "check"
    BY DEF Stages
  <2>3. PICK b : b = IF p \in {"ask", "clarify"} THEN <<p, g>> ELSE <<"duplicate", W!Nothing>>
    OBVIOUS
  <2>4. b \in Said /\ (Asks(b) \/ p \in {"running", "done"})
    BY <2>1, <2>3, SpokenBodies, BodiesAre DEF Asks, Phases
  <2>5. Worded(t, x, b)
    BY <1>1, <1>12, <2>1, <2>2, <2>3 DEF W!RegisterReplays, Worded
  <2> QED
    BY <1>11, <2>1, <2>2, <2>4, <2>5
<1>13. ASSUME W!Extract(t) PROVE \E n \in WebhookRequests : EarlyTo(t, n, r)
  <2>1. PICK p \in {"ask", "clarify"} :
          req' = [req EXCEPT ![t].pc = IF p = "ask" THEN "approval" ELSE "check",
                             ![t].body = <<p, r.reading>>]
    BY <1>1, <1>13 DEF W!Extract
  <2>2. PICK x \in Stages : x = IF p = "ask" THEN "approval" ELSE "check"
    BY DEF Stages
  <2>3. r.reading \in Readings
    BY <1>1, <1>2, <1>13 DEF W!Extract, Fits, InRouter
  <2>4. PICK b \in Said : b = <<p, r.reading>> /\ Asks(b)
    BY <2>3, SpokenBodies, BodiesAre DEF Asks
  <2>5. Worded(t, x, b)
    BY <2>1, <2>2, <2>4 DEF Worded
  <2> QED
    BY <1>11, <2>2, <2>4, <2>5
<1>14. ASSUME W!CreateApproval(t) PROVE \E n \in WebhookRequests : EarlyTo(t, n, r)
  <2>1. req' = [req EXCEPT ![t].pc = "check"] /\ "check" \in Stages
    BY <1>14 DEF W!CreateApproval, Stages
  <2>2. PICK n \in WebhookRequests : Moved(t, n) /\ n.pc = "check" /\ Keeps(n, r)
    BY <1>0, <1>1, <2>1, ToPlace
  <2>3. Asks(r.body)
    BY <1>1, <1>2, <1>14 DEF W!CreateApproval, Fits, Asks
  <2> QED
    BY <2>2, <2>3 DEF EarlyTo, Keeps
<1> QED
  BY <1>1, <1>3, <1>4, <1>5, <1>6, <1>7, <1>8, <1>9, <1>10, <1>12, <1>13, <1>14 DEF EarlyStep

\* A request that moves on has no more before it than it had.
Onward(n, r) == \A slot \in W!Slots : MayCall(n, slot) => MayCall(r, slot) /\ n.ev = r.ev

LEMMA ServedOnward ==
  ASSUME WebhookAssumed, WebhookInv, NEW t \in W!Threads, W!Serve(t)
  PROVE  /\ req[t].pc # "idle"
         /\ \E n \in WebhookRequests :
              /\ Moved(t, n) /\ Onward(n, req[t]) /\ (n.ev = req[t].ev \/ n.pc = "idle")
              /\ n.pc \in {"call", "record"} => W!SendFresh(t) \/ W!Call(t)
<1>0. WebhookTypes
  BY DEF WebhookInv
<1>1. PICK r \in WebhookRequests : r = req[t]
  BY <1>0 DEF WebhookTypes
<1>2. Fits(r)
  BY <1>1 DEF WebhookInv, RequestsInv
<1> DEFINE Moves ==
      \E n \in WebhookRequests :
        /\ Moved(t, n) /\ Onward(n, r) /\ (n.ev = r.ev \/ n.pc = "idle")
        /\ n.pc \in {"call", "record"} => W!SendFresh(t) \/ W!Call(t)
<1>3. ASSUME EarlyStep(t) PROVE r.pc # "idle" /\ Moves
  BY <1>1, <1>3, EarlyMoves DEF EarlyTo, Onward, MayCall, Early, InRouter
<1>4. ASSUME W!SendConflict(t) PROVE r.pc # "idle" /\ Moves
  <2>1. r.pc = "check" /\ req' = [req EXCEPT ![t].pc = "answer", ![t].code = 200] /\ 200 \in HttpCodes
    BY <1>1, <1>4 DEF W!SendConflict, HttpCodes
  <2>2. PICK n \in WebhookRequests : Moved(t, n) /\ n.pc = "answer" /\ Keeps(n, r)
    BY <1>0, <1>1, <2>1, ToAnswer
  <2> QED
    BY <2>1, <2>2 DEF Onward, MayCall, Early, InRouter, Keeps
<1>5. ASSUME W!SendReused(t) \/ W!Record(t) PROVE r.pc # "idle" /\ Moves
  <2>1. PICK x : r.pc \in {"check", "record"} /\ req' = [req EXCEPT ![t] = W!Returned(req[t], x)]
    BY <1>1, <1>5 DEF W!SendReused, W!Record
  <2>2. PICK n \in WebhookRequests :
          /\ Moved(t, n) /\ n.pc \in {"speak", "answer"}
          /\ n.pc = "speak" => r.slot = "reply"
          /\ n.ev = r.ev /\ n.slot = r.slot
    BY <1>0, <1>1, <2>1, ReturnMoves
  <2> QED
    BY <2>1, <2>2 DEF Onward, MayCall, Early, InRouter
<1>6. ASSUME W!SendFresh(t) PROVE r.pc # "idle" /\ Moves
  <2>1. r.pc = "check" /\ req' = [req EXCEPT ![t].pc = "call"] /\ "call" \in Stages
    BY <1>1, <1>6 DEF W!SendFresh, Stages
  <2>2. PICK n \in WebhookRequests : Moved(t, n) /\ n.pc = "call" /\ Keeps(n, r)
    BY <1>0, <1>1, <2>1, ToPlace
  <2> QED
    BY <1>6, <2>1, <2>2 DEF Onward, MayCall, Early, InRouter, Keeps
<1>7. ASSUME W!Call(t) PROVE r.pc # "idle" /\ Moves
  <2>1. PICK n \in WebhookRequests : Moved(t, n) /\ n.pc = "record" /\ Keeps(n, r)
    BY <1>0, <1>1, <1>7, CallCalls
  <2>2. r.pc = "call"
    BY <1>1, <1>7 DEF W!Call
  <2> QED
    BY <1>7, <2>1, <2>2 DEF Onward, MayCall, Early, InRouter, Keeps
<1>8. ASSUME W!Speak(t) PROVE r.pc # "idle" /\ Moves
  <2>1. r.pc = "speak" /\ r.slot = "reply"
    BY <1>1, <1>2, <1>8 DEF W!Speak, Fits
  <2>2. PICK n \in WebhookRequests :
          /\ Moved(t, n) /\ n.ev = r.ev
          /\ (n.pc = "check" /\ n.slot = "reply-audio") \/ n.pc = "answer"
    BY <1>0, <1>1, <1>8, SpeakMoves
  <2> QED
    BY <2>1, <2>2 DEF Onward, MayCall, Early, InRouter, W!Slots
<1>9. ASSUME W!Answer200(t) \/ W!AnswerLostOrRefused(t) PROVE r.pc # "idle" /\ Moves
  <2>1. PICK n \in WebhookRequests : Moved(t, n) /\ n.pc = "idle"
    BY <1>9, IdleRequest DEF W!Answer200, W!AnswerLostOrRefused, Moved
  <2>2. r.pc = "answer"
    BY <1>1, <1>9 DEF W!Answer200, W!AnswerLostOrRefused
  <2> QED
    BY <2>1, <2>2 DEF Onward, MayCall, Early, InRouter
<1>10. r.pc # "idle" /\ Moves
  BY <1>3, <1>4, <1>5, <1>6, <1>7, <1>8, <1>9 DEF W!Serve, EarlyStep
<1> QED
  BY <1>1, <1>10

\* The threads of a channel.
LEMMA PlacedStep ==
  ASSUME WebhookAssumed, WebhookInv, PlacedInv, [W!Next]_(W!vars)
  PROVE  PlacedInv'
<1>0. WebhookTypes
  BY DEF WebhookInv
<1>1. ASSUME NEW t \in W!Threads, NEW n, Moved(t, n), channel' = channel,
             n.pc # "idle" => t \in W!Pool(channel[n.ev])
      PROVE  PlacedInv'
  <2>1. req'[t] = n /\ \A u \in W!Threads : u # t => req'[u] = req[u]
    BY <1>0, <1>1, OthersStay
  <2> QED
    BY <1>1, <2>1 DEF PlacedInv, W!Pool
<1>2. ASSUME NEW t \in W!Threads, W!Serve(t) PROVE PlacedInv'
  <2>1. PICK n \in WebhookRequests : Moved(t, n) /\ (n.ev = req[t].ev \/ n.pc = "idle")
    BY <1>2, ServedOnward
  <2>2. t \in W!Pool(channel[req[t].ev])
    BY <1>2, ServedOnward DEF PlacedInv
  <2>3. channel' = channel
    BY <1>2 DEF W!Serve, W!Admit, W!TranscriptionFails, W!Transcribe, W!Understand,
       W!HandleQuery, W!RegisterConflicts, W!RegisterFirst, W!RegisterReplays, W!Extract,
       W!CreateApproval, W!HandleRaises, W!SendConflict, W!SendReused, W!SendFresh, W!Call,
       W!Record, W!Speak, W!Answer200, W!AnswerLostOrRefused, W!providerVars
  <2> QED
    BY <1>1, <2>1, <2>2, <2>3
<1>3. ASSUME NEW t \in W!Threads, NEW e \in Events, W!Deliver(t, e) PROVE PlacedInv'
  <2>1. PICK n \in WebhookRequests : Moved(t, n) /\ n.ev = e
    BY <1>0, <1>3, DeliverMoves
  <2>2. t \in W!Pool(channel[e]) /\ channel' = channel
    BY <1>3 DEF W!Deliver
  <2> QED
    BY <1>1, <2>1, <2>2
<1>4. CASE W!Restart
  <2>1. \A t \in W!Threads : req'[t].pc = "idle"
    BY <1>4, IdleRequest DEF W!Restart
  <2> QED
    BY <2>1 DEF PlacedInv
<1>5. CASE (\E e \in Events : W!Approved(e)) \/ W!WorldChanges \/ UNCHANGED W!vars
  BY <1>5 DEF W!Approved, W!WorldChanges, W!vars, W!providerVars, PlacedInv, W!Pool
<1> QED
  BY <1>2, <1>3, <1>4, <1>5 DEF W!Next

\* What the workers do never touches the events of WhatsApp.
LEMMA WorkersAside ==
  ASSUME WebhookAssumed, WebhookInv, PlacedInv, NEW t \in W!Threads, t # EventLoop,
         W!Serve(t) \/ \E e \in Events : W!Deliver(t, e)
  PROVE  /\ UNCHANGED <<channel, kind, restarts>>
         /\ req'[EventLoop] = req[EventLoop]
         /\ \A e \in Events : channel[e] = "whatsapp" => phase'[e] = phase[e]
         /\ \A k \in W!Keys : channel[k[1]] = "whatsapp" =>
              calls'[k] = calls[k] /\ fingerprints'[k] = fingerprints[k] /\ terminal'[k] = terminal[k]
<1>0. WebhookTypes
  BY DEF WebhookInv
<1>1. PICK r \in WebhookRequests : r = req[t]
  BY <1>0 DEF WebhookTypes
<1>2. EventLoop \in W!Threads
  BY DEF W!Threads
<1>3. ASSUME NEW e \in Events, W!Deliver(t, e)
      PROVE  /\ UNCHANGED <<channel, kind, restarts, phase, calls, fingerprints, terminal>>
             /\ req'[EventLoop] = req[EventLoop]
  <2>1. PICK n \in WebhookRequests : Moved(t, n)
    BY <1>0, <1>3, DeliverMoves
  <2>2. req'[EventLoop] = req[EventLoop]
    BY <1>0, <1>2, <2>1, OthersStay
  <2> QED
    BY <1>3, <2>2 DEF W!Deliver, W!storeVars, W!toolVars
<1>4. ASSUME W!Serve(t)
      PROVE  /\ UNCHANGED <<channel, kind, restarts>>
             /\ req'[EventLoop] = req[EventLoop]
             /\ \A e \in Events : channel[e] = "whatsapp" => phase'[e] = phase[e]
             /\ \A k \in W!Keys : channel[k[1]] = "whatsapp" =>
                  /\ calls'[k] = calls[k] /\ fingerprints'[k] = fingerprints[k]
                  /\ terminal'[k] = terminal[k]
  <2>1. channel[r.ev] # "whatsapp" /\ r.ev \in Events
    <3>1. t \in W!Pool(channel[r.ev])
      BY <1>1, <1>4, ServedOnward DEF PlacedInv
    <3> QED
      BY <3>1 DEF W!Pool, WebhookRequests
  <2>2. PICK n \in WebhookRequests : Moved(t, n)
    BY <1>4, ServedOnward
  <2>3. req'[EventLoop] = req[EventLoop]
    BY <1>0, <1>2, <2>2, OthersStay
  <2>4. UNCHANGED <<channel, kind, restarts>>
    BY <1>4 DEF W!Serve, W!Admit, W!TranscriptionFails, W!Transcribe, W!Understand,
       W!HandleQuery, W!RegisterConflicts, W!RegisterFirst, W!RegisterReplays, W!Extract,
       W!CreateApproval, W!HandleRaises, W!SendConflict, W!SendReused, W!SendFresh, W!Call,
       W!Record, W!Speak, W!Answer200, W!AnswerLostOrRefused, W!providerVars
  <2>5. \/ phase' = phase \/ \E p : phase' = [phase EXCEPT ![r.ev] = p]
    BY <1>1, <1>4 DEF W!Serve, W!Admit, W!TranscriptionFails, W!Transcribe, W!Understand,
       W!HandleQuery, W!RegisterConflicts, W!RegisterFirst, W!RegisterReplays, W!Extract,
       W!CreateApproval, W!HandleRaises, W!SendConflict, W!SendReused, W!SendFresh, W!Call,
       W!Record, W!Speak, W!Answer200, W!AnswerLostOrRefused, W!storeVars
  <2>6. \/ UNCHANGED <<calls, fingerprints, terminal>>
        \/ W!Call(t) \/ W!Record(t)
    BY <1>4 DEF W!Serve, W!Admit, W!TranscriptionFails, W!Transcribe, W!Understand,
       W!HandleQuery, W!RegisterConflicts, W!RegisterFirst, W!RegisterReplays, W!Extract,
       W!CreateApproval, W!HandleRaises, W!SendConflict, W!SendReused, W!SendFresh,
       W!Speak, W!Answer200, W!AnswerLostOrRefused, W!toolVars
  <2>7. \A e \in Events : channel[e] = "whatsapp" => phase'[e] = phase[e]
    BY <1>0, <2>1, <2>5 DEF WebhookTypes
  <2>8. PICK k \in W!Keys : k = W!KeyOf(r) /\ k[1] = r.ev
    BY <2>1, KeysAre
  <2>9. ASSUME NEW l \in W!Keys, channel[l[1]] = "whatsapp"
        PROVE  calls'[l] = calls[l] /\ fingerprints'[l] = fingerprints[l] /\ terminal'[l] = terminal[l]
    <3>1. l # k
      BY <2>1, <2>8, <2>9
    <3>2. CASE W!Call(t)
      <4>1. PICK c : calls' = [calls EXCEPT ![k] = c]
        BY <1>1, <2>8, <3>2 DEF W!Call
      <4>2. terminal' = terminal /\ fingerprints' = [fingerprints EXCEPT ![k] = W!PrintOf(r)]
        BY <1>1, <2>8, <3>2 DEF W!Call
      <4> QED
        BY <1>0, <3>1, <4>1, <4>2 DEF WebhookTypes
    <3>3. CASE W!Record(t)
      BY <1>0, <1>1, <2>8, <3>1, <3>3 DEF W!Record, WebhookTypes
    <3> QED
      BY <2>6, <3>2, <3>3
  <2> QED
    BY <2>3, <2>4, <2>7, <2>9
<1> QED
  BY <1>3, <1>4

\* A step of the event loop that changes no phase and calls nobody.
LEMMA QuestionsQuiet ==
  ASSUME WebhookTypes, QuestionsInv, UNCHANGED <<channel, kind, phase, calls>>,
         NEW n, Moved(EventLoop, n), n.pc # "extract",
         n.pc \in Replying /\ kind[n.ev] = "command" =>
           \/ Asks(n.body) \/ phase[n.ev] \in {"running", "done"}
           \/ /\ req[EventLoop].ev = n.ev /\ req[EventLoop].pc \in Replying
              /\ req[EventLoop].body = n.body
  PROVE  QuestionsInv'
<1>1. req'[EventLoop] = n
  BY OthersStay DEF W!Threads
<1>2. ASSUME NEW e \in Events, channel[e] = "whatsapp", kind[e] = "command", n.ev = e,
             n.pc \in Replying
      PROVE  Asks(n.body) \/ phase[e] \in {"running", "done"}
  BY <1>2 DEF QuestionsInv
<1> QED
  BY <1>1, <1>2 DEF QuestionsInv, Asks

LEMMA QuestionsStep ==
  ASSUME WebhookAssumed, WebhookInv, PlacedInv, QuestionsInv, [W!Next]_(W!vars)
  PROVE  QuestionsInv'
<1>0. WebhookTypes /\ EventLoop \in W!Threads
  BY DEF WebhookInv, W!Threads
<1>1. PICK r \in WebhookRequests : r = req[EventLoop]
  BY <1>0 DEF WebhookTypes
<1>2. Fits(r) /\ r.ev \in Events
  BY <1>0, <1>1 DEF WebhookInv, RequestsInv, WebhookRequests
<1>3. ASSUME NEW t \in W!Threads, t # EventLoop, W!Serve(t) \/ \E e \in Events : W!Deliver(t, e)
      PROVE  QuestionsInv'
  <2>1. /\ UNCHANGED <<channel, kind>> /\ req'[EventLoop] = req[EventLoop]
        /\ \A e \in Events : channel[e] = "whatsapp" => phase'[e] = phase[e]
        /\ \A e \in Events : channel[e] = "whatsapp" =>
             calls'[<<e, "reply">>] = calls[<<e, "reply">>]
    BY <1>3, WorkersAside, KeysAre
  <2> QED
    BY <2>1 DEF QuestionsInv, Asks
<1>4. ASSUME NEW e \in Events, W!Deliver(EventLoop, e) PROVE QuestionsInv'
  <2>1. PICK n \in WebhookRequests : Moved(EventLoop, n) /\ n.pc = "admit"
    BY <1>0, <1>4, DeliverMoves
  <2>2. UNCHANGED <<channel, kind, phase, calls>>
    BY <1>4 DEF W!Deliver, W!storeVars
  <2> QED
    BY <1>0, <2>1, <2>2, QuestionsQuiet DEF Replying
<1>5. ASSUME EarlyStep(EventLoop), ~W!RegisterFirst(EventLoop), ~W!Extract(EventLoop)
      PROVE  QuestionsInv'
  <2>1. PICK n \in WebhookRequests : EarlyTo(EventLoop, n, r)
    BY <1>0, <1>1, <1>5, EarlyMoves
  <2>2. UNCHANGED <<channel, kind, phase, calls>>
    BY <1>5 DEF EarlyStep, W!Admit, W!TranscriptionFails, W!Transcribe, W!Understand,
       W!HandleQuery, W!RegisterConflicts, W!RegisterReplays,
       W!CreateApproval, W!HandleRaises, W!providerVars, W!storeVars
  <2>3. n.pc # "extract" /\ Moved(EventLoop, n)
    BY <1>5, <2>1 DEF EarlyTo
  <2>4. n.pc \in Replying => n.pc = "check"
    BY <2>1 DEF EarlyTo, InRouter, Replying
  <2>5. n.pc \in Replying /\ kind[n.ev] = "command" =>
          Asks(n.body) \/ phase[n.ev] \in {"running", "done"}
    BY <2>1, <2>4 DEF EarlyTo
  <2> QED
    BY <1>0, <2>2, <2>3, <2>5, QuestionsQuiet
<1>6. CASE W!RegisterFirst(EventLoop)
  <2>1. PICK n \in WebhookRequests : EarlyTo(EventLoop, n, r)
    BY <1>0, <1>1, <1>6, EarlyMoves DEF EarlyStep
  <2>2. /\ UNCHANGED <<channel, kind, calls>> /\ registered[r.ev] = W!Nothing
        /\ phase' = [phase EXCEPT ![r.ev] = "running"]
        /\ req' = [req EXCEPT ![EventLoop].pc = "extract"]
    BY <1>1, <1>6 DEF W!RegisterFirst, W!providerVars
  <2>3. req'[EventLoop] = n /\ n.ev = r.ev
    BY <1>0, <2>1, OthersStay DEF EarlyTo
  <2>4. n.pc = "extract"
    BY <1>0, <2>2, <2>3 DEF WebhookTypes, WebhookRequests
  <2>5. kind[r.ev] = "command" => calls[<<r.ev, "reply">>] = <<>>
    BY <1>2, <2>2, KeysAre DEF WebhookInv, CallsInv
  <2>6. \A e \in Events : e # r.ev => phase'[e] = phase[e]
    BY <1>0, <2>2 DEF WebhookTypes
  <2>7. ASSUME NEW e \in Events, channel[e] = "whatsapp", kind[e] = "command"
        PROVE  /\ \A i \in DOMAIN calls[<<e, "reply">>] :
                    Asks(calls[<<e, "reply">>][i].body) \/ phase'[e] \in {"running", "done"}
               /\ n.ev = e => calls[<<e, "reply">>] = <<>>
    <3>1. CASE e = r.ev
      BY <2>3, <2>5, <2>7, <3>1
    <3>2. CASE e # r.ev
      BY <2>3, <2>6, <2>7, <3>2 DEF QuestionsInv
    <3> QED
      BY <3>1, <3>2
  <2> QED
    BY <2>2, <2>3, <2>4, <2>7 DEF QuestionsInv, Asks, Replying
<1>7. CASE W!Extract(EventLoop)
  <2>1. PICK n \in WebhookRequests : EarlyTo(EventLoop, n, r)
    BY <1>0, <1>1, <1>7, EarlyMoves DEF EarlyStep
  <2>2. UNCHANGED <<channel, kind, calls>> /\ r.pc = "extract"
    BY <1>1, <1>7 DEF W!Extract, W!providerVars
  <2>3. PICK p \in {"ask", "clarify"} :
          /\ phase' = [phase EXCEPT ![r.ev] = p]
          /\ req' = [req EXCEPT ![EventLoop].pc = IF p = "ask" THEN "approval" ELSE "check",
                                ![EventLoop].body = <<p, r.reading>>]
    BY <1>1, <1>7 DEF W!Extract
  <2>4. req'[EventLoop] = n /\ n.ev = r.ev
    BY <1>0, <2>1, OthersStay DEF EarlyTo
  <2>5. n.pc \in {"approval", "check"} /\ Asks(n.body)
    <3>1. n.pc = (IF p = "ask" THEN "approval" ELSE "check") /\ n.body = <<p, r.reading>>
      BY <1>0, <2>3, <2>4 DEF WebhookTypes, WebhookRequests
    <3> QED
      BY <3>1, BodiesAre DEF Asks
  <2>6. channel[r.ev] = "whatsapp" /\ kind[r.ev] = "command" => calls[<<r.ev, "reply">>] = <<>>
    BY <1>1, <1>2, <2>2 DEF QuestionsInv
  <2>7. \A e \in Events : e # r.ev => phase'[e] = phase[e]
    BY <1>0, <2>3 DEF WebhookTypes
  <2>8. ASSUME NEW e \in Events, channel[e] = "whatsapp", kind[e] = "command"
        PROVE  \A i \in DOMAIN calls[<<e, "reply">>] :
                 Asks(calls[<<e, "reply">>][i].body) \/ phase'[e] \in {"running", "done"}
    <3>1. CASE e = r.ev
      BY <2>6, <2>8, <3>1
    <3>2. CASE e # r.ev
      BY <2>7, <2>8, <3>2 DEF QuestionsInv
    <3> QED
      BY <3>1, <3>2
  <2> QED
    BY <2>2, <2>4, <2>5, <2>8 DEF QuestionsInv, Asks
<1>8. CASE W!SendConflict(EventLoop) \/ W!SendReused(EventLoop) \/ W!SendFresh(EventLoop)
           \/ W!Record(EventLoop) \/ W!Speak(EventLoop)
  <2>1. UNCHANGED <<channel, kind, phase, calls>> /\ r.pc \in Replying
    BY <1>1, <1>8 DEF W!SendConflict, W!SendReused, W!SendFresh, W!Record, W!Speak,
       W!providerVars, W!storeVars, Replying
  <2>2. \E n \in WebhookRequests :
          Moved(EventLoop, n) /\ n.ev = r.ev /\ n.body = r.body /\ n.pc # "extract"
    <3>1. CASE W!SendConflict(EventLoop)
      <4>1. req' = [req EXCEPT ![EventLoop].pc = "answer", ![EventLoop].code = 200] /\ 200 \in HttpCodes
        BY <3>1 DEF W!SendConflict, HttpCodes
      <4>2. PICK n \in WebhookRequests : Moved(EventLoop, n) /\ n.pc = "answer" /\ Keeps(n, r)
        BY <1>0, <1>1, <4>1, ToAnswer
      <4> QED
        BY <4>2 DEF Keeps
    <3>2. CASE W!SendReused(EventLoop) \/ W!Record(EventLoop)
      <4>1. PICK x : req' = [req EXCEPT ![EventLoop] = W!Returned(req[EventLoop], x)]
        BY <3>2 DEF W!SendReused, W!Record
      <4> QED
        BY <1>0, <1>1, <4>1, ReturnMoves
    <3>3. CASE W!SendFresh(EventLoop)
      <4>1. req' = [req EXCEPT ![EventLoop].pc = "call"] /\ "call" \in Stages
        BY <3>3 DEF W!SendFresh, Stages
      <4>2. PICK n \in WebhookRequests : Moved(EventLoop, n) /\ n.pc = "call" /\ Keeps(n, r)
        BY <1>0, <1>1, <4>1, ToPlace
      <4> QED
        BY <4>2 DEF Keeps
    <3>4. CASE W!Speak(EventLoop)
      BY <1>0, <1>1, <3>4, SpeakMoves
    <3> QED
      BY <1>8, <3>1, <3>2, <3>3, <3>4
  <2> QED
    BY <1>0, <1>1, <2>1, <2>2, QuestionsQuiet
<1>9. CASE W!Answer200(EventLoop) \/ W!AnswerLostOrRefused(EventLoop)
  <2>1. PICK n \in WebhookRequests : Moved(EventLoop, n) /\ n.pc = "idle"
    BY <1>9, IdleRequest DEF W!Answer200, W!AnswerLostOrRefused, Moved
  <2>2. UNCHANGED <<channel, kind, phase, calls>>
    BY <1>9 DEF W!Answer200, W!AnswerLostOrRefused, W!providerVars, W!storeVars
  <2> QED
    BY <1>0, <2>1, <2>2, QuestionsQuiet DEF Replying
<1>10. CASE W!Call(EventLoop)
  <2>1. PICK n \in WebhookRequests, k \in W!Keys, c \in WebhookCalls :
          /\ Called(EventLoop, k, c) /\ Moved(EventLoop, n) /\ n.pc = "record" /\ Keeps(n, r)
    BY <1>0, <1>1, <1>10, CallCalls
  <2>2. /\ calls'[k] = Append(calls[k], c)
        /\ \A l \in W!Keys : l # k => calls'[l] = calls[l]
    BY <1>0, <2>1, CalledEffect
  <2>3. /\ UNCHANGED <<channel, kind, phase>> /\ k = W!KeyOf(r) /\ k[1] = r.ev
        /\ r.pc \in Replying /\ c.body = r.body
    BY <1>1, <1>2, <2>1, KeysAre DEF Called, Replying, W!KeyOf
  <2>4. req'[EventLoop] = n /\ n.ev = r.ev /\ n.body = r.body
    BY <1>0, <2>1, OthersStay DEF Keeps
  <2>5. channel[r.ev] = "whatsapp" /\ kind[r.ev] = "command" =>
          Asks(r.body) \/ phase[r.ev] \in {"running", "done"}
    BY <1>1, <1>2, <2>3 DEF QuestionsInv
  <2>6. ASSUME NEW e \in Events, channel[e] = "whatsapp", kind[e] = "command",
               NEW i \in DOMAIN calls'[<<e, "reply">>]
        PROVE  Asks(calls'[<<e, "reply">>][i].body) \/ phase[e] \in {"running", "done"}
    <3>1. PICK l \in W!Keys : l = <<e, "reply">> /\ l[1] = e
      BY KeysAre
    <3>2. CASE l # k
      BY <2>2, <2>6, <3>1, <3>2 DEF QuestionsInv
    <3>3. CASE l = k /\ i \in DOMAIN calls[k]
      <4>1. calls'[k][i] = calls[k][i]
        BY <1>0, <2>2, <3>3, Appended DEF WebhookTypes
      <4> QED
        BY <2>6, <3>1, <3>3, <4>1 DEF QuestionsInv
    <3>4. CASE l = k /\ i = Len(calls[k]) + 1
      <4>1. calls'[k][i] = c
        BY <1>0, <2>2, <3>4, Appended DEF WebhookTypes
      <4> QED
        BY <2>3, <2>5, <2>6, <3>1, <3>4, <4>1
    <3>5. ASSUME l = k PROVE i \in DOMAIN calls[k] \/ i = Len(calls[k]) + 1
      <4>1. calls[k] \in Seq(WebhookCalls)
        BY <1>0 DEF WebhookTypes
      <4>2. i \in DOMAIN Append(calls[k], c)
        BY <2>2, <2>6, <3>1, <3>5
      <4> QED
        BY <4>1, <4>2, Appended
    <3> QED
      BY <3>2, <3>3, <3>4, <3>5
  <2> QED
    BY <2>1, <2>3, <2>4, <2>5, <2>6 DEF QuestionsInv, Asks
<1>11. CASE W!Restart
  <2>1. /\ req'[EventLoop].pc = "idle"
        /\ UNCHANGED <<channel, kind, phase, calls>>
    BY <1>0, <1>11, IdleRequest DEF W!Restart, W!providerVars, W!storeVars
  <2> QED
    BY <2>1 DEF QuestionsInv, Asks, Replying
<1>12. CASE (\E e \in Events : W!Approved(e)) \/ W!WorldChanges \/ UNCHANGED W!vars
  <2>1. UNCHANGED <<channel, kind, req, calls>>
    BY <1>12 DEF W!Approved, W!WorldChanges, W!vars, W!providerVars
  <2>2. \A e \in Events : phase'[e] = phase[e] \/ phase'[e] = "done"
    BY <1>0, <1>12 DEF W!Approved, W!WorldChanges, W!vars, WebhookTypes
  <2> QED
    BY <2>1, <2>2 DEF QuestionsInv, Asks
<1>13. ASSUME W!Serve(EventLoop) PROVE QuestionsInv'
  BY <1>5, <1>6, <1>7, <1>8, <1>9, <1>10, <1>13 DEF W!Serve, EarlyStep
<1> QED
  BY <1>3, <1>4, <1>11, <1>12, <1>13 DEF W!Next

LEMMA QuestionsInvariant ==
  ASSUME WebhookAssumed
  PROVE  W!Spec => [](WebhookInv /\ PlacedInv /\ QuestionsInv)
<1>1. ASSUME W!Init PROVE PlacedInv /\ QuestionsInv
  <2>1. /\ \A t \in W!Threads : req[t].pc = "idle"
        /\ \A k \in W!Keys : calls[k] = <<>>
    BY <1>1, IdleRequest DEF W!Init
  <2>2. \A e \in Events : calls[<<e, "reply">>] = <<>>
    BY <2>1, KeysAre
  <2>3. req[EventLoop].pc = "idle"
    BY <2>1 DEF W!Threads
  <2>4. PlacedInv
    BY <2>1 DEF PlacedInv
  <2>5. QuestionsInv
    BY <2>2, <2>3 DEF QuestionsInv, Replying
  <2> QED
    BY <2>4, <2>5
<1>2. WebhookInv /\ PlacedInv /\ [W!Next]_(W!vars) => PlacedInv'
  BY PlacedStep
<1>3. WebhookInv /\ PlacedInv /\ QuestionsInv /\ [W!Next]_(W!vars) => QuestionsInv'
  BY QuestionsStep
<1> QED
  BY <1>1, <1>2, <1>3, WebhookInvariant, PTL DEF W!Spec

LEMMA SettledPart ==
  ASSUME W!KindAssumption, W!WebhookAssumption, W!StatusAssumption
  PROVE  W!Spec => []W!EventsAreSettled
<1>1. WebhookAssumed
  BY DEF WebhookAssumed
<1>2. ASSUME WebhookInv, QuestionsInv PROVE W!SettledOnceAcked
  <2> SUFFICES ASSUME NEW e \in Events, acked[e], kind[e] = "command"
               PROVE  /\ registered[e] # W!Nothing
                      /\ calls[<<e, "reply">>] # <<>>
                      /\ channel[e] = "whatsapp" =>
                           W!Questioned(e) \/ phase[e] \in {"running", "done"}
    BY DEF W!SettledOnceAcked
  <2>1. PICK k \in W!Keys : k = <<e, "reply">> /\ k[1] = e
    BY KeysAre
  <2>2. calls[k] # <<>> /\ calls[k] \in Seq(WebhookCalls)
    BY <1>2, <2>1 DEF WebhookInv, EventsInv, Announced, WebhookTypes
  <2>3. 1 \in DOMAIN calls[k]
    BY <2>2
  <2>4. registered[e] # W!Nothing
    BY <1>2, <2>1, <2>2 DEF WebhookInv, CallsInv
  <2>5. ASSUME channel[e] = "whatsapp", phase[e] \notin {"running", "done"}
        PROVE  W!Questioned(e)
    <3>1. PICK b : b = calls[k][1].body
      OBVIOUS
    <3>2. Asks(b) /\ Matches(b, e)
      BY <1>2, <2>1, <2>3, <2>5, <3>1 DEF QuestionsInv, WebhookInv, CallsInv
    <3> QED
      BY <2>1, <2>3, <3>1, <3>2 DEF W!Questioned, Asks, Matches
  <2> QED
    BY <2>1, <2>2, <2>4, <2>5
<1>3. ASSUME WebhookInv PROVE W!AskedIsActionable
  <2> SUFFICES ASSUME NEW e \in Events, NEW i \in DOMAIN calls[<<e, "reply">>],
                      calls[<<e, "reply">>][i].body[1] = "ask"
               PROVE  approvalRow[e] = registered[e]
    BY DEF W!AskedIsActionable, W!Messages, W!Range
  <2>1. PICK k \in W!Keys : k = <<e, "reply">> /\ k[1] = e
    BY KeysAre
  <2>2. approvalRow[e] # W!Nothing
    BY <1>3, <2>1 DEF WebhookInv, CallsInv, Actionable
  <2> QED
    BY <1>3, <2>2 DEF WebhookInv, EventsInv
<1>4. ASSUME WebhookInv PROVE W!TurnedAwayWithoutWork
  <2>1. \A e \in Events, slot \in W!Slots :
          kind[e] \in TurnedAway => calls[<<e, slot>>] = <<>>
    BY <1>4 DEF WebhookInv, CallsInv, W!Keys
  <2>2. \A t \in W!Threads : kind[req[t].ev] \in TurnedAway => req[t].pc \in {"idle", "admit", "answer"}
    BY <1>4 DEF WebhookInv, RequestsInv, Fits
  <2> QED
    BY <1>4, <2>1, <2>2 DEF WebhookInv, EventsInv, TurnedAway, W!TurnedAwayWithoutWork
<1>5. WebhookInv /\ QuestionsInv => W!EventsAreSettled
  BY <1>2, <1>3, <1>4 DEF W!EventsAreSettled
<1> QED
  BY <1>1, <1>5, QuestionsInvariant, PTL

\* The instance's finite sets are the ones the library's theorems are about.
LEMMA SameSizes ==
  /\ \A S : W!Cardinality(S) = Cardinality(S)
  /\ \A S : W!IsFiniteSet(S) => IsFiniteSet(S)
BY DEF W!Cardinality, Cardinality, W!IsFiniteSet, IsFiniteSet

LEMMA ThreadSets ==
  ASSUME WebhookAssumed, NEW A \in SUBSET W!Threads, NEW B \in SUBSET W!Threads,
         NEW M \in SUBSET W!Threads, NEW t
  PROVE  /\ IsFiniteSet(A) /\ Cardinality(A) \in Nat /\ Cardinality(B) \in Nat
         /\ A \subseteq B => Cardinality(A) <= Cardinality(B)
         /\ A \subseteq B \ {t} /\ t \in B => Cardinality(A) + 1 <= Cardinality(B)
         /\ A \subseteq B \cup {t} => Cardinality(A) <= Cardinality(B) + 1
         /\ A \cap B = {} /\ A \cup B \subseteq M =>
              Cardinality(A) + Cardinality(B) <= Cardinality(M)
<1>1. IsFiniteSet(W!Threads)
  BY SameSizes, FS_AddElement DEF WebhookAssumed, W!WebhookAssumption, W!Threads
<1>2. IsFiniteSet(A) /\ IsFiniteSet(B) /\ IsFiniteSet(A \cup B) /\ IsFiniteSet(M)
  BY <1>1, FS_Subset
<1>3. Cardinality(A) \in Nat /\ Cardinality(B) \in Nat /\ Cardinality(M) \in Nat
  BY <1>2, FS_CardinalityType
<1>4. A \subseteq B => Cardinality(A) <= Cardinality(B)
  BY <1>2, FS_Subset
<1>5. ASSUME A \subseteq B \ {t}, t \in B PROVE Cardinality(A) + 1 <= Cardinality(B)
  <2>1. IsFiniteSet(B \ {t}) /\ Cardinality(B \ {t}) = Cardinality(B) - 1
    BY <1>2, <1>5, FS_RemoveElement
  <2>2. Cardinality(A) <= Cardinality(B \ {t})
    BY <1>5, <2>1, FS_Subset
  <2> QED
    BY <1>3, <2>1, <2>2
<1>6. ASSUME A \subseteq B \cup {t} PROVE Cardinality(A) <= Cardinality(B) + 1
  <2>1. /\ IsFiniteSet(B \cup {t})
        /\ Cardinality(B \cup {t}) \in {Cardinality(B), Cardinality(B) + 1}
    BY <1>2, FS_AddElement
  <2>2. Cardinality(A) <= Cardinality(B \cup {t})
    BY <1>6, <2>1, FS_Subset
  <2> QED
    BY <1>3, <2>1, <2>2
<1>7. ASSUME A \cap B = {}, A \cup B \subseteq M
      PROVE  Cardinality(A) + Cardinality(B) <= Cardinality(M)
  <2>1. Cardinality(A \cup B) = Cardinality(A) + Cardinality(B) - Cardinality({})
    BY <1>2, <1>7, FS_Union
  <2>2. Cardinality({}) = 0
    BY FS_EmptySet
  <2>3. Cardinality(A \cup B) <= Cardinality(M)
    BY <1>2, <1>7, FS_Subset
  <2> QED
    BY <1>3, <2>1, <2>2, <2>3
<1> QED
  BY <1>2, <1>3, <1>4, <1>5, <1>6, <1>7

LEMMA OnwardSets ==
  ASSUME WebhookTypes, NEW t \in W!Threads, NEW n, Moved(t, n), Onward(n, req[t])
  PROVE  \A k \in W!Keys : Ahead(k)' \subseteq Ahead(k)
<1>1. \A u \in W!Threads : (req'[u] = n /\ u = t) \/ req'[u] = req[u]
  BY OthersStay
<1>3. ASSUME NEW k \in W!Keys, NEW u \in Ahead(k)' PROVE u \in Ahead(k)
  <2>1. u \in W!Threads /\ req'[u].ev = k[1] /\ MayCall(req[u], k[2])'
    BY <1>3 DEF Ahead
  <2>2. k[2] \in W!Slots
    BY KeysAre
  <2>3. CASE req'[u] = n /\ u = t
    <3>1. MayCall(n, k[2])
      BY <2>1, <2>3 DEF MayCall
    <3> QED
      BY <2>1, <2>2, <2>3, <3>1 DEF Onward, Ahead
  <2>4. CASE req'[u] = req[u]
    BY <2>1, <2>4 DEF Ahead, MayCall
  <2> QED
    BY <1>1, <2>1, <2>3, <2>4
<1> QED
  BY <1>3

LEMMA RequestSets ==
  \A k : Ahead(k) \in SUBSET W!Threads /\ Ahead(k)' \in SUBSET W!Threads
BY DEF Ahead

\* What is called while the request that calls moves on.
LEMMA OnwardCounts ==
  ASSUME WebhookAssumed, WebhookInv, DeliveredInv, NEW t \in W!Threads, NEW n, Moved(t, n),
         Onward(n, req[t]), tries' = tries,
         calls' \in [W!Keys -> Seq(WebhookCalls)],
         \A k \in W!Keys : \/ calls'[k] = calls[k]
                           \/ /\ Len(calls'[k]) = Len(calls[k]) + 1
                              /\ t \in Ahead(k) /\ t \notin Ahead(k)'
  PROVE  DeliveredInv'
<1>1. WebhookTypes
  BY DEF WebhookInv
<1>2. \A e \in Events : tries[e] \in Int
  BY <1>1 DEF WebhookTypes
<1>4. ASSUME NEW k \in W!Keys
      PROVE  Len(calls'[k]) + Cardinality(Ahead(k)') <= tries'[k[1]]
  <2>1. PICK A \in SUBSET W!Threads, B \in SUBSET W!Threads : A = Ahead(k)' /\ B = Ahead(k)
    BY RequestSets
  <2>2. A \subseteq B
    BY <1>1, <2>1, OnwardSets
  <2>3. /\ Len(calls[k]) + Cardinality(B) <= tries[k[1]]
        /\ Len(calls[k]) \in Nat /\ Len(calls'[k]) \in Nat /\ tries[k[1]] \in Int
    BY <1>1, <1>2, <2>1, KeysAre DEF DeliveredInv, WebhookTypes
  <2>4. CASE calls'[k] = calls[k]
    <3>1. Cardinality(A) <= Cardinality(B) /\ Cardinality(A) \in Nat /\ Cardinality(B) \in Nat
      BY <2>2, ThreadSets
    <3>2. Len(calls'[k]) + Cardinality(A) <= tries[k[1]]
      BY <2>3, <2>4, <3>1
    <3> QED
      BY <2>1, <3>2
  <2>5. CASE Len(calls'[k]) = Len(calls[k]) + 1 /\ t \in B /\ t \notin A
    <3>1. A \subseteq B \ {t}
      BY <2>2, <2>5
    <3>2. Cardinality(A) + 1 <= Cardinality(B) /\ Cardinality(A) \in Nat /\ Cardinality(B) \in Nat
      BY <2>5, <3>1, ThreadSets
    <3>3. Len(calls'[k]) + Cardinality(A) <= tries[k[1]]
      BY <2>3, <2>5, <3>2
    <3> QED
      BY <2>1, <3>3
  <2> QED
    BY <2>1, <2>4, <2>5
<1> QED
  BY <1>4 DEF DeliveredInv

LEMMA ServeCounts ==
  ASSUME WebhookAssumed, WebhookInv, DeliveredInv, NEW t \in W!Threads, W!Serve(t), WebhookInv'
  PROVE  DeliveredInv'
<1>1. PICK r \in WebhookRequests : r = req[t]
  BY DEF WebhookInv, WebhookTypes
<1>2. Fits(r) /\ WebhookTypes /\ WebhookTypes'
  BY <1>1 DEF WebhookInv, RequestsInv
<1>3. PICK n \in WebhookRequests : Moved(t, n) /\ Onward(n, r)
  BY <1>1, ServedOnward
<1>4. calls' \in [W!Keys -> Seq(WebhookCalls)]
  BY <1>2 DEF WebhookTypes
<1>5. tries' = tries
  BY DEF W!Serve, W!Admit, W!TranscriptionFails, W!Transcribe, W!Understand, W!HandleQuery,
         W!RegisterConflicts, W!RegisterFirst, W!RegisterReplays, W!Extract, W!CreateApproval,
         W!HandleRaises, W!SendConflict, W!SendReused, W!SendFresh, W!Call, W!Record, W!Speak,
         W!Answer200, W!AnswerLostOrRefused, W!providerVars
<1>6. req'[t] = n
  BY <1>2, <1>3, OthersStay
<1>8. CASE W!Call(t)
  <2>1. PICK m \in WebhookRequests, k \in W!Keys, c \in WebhookCalls :
          /\ Called(t, k, c) /\ Moved(t, m) /\ m.pc = "record" /\ Keeps(m, r)
    BY <1>1, <1>2, <1>8, CallCalls
  <2>2. /\ calls'[k] = Append(calls[k], c)
        /\ \A l \in W!Keys : l # k => calls'[l] = calls[l]
    BY <2>1, CalledEffect
  <2>3. k = W!KeyOf(r) /\ r.pc = "call"
    BY <1>1, <2>1 DEF Called
  <2>4. Len(calls'[k]) = Len(calls[k]) + 1
    BY <1>2, <2>2, Appended DEF WebhookTypes
  <2>5. k[1] = r.ev /\ k[2] = r.slot /\ r.slot \in W!Slots
    BY <2>3, KeysAre DEF WebhookRequests
  <2>6. req'[t] = m
    BY <1>2, <2>1, OthersStay
  <2>7. t \in Ahead(k)
    BY <1>1, <2>3, <2>5 DEF Ahead, MayCall
  <2>8. t \notin Ahead(k)'
    BY <2>1, <2>3, <2>5, <2>6 DEF Ahead, MayCall, Keeps, Early, InRouter, W!Slots
  <2> QED
    BY <1>1, <1>3, <1>4, <1>5, <2>2, <2>3, <2>4, <2>7, <2>8, OnwardCounts
<1>9. CASE calls' = calls
  BY <1>1, <1>3, <1>4, <1>5, <1>9, OnwardCounts
<1> QED
  BY <1>8, <1>9
  DEF W!Serve, W!Admit, W!TranscriptionFails, W!Transcribe, W!Understand, W!HandleQuery,
      W!RegisterConflicts, W!RegisterFirst, W!RegisterReplays, W!Extract, W!CreateApproval,
      W!HandleRaises, W!SendConflict, W!SendReused, W!SendFresh, W!Record, W!Speak,
      W!Answer200, W!AnswerLostOrRefused

LEMMA DeliverCounts ==
  ASSUME WebhookAssumed, WebhookInv, DeliveredInv, NEW t \in W!Threads, NEW e \in Events,
         W!Deliver(t, e)
  PROVE  DeliveredInv'
<1>1. WebhookTypes
  BY DEF WebhookInv
<1>2. PICK n \in WebhookRequests : Moved(t, n) /\ n.pc = "admit" /\ n.ev = e
  BY <1>1, DeliverMoves
<1>3. \A u \in W!Threads : (u = t /\ req'[u].ev = e) \/ req'[u] = req[u]
  BY <1>1, <1>2, OthersStay
<1>4. /\ \A f \in Events : tries[f] \in Int
      /\ tries'[e] = tries[e] + 1 /\ \A f \in Events : f # e => tries'[f] = tries[f]
      /\ calls' = calls
  BY <1>1 DEF WebhookTypes, W!Deliver
<1>6. ASSUME NEW k \in W!Keys PROVE Len(calls'[k]) + Cardinality(Ahead(k)') <= tries'[k[1]]
  <2>1. PICK A \in SUBSET W!Threads, B \in SUBSET W!Threads : A = Ahead(k)' /\ B = Ahead(k)
    BY RequestSets
  <2>2. A \subseteq B \cup {t} /\ (k[1] # e => A \subseteq B)
    BY <1>3, <2>1 DEF Ahead, MayCall
  <2>3. Len(calls[k]) + Cardinality(B) <= tries[k[1]] /\ Len(calls[k]) \in Nat /\ k[1] \in Events
    BY <1>1, <2>1, KeysAre DEF DeliveredInv, WebhookTypes
  <2>4. /\ Cardinality(A) \in Nat /\ Cardinality(B) \in Nat
        /\ Cardinality(A) <= Cardinality(B) + 1
        /\ k[1] # e => Cardinality(A) <= Cardinality(B)
    BY <2>2, ThreadSets
  <2>5. Len(calls[k]) + Cardinality(A) <= tries'[k[1]]
    BY <1>4, <2>3, <2>4
  <2> QED
    BY <1>4, <2>1, <2>5
<1> QED
  BY <1>6 DEF DeliveredInv

LEMMA DeliveredStep ==
  ASSUME WebhookAssumed, WebhookInv, DeliveredInv, [W!Next]_(W!vars), WebhookInv'
  PROVE  DeliveredInv'
<1>1. CASE UNCHANGED <<tries, req, calls>>
  BY <1>1 DEF DeliveredInv, Ahead, MayCall
<1>2. CASE W!Restart
  <2>1. /\ UNCHANGED <<tries, calls>>
        /\ \A t \in W!Threads : req'[t].pc = "idle"
    BY <1>2, IdleRequest DEF W!Restart, W!providerVars
  <2>2. \A k : Ahead(k)' = {}
    BY <2>1 DEF Ahead, MayCall, Early, InRouter
  <2>3. Cardinality({}) = 0
    BY FS_EmptySet
  <2>5. ASSUME NEW k \in W!Keys PROVE Len(calls[k]) + 0 <= tries[k[1]]
    <3>1. PICK B \in SUBSET W!Threads : B = Ahead(k)
      BY RequestSets
    <3>2. /\ Len(calls[k]) + Cardinality(B) <= tries[k[1]] /\ Len(calls[k]) \in Nat
          /\ tries[k[1]] \in Int
      BY <3>1, KeysAre DEF WebhookInv, DeliveredInv, WebhookTypes
    <3>3. Cardinality(B) \in Nat
      BY ThreadSets
    <3> QED
      BY <3>2, <3>3
  <2> QED
    BY <2>1, <2>2, <2>3, <2>5 DEF DeliveredInv
<1> QED
  BY <1>1, <1>2, ServeCounts, DeliverCounts
  DEF W!Next, W!Approved, W!WorldChanges, W!vars, W!providerVars

LEMMA CopySets ==
  ASSUME WebhookTypes, NEW k \in W!Keys, NEW run
  PROVE  /\ Copies(k, run) \in SUBSET (1 .. Len(calls[k]))
         /\ IsFiniteSet(Copies(k, run)) /\ Cardinality(Copies(k, run)) \in Nat
<1>1. Len(calls[k]) \in Nat /\ DOMAIN calls[k] = 1 .. Len(calls[k])
  BY DEF WebhookTypes
<1>2. Copies(k, run) \in SUBSET (1 .. Len(calls[k]))
  BY <1>1 DEF Copies
<1>3. IsFiniteSet(1 .. Len(calls[k]))
  <2>1. PICK m \in Int : m = Len(calls[k])
    BY <1>1
  <2>2. IsFiniteSet(1 .. m)
    BY FS_Interval
  <2> QED
    BY <2>1, <2>2
<1>4. IsFiniteSet(Copies(k, run))
  BY <1>2, <1>3, FS_Subset
<1> QED
  BY <1>2, <1>4, FS_CardinalityType

LEMMA SenderSets ==
  /\ \A k : Calling(k) \in SUBSET W!Threads /\ Calling(k)' \in SUBSET W!Threads
  /\ \A k : Recording(k) \in SUBSET W!Threads /\ Recording(k)' \in SUBSET W!Threads
BY DEF Calling, Recording

LEMMA LaneSets ==
  ASSUME WebhookAssumed, NEW k \in W!Keys
  PROVE  /\ Lanes(k) \in SUBSET W!Threads /\ Cardinality(Lanes(k)) \in Nat
         /\ channel' = channel => Lanes(k)' = Lanes(k)
<1>1. Lanes(k) \in SUBSET W!Threads
  BY DEF Lanes, W!Pool, W!Threads
<1>2. channel' = channel => Lanes(k)' = Lanes(k)
  BY DEF Lanes, W!Pool
<1>3. PICK M \in SUBSET W!Threads : M = Lanes(k)
  BY <1>1
<1>4. Cardinality(M) \in Nat
  BY ThreadSets
<1> QED
  BY <1>1, <1>2, <1>3, <1>4

\* A request that neither calls nor records, before or after.
LEMMA AsideCopies ==
  ASSUME WebhookAssumed, WebhookTypes, CopiesInv, NEW t \in W!Threads, NEW n, Moved(t, n),
         n.pc \notin {"call", "record"}, req[t].pc \notin {"call", "record"},
         UNCHANGED <<channel, calls, terminal, restarts>>
  PROVE  CopiesInv'
<1>1. \A u \in W!Threads : u # t => req'[u] = req[u]
  BY OthersStay
<1>2. req'[t] = n
  BY OthersStay
<1>3. \A k : Calling(k)' = Calling(k) /\ Recording(k)' = Recording(k)
  BY <1>1, <1>2 DEF Calling, Recording, W!KeyOf, W!Remembers
<1>4. \A k, run : Copies(k, run)' = Copies(k, run)
  BY DEF Copies
<1>5. \A k \in W!Keys : Lanes(k)' = Lanes(k)
  BY LaneSets
<1> QED
  BY <1>3, <1>4, <1>5 DEF CopiesInv

LEMMA FreshCopies ==
  ASSUME WebhookAssumed, WebhookInv, PlacedInv, CopiesInv, NEW t \in W!Threads, W!SendFresh(t)
  PROVE  CopiesInv'
<1>1. PICK r \in WebhookRequests : r = req[t]
  BY DEF WebhookInv, WebhookTypes
<1>2. WebhookTypes
  BY DEF WebhookInv
<1>3. PICK k \in W!Keys : k = W!KeyOf(r)
  BY KeysAre
<1>4. /\ r.pc = "check" /\ terminal[k] = "none" /\ req' = [req EXCEPT ![t].pc = "call"]
      /\ UNCHANGED <<channel, calls, terminal, restarts>> /\ "call" \in Stages
  BY <1>1, <1>3 DEF W!SendFresh, W!providerVars, W!toolVars, Stages
<1>5. PICK n \in WebhookRequests : Moved(t, n) /\ n.pc = "call" /\ Keeps(n, r)
  BY <1>1, <1>2, <1>4, ToPlace
<1>6. req'[t] = n /\ \A u \in W!Threads : u # t => req'[u] = req[u]
  BY <1>2, <1>5, OthersStay
<1>7. W!KeyOf(n) = k
  BY <1>3, <1>5 DEF W!KeyOf, Keeps
<1>8. \A l : Recording(l)' = Recording(l)
  BY <1>1, <1>4, <1>5, <1>6 DEF Recording, W!KeyOf, W!Remembers
<1>9. \A l : l # k => Calling(l)' = Calling(l)
  BY <1>1, <1>4, <1>6, <1>7 DEF Calling, W!KeyOf
<1>10. \A l, run : Copies(l, run)' = Copies(l, run)
  BY <1>4 DEF Copies
<1>11. Cardinality(Copies(k, restarts)) + Cardinality(Calling(k)') <= Cardinality(Lanes(k))
  <2>1. PICK A \in SUBSET W!Threads, B \in SUBSET W!Threads, M \in SUBSET W!Threads :
          A = Recording(k) /\ B = Calling(k)' /\ M = Lanes(k)
    BY SenderSets, LaneSets
  <2>2. A \cap B = {}
    BY <1>1, <1>4, <1>6, <2>1 DEF Recording, Calling
  <2>3. A \cup B \subseteq M
    <3>1. \A u \in W!Threads : req[u].pc # "idle" /\ W!KeyOf(req[u]) = k => u \in M
      <4>1. \A u \in W!Threads : W!KeyOf(req[u])[1] = req[u].ev
        BY DEF W!KeyOf
      <4> QED
        BY <2>1, <4>1 DEF PlacedInv, Lanes
    <3>2. A \subseteq M
      BY <2>1, <3>1 DEF Recording
    <3>3. ASSUME NEW u \in B PROVE u \in M
      <4>1. u \in W!Threads /\ req'[u].pc = "call" /\ W!KeyOf(req'[u]) = k
        BY <2>1, <3>3 DEF Calling, W!KeyOf
      <4>2. CASE u = t
        BY <1>1, <1>3, <1>4, <3>1, <4>1, <4>2
      <4>3. CASE u # t
        BY <1>6, <3>1, <4>1, <4>3
      <4> QED
        BY <4>2, <4>3
    <3> QED
      BY <3>2, <3>3
  <2>4. /\ Cardinality(A) + Cardinality(B) <= Cardinality(M)
        /\ Cardinality(A) \in Nat /\ Cardinality(B) \in Nat /\ Cardinality(M) \in Nat
    BY <2>2, <2>3, ThreadSets
  <2>5. Cardinality(Copies(k, restarts)) <= Cardinality(A)
    BY <1>4, <2>1 DEF CopiesInv
  <2>6. Cardinality(Copies(k, restarts)) \in Nat
    BY <1>2, CopySets
  <2>7. Cardinality(Copies(k, restarts)) + Cardinality(B) <= Cardinality(M)
    BY <2>4, <2>5, <2>6
  <2> QED
    BY <2>1, <2>7
<1>12. \A l \in W!Keys : Lanes(l)' = Lanes(l)
  BY <1>4, LaneSets
<1> QED
  BY <1>4, <1>8, <1>9, <1>10, <1>11, <1>12 DEF CopiesInv

LEMMA CallCopies ==
  ASSUME WebhookAssumed, WebhookInv, CopiesInv, NEW t \in W!Threads, W!Call(t)
  PROVE  CopiesInv'
<1>1. PICK r \in WebhookRequests : r = req[t]
  BY DEF WebhookInv, WebhookTypes
<1>2. WebhookTypes
  BY DEF WebhookInv
<1>3. PICK n \in WebhookRequests, k \in W!Keys, c \in WebhookCalls :
        /\ Called(t, k, c) /\ Moved(t, n)
        /\ n.pc = "record" /\ n.res = c.outcome /\ Keeps(n, r)
  BY <1>1, <1>2, CallCalls
<1>4. /\ k = W!KeyOf(r) /\ r.pc = "call" /\ c.run = restarts
      /\ UNCHANGED <<channel, terminal, restarts>>
  BY <1>1, <1>3 DEF Called
<1>5. /\ calls'[k] = Append(calls[k], c)
      /\ \A l \in W!Keys : l # k => calls'[l] = calls[l]
  BY <1>3, CalledEffect
<1>6. calls[k] \in Seq(WebhookCalls) /\ restarts \in Nat
  BY <1>2 DEF WebhookTypes
<1>7. req'[t] = n /\ \A u \in W!Threads : u # t => req'[u] = req[u]
  BY <1>2, <1>3, OthersStay
<1>8. W!KeyOf(n) = k
  BY <1>3, <1>4 DEF W!KeyOf, Keeps
<1>9. ASSUME NEW l \in W!Keys, l # k
      PROVE  /\ Calling(l)' = Calling(l) /\ Recording(l)' = Recording(l)
             /\ \A run : Copies(l, run)' = Copies(l, run)
  BY <1>1, <1>3, <1>4, <1>5, <1>7, <1>8, <1>9
  DEF Calling, Recording, Copies, W!KeyOf, W!Remembers
<1> DEFINE last == Len(calls[k]) + 1
<1>10. /\ DOMAIN calls[k] = 1 .. Len(calls[k]) /\ Len(calls[k]) \in Nat
       /\ DOMAIN calls'[k] = 1 .. Len(calls[k]) + 1
       /\ \A i \in 1 .. Len(calls[k]) : calls'[k][i] = calls[k][i]
       /\ calls'[k][Len(calls[k]) + 1] = c
  BY <1>5, <1>6, Appended
<1>11. \A i : i \in DOMAIN calls'[k] <=> i \in DOMAIN calls[k] \/ i = last
  BY <1>10
<1>12. last \notin DOMAIN calls[k] /\ calls'[k][last] = c
       /\ \A i \in DOMAIN calls[k] : calls'[k][i] = calls[k][i]
  BY <1>10
<1> HIDE DEF last
<1>13. ASSUME NEW run \in 0 .. restarts - 1 PROVE Copies(k, run)' = Copies(k, run)
  <2>1. c.run # run
    BY <1>4, <1>6
  <2> QED
    BY <1>11, <1>12, <2>1 DEF Copies
<1>14. PICK A \in SUBSET W!Threads, B \in SUBSET W!Threads : A = Calling(k)' /\ B = Calling(k)
  BY SenderSets
<1>15. A \subseteq B \ {t} /\ t \in B
  BY <1>1, <1>3, <1>4, <1>7, <1>14 DEF Calling, W!KeyOf
<1>16. /\ Cardinality(A) + 1 <= Cardinality(B) /\ Cardinality(A) \in Nat
       /\ Cardinality(B) \in Nat /\ Cardinality(Lanes(k)) \in Nat
  BY <1>15, ThreadSets, LaneSets
<1>17. PICK N, D : N = Copies(k, restarts)' /\ D = Copies(k, restarts)
  OBVIOUS
<1>18. /\ IsFiniteSet(D) /\ Cardinality(D) \in Nat
       /\ Cardinality(D) + Cardinality(B) <= Cardinality(Lanes(k))
  BY <1>2, <1>6, <1>14, <1>17, CopySets DEF CopiesInv
<1>19. N = IF c.outcome # "known-transient" THEN D \cup {last} ELSE D
  BY <1>4, <1>11, <1>12, <1>17 DEF Copies
<1>20. Cardinality(N) = (IF c.outcome # "known-transient" THEN Cardinality(D) + 1 ELSE Cardinality(D))
  <2>1. last \notin D
    BY <1>12, <1>17 DEF Copies
  <2> QED
    BY <1>18, <1>19, <2>1, FS_AddElement
<1>21. Cardinality(N) + Cardinality(A) <= Cardinality(Lanes(k))
  BY <1>16, <1>18, <1>20
<1>22. ASSUME terminal[k] = "none" PROVE Cardinality(N) <= Cardinality(Recording(k)')
  <2>1. PICK P \in SUBSET W!Threads, Q \in SUBSET W!Threads : P = Recording(k)' /\ Q = Recording(k)
    BY SenderSets
  <2>2. Cardinality(D) <= Cardinality(Q)
    BY <1>17, <1>22, <2>1 DEF CopiesInv
  <2>3. CASE c.outcome # "known-transient"
    <3>1. Q \subseteq P \ {t} /\ t \in P
      BY <1>1, <1>3, <1>4, <1>7, <1>8, <2>1, <2>3 DEF Recording, W!KeyOf, W!Remembers
    <3>2. Cardinality(Q) + 1 <= Cardinality(P) /\ Cardinality(P) \in Nat /\ Cardinality(Q) \in Nat
      BY <3>1, ThreadSets
    <3>3. Cardinality(N) <= Cardinality(P)
      BY <1>18, <1>20, <2>2, <2>3, <3>2
    <3> QED
      BY <2>1, <3>3
  <2>4. CASE c.outcome = "known-transient"
    <3>1. Q \subseteq P
      BY <1>1, <1>4, <1>7, <2>1 DEF Recording, W!KeyOf, W!Remembers
    <3>2. Cardinality(Q) <= Cardinality(P) /\ Cardinality(P) \in Nat /\ Cardinality(Q) \in Nat
      BY <3>1, ThreadSets
    <3>3. Cardinality(N) <= Cardinality(P)
      BY <1>18, <1>20, <2>2, <2>4, <3>2
    <3> QED
      BY <2>1, <3>3
  <2> QED
    BY <2>3, <2>4
<1>23. ASSUME NEW l \in W!Keys
       PROVE  /\ \A run \in 0 .. restarts - 1 : Cardinality(Copies(l, run)') <= Cardinality(Lanes(l))
              /\ terminal[l] = "none" =>
                   Cardinality(Copies(l, restarts)') <= Cardinality(Recording(l)')
              /\ Cardinality(Copies(l, restarts)') + Cardinality(Calling(l)')
                   <= Cardinality(Lanes(l))
  <2>1. CASE l # k
    BY <1>4, <1>9, <2>1 DEF CopiesInv
  <2>2. CASE l = k
    BY <1>4, <1>13, <1>14, <1>17, <1>21, <1>22, <2>2 DEF CopiesInv
  <2> QED
    BY <2>1, <2>2
<1>24. \A l \in W!Keys : Lanes(l)' = Lanes(l)
  BY <1>4, LaneSets
<1> QED
  BY <1>4, <1>23, <1>24 DEF CopiesInv

LEMMA RecordCopies ==
  ASSUME WebhookAssumed, WebhookInv, CopiesInv, NEW t \in W!Threads, W!Record(t)
  PROVE  CopiesInv'
<1>1. PICK r \in WebhookRequests : r = req[t]
  BY DEF WebhookInv, WebhookTypes
<1>2. WebhookTypes
  BY DEF WebhookInv
<1>3. PICK k \in W!Keys : k = W!KeyOf(r)
  BY KeysAre
<1>4. /\ UNCHANGED <<channel, calls, restarts>> /\ r.pc = "record"
      /\ req' = [req EXCEPT ![t] = W!Returned(req[t], r.res)]
      /\ terminal' = IF W!Remembers(r.res) THEN [terminal EXCEPT ![k] = r.res] ELSE terminal
  BY <1>1, <1>3 DEF W!Record, W!providerVars
<1>5. PICK n \in WebhookRequests : Moved(t, n) /\ n.pc \in {"speak", "answer"}
  BY <1>2, <1>4, ReturnMoves
<1>6. req'[t] = n /\ \A u \in W!Threads : u # t => req'[u] = req[u]
  BY <1>2, <1>5, OthersStay
<1>7. \A l : Calling(l)' = Calling(l)
  BY <1>1, <1>4, <1>5, <1>6 DEF Calling, W!KeyOf
<1>8. \A l, run : Copies(l, run)' = Copies(l, run)
  BY <1>4 DEF Copies
<1>9. r.res \in Remembered /\ terminal \in [W!Keys -> Remembered]
  BY <1>2 DEF WebhookTypes, WebhookRequests
<1>10. ASSUME NEW l \in W!Keys, terminal'[l] = "none"
       PROVE  Cardinality(Copies(l, restarts)) <= Cardinality(Recording(l)')
  <2>1. CASE W!Remembers(r.res) /\ l = k
    <3>1. terminal'[l] = r.res
      BY <1>4, <1>9, <2>1
    <3>2. r.res # "none"
      BY <1>1, <1>4 DEF WebhookInv, RequestsInv, Fits
    <3> QED
      BY <1>10, <3>1, <3>2
  <2>2. CASE ~(W!Remembers(r.res) /\ l = k)
    <3>1. terminal[l] = "none"
      BY <1>4, <1>9, <1>10, <2>2
    <3>2. Recording(l)' = Recording(l)
      BY <1>1, <1>3, <1>4, <1>5, <1>6, <2>2 DEF Recording, W!KeyOf, W!Remembers
    <3> QED
      BY <3>1, <3>2 DEF CopiesInv
  <2> QED
    BY <2>1, <2>2
<1>11. \A l \in W!Keys : Lanes(l)' = Lanes(l)
  BY <1>4, LaneSets
<1> QED
  BY <1>4, <1>7, <1>8, <1>10, <1>11 DEF CopiesInv

LEMMA ServeCopies ==
  ASSUME WebhookAssumed, WebhookInv, PlacedInv, CopiesInv, NEW t \in W!Threads, W!Serve(t)
  PROVE  CopiesInv'
<1>1. CASE W!SendFresh(t)
  BY <1>1, FreshCopies
<1>2. CASE W!Call(t)
  BY <1>2, CallCopies
<1>3. CASE W!Record(t)
  BY <1>3, RecordCopies
<1>4. CASE ~W!SendFresh(t) /\ ~W!Call(t) /\ ~W!Record(t)
  <2>1. PICK n \in WebhookRequests : Moved(t, n) /\ n.pc \notin {"call", "record"}
    BY <1>4, ServedOnward
  <2>2. UNCHANGED <<channel, calls, terminal, restarts>> /\ req[t].pc \notin {"call", "record"}
    BY <1>4 DEF W!Serve, W!Admit, W!TranscriptionFails, W!Transcribe, W!Understand,
       W!HandleQuery, W!RegisterConflicts, W!RegisterFirst, W!RegisterReplays, W!Extract,
       W!CreateApproval, W!HandleRaises, W!SendConflict, W!SendReused, W!Speak,
       W!Answer200, W!AnswerLostOrRefused, W!providerVars, W!toolVars
  <2> QED
    BY <2>1, <2>2, AsideCopies DEF WebhookInv
<1> QED
  BY <1>1, <1>2, <1>3, <1>4

LEMMA RestartCopies ==
  ASSUME WebhookAssumed, WebhookInv, CopiesInv, W!Restart
  PROVE  CopiesInv'
<1>1. WebhookTypes
  BY DEF WebhookInv
<1>2. /\ UNCHANGED <<channel, calls>> /\ restarts' = restarts + 1 /\ restarts \in Nat
      /\ \A t \in W!Threads : req'[t].pc = "idle"
  BY <1>1, IdleRequest DEF WebhookTypes, W!Restart, W!providerVars
<1>3. \A k : Calling(k)' = {} /\ Recording(k)' = {}
  BY <1>2 DEF Calling, Recording
<1>4. \A k, run : Copies(k, run) = {i \in DOMAIN calls'[k] :
                     /\ calls'[k][i].run = run /\ calls'[k][i].outcome # "known-transient"}
  BY <1>2 DEF Copies
<1>5. ASSUME NEW k \in W!Keys PROVE Copies(k, restarts)' = {}
  <2>1. ASSUME NEW i \in DOMAIN calls[k] PROVE calls[k][i].run # restarts + 1
    <3>1. calls[k] \in Seq(WebhookCalls)
      BY <1>1 DEF WebhookTypes
    <3>2. calls[k][i] \in WebhookCalls
      BY <3>1
    <3>3. calls[k][i].run \in Nat /\ calls[k][i].run <= restarts
      BY <3>2 DEF WebhookInv, CallsInv, WebhookCalls
    <3> QED
      BY <1>2, <3>3
  <2> QED
    BY <1>2, <2>1 DEF Copies
<1>6. Cardinality({}) = 0 /\ \A k \in W!Keys : Cardinality(Lanes(k)) \in Nat /\ Lanes(k)' = Lanes(k)
  BY <1>2, FS_EmptySet, LaneSets
<1>7. ASSUME NEW k \in W!Keys, NEW run \in 0 .. restarts
      PROVE  Cardinality(Copies(k, run)) <= Cardinality(Lanes(k))
  <2>1. CASE run = restarts
    <3>1. PICK B \in SUBSET W!Threads : B = Calling(k)
      BY SenderSets
    <3>2. Cardinality(Copies(k, run)) \in Nat
      BY <1>1, CopySets
    <3>3. Cardinality(B) \in Nat
      BY ThreadSets
    <3>4. Cardinality(Copies(k, run)) + Cardinality(B) <= Cardinality(Lanes(k))
      BY <2>1, <3>1 DEF CopiesInv
    <3> QED
      BY <1>6, <3>2, <3>3, <3>4
  <2>2. CASE run # restarts
    <3>1. run \in 0 .. restarts - 1
      BY <1>2, <2>2
    <3> QED
      BY <3>1 DEF CopiesInv
  <2> QED
    BY <2>1, <2>2
<1>8. ASSUME NEW k \in W!Keys, NEW run \in 0 .. restarts' - 1
      PROVE  Cardinality({i \in DOMAIN calls'[k] : /\ calls'[k][i].run = run
                             /\ calls'[k][i].outcome # "known-transient"}) <= Cardinality(Lanes(k))
  <2>1. run \in 0 .. restarts
    BY <1>2
  <2> QED
    BY <1>4, <1>7, <2>1
<1>9. ASSUME NEW k \in W!Keys
      PROVE  /\ Cardinality(Copies(k, restarts)') <= Cardinality(Recording(k)')
             /\ Cardinality(Copies(k, restarts)') + Cardinality(Calling(k)') <= Cardinality(Lanes(k))
  BY <1>3, <1>5, <1>6
<1> QED
  BY <1>6, <1>8, <1>9 DEF CopiesInv, Copies

LEMMA CopiesStep ==
  ASSUME WebhookAssumed, WebhookInv, PlacedInv, CopiesInv, [W!Next]_(W!vars)
  PROVE  CopiesInv'
<1>1. CASE UNCHANGED <<channel, req, calls, terminal, restarts>>
  <2>1. \A k \in W!Keys : Lanes(k)' = Lanes(k)
    BY <1>1, LaneSets
  <2> QED
    BY <1>1, <2>1 DEF CopiesInv, Copies, Calling, Recording, W!KeyOf, W!Remembers
<1>2. ASSUME NEW t \in W!Threads, NEW e \in Events, W!Deliver(t, e) PROVE CopiesInv'
  <2>1. PICK n \in WebhookRequests : Moved(t, n) /\ n.pc = "admit"
    BY <1>2, DeliverMoves DEF WebhookInv
  <2>2. UNCHANGED <<channel, calls, terminal, restarts>> /\ req[t].pc = "idle"
    BY <1>2 DEF W!Deliver, W!toolVars
  <2> QED
    BY <2>1, <2>2, AsideCopies DEF WebhookInv
<1> QED
  BY <1>1, <1>2, ServeCopies, RestartCopies
  DEF W!Next, W!Approved, W!WorldChanges, W!vars, W!providerVars, W!toolVars

LEMMA CopiesPart ==
  ASSUME W!KindAssumption, W!WebhookAssumption, W!StatusAssumption
  PROVE  W!Spec => []W!CopiesBounded
<1>1. WebhookAssumed
  BY DEF WebhookAssumed
<1>2. ASSUME W!Init PROVE CopiesInv
  <2>1. Cardinality({}) = 0 /\ \A k \in W!Keys : Cardinality(Lanes(k)) \in Nat
    BY <1>1, FS_EmptySet, LaneSets
  <2>2. \A k \in W!Keys : Recording(k) = {} /\ Calling(k) = {}
    BY <1>1, <1>2, IdleRequest DEF W!Init, Recording, Calling
  <2>3. \A k \in W!Keys : \A run : Copies(k, run) = {}
    BY <1>2 DEF W!Init, Copies
  <2>4. ASSUME NEW k \in W!Keys
        PROVE  /\ \A run : Cardinality(Copies(k, run)) = 0
               /\ Cardinality(Recording(k)) = 0 /\ Cardinality(Calling(k)) = 0
    BY <2>1, <2>2, <2>3
  <2> QED
    BY <2>1, <2>4 DEF CopiesInv
<1>3. WebhookInv /\ PlacedInv /\ CopiesInv /\ [W!Next]_(W!vars) => CopiesInv'
  BY <1>1, CopiesStep
<1>4. ASSUME WebhookInv, CopiesInv PROVE W!CopiesBounded
  <2> SUFFICES ASSUME NEW k \in W!Keys, NEW run \in 0 .. restarts
               PROVE  Cardinality(Copies(k, run)) <= Cardinality(Lanes(k))
    BY SameSizes DEF W!CopiesBounded, Copies, Lanes
  <2>1. CASE run = restarts
    <3>1. PICK B \in SUBSET W!Threads : B = Calling(k)
      BY SenderSets
    <3>2. Cardinality(Copies(k, run)) \in Nat
      BY <1>4, CopySets DEF WebhookInv
    <3>3. Cardinality(B) \in Nat /\ Cardinality(Lanes(k)) \in Nat
      BY <1>1, ThreadSets, LaneSets
    <3>4. Cardinality(Copies(k, run)) + Cardinality(B) <= Cardinality(Lanes(k))
      BY <1>4, <2>1, <3>1 DEF CopiesInv
    <3> QED
      BY <3>2, <3>3, <3>4
  <2>2. CASE run # restarts
    <3>1. run \in 0 .. restarts - 1
      BY <1>4, <2>2 DEF WebhookInv, WebhookTypes
    <3> QED
      BY <1>4, <3>1 DEF CopiesInv
  <2> QED
    BY <2>1, <2>2
<1> QED
  BY <1>1, <1>2, <1>3, <1>4, QuestionsInvariant, PTL DEF W!Spec

\* Requests served one by one: nothing happens between the check and the call.

LEMMA StillInChat ==
  ASSUME WebhookTypes, NEW k \in W!Keys, NEW body, InChat(k, body),
         \/ calls'[k] = calls[k]
         \/ \E c \in WebhookCalls : calls'[k] = Append(calls[k], c)
  PROVE  InChat(k, body)'
<1>1. calls[k] \in Seq(WebhookCalls)
  BY DEF WebhookTypes
<1>2. PICK i \in DOMAIN calls[k] : calls[k][i].taken /\ calls[k][i].body = body
  BY DEF InChat
<1>3. i \in DOMAIN calls'[k] /\ calls'[k][i] = calls[k][i]
  BY <1>1, <1>2, Appended
<1> QED
  BY <1>2, <1>3 DEF InChat

\* What the event loop serves comes from WhatsApp.
LEMMA LoopServes ==
  ASSUME WebhookAssumed, PlacedInv, req[EventLoop].pc # "idle"
  PROVE  channel[req[EventLoop].ev] = "whatsapp"
BY DEF WebhookAssumed, W!WebhookAssumption, PlacedInv, W!Pool, W!Threads

\* A step that leaves the tool and the provider alone.
LEMMA AloneQuiet ==
  ASSUME WebhookTypes, SingleInv, NEW n, Moved(EventLoop, n), FitsAlone(n),
         UNCHANGED <<channel, fingerprints, terminal, calls, restarts>>
  PROVE  SingleInv'
<1>1. req'[EventLoop] = n
  BY OthersStay DEF W!Threads
<1>2. \A k, body : InChat(k, body)' <=> InChat(k, body)
  BY DEF InChat
<1>3. FitsAlone(req[EventLoop])'
  BY <1>1, <1>2 DEF FitsAlone, W!Differs, W!KeyOf, W!PrintOf
<1> QED
  BY <1>2, <1>3 DEF SingleInv

LEMMA EarlyAlone ==
  ASSUME WebhookAssumed, WebhookInv, SingleInv,
         \/ EarlyStep(EventLoop)
         \/ W!Answer200(EventLoop) \/ W!AnswerLostOrRefused(EventLoop)
         \/ \E e \in Events : W!Deliver(EventLoop, e)
  PROVE  SingleInv'
<1>0. WebhookTypes /\ EventLoop \in W!Threads
  BY DEF WebhookInv, W!Threads
<1>1. PICK r \in WebhookRequests : r = req[EventLoop]
  BY <1>0 DEF WebhookTypes
<1>2. FitsAlone(r)
  BY <1>1 DEF SingleInv
<1>3. UNCHANGED <<channel, fingerprints, terminal, calls, restarts>>
  BY DEF EarlyStep, W!Admit, W!TranscriptionFails, W!Transcribe, W!Understand,
     W!HandleQuery, W!RegisterConflicts, W!RegisterFirst, W!RegisterReplays, W!Extract,
     W!CreateApproval, W!HandleRaises, W!Answer200, W!AnswerLostOrRefused, W!Deliver,
     W!toolVars, W!providerVars
<1>4. \E n \in WebhookRequests : Moved(EventLoop, n) /\ ~n.sent /\ n.pc \notin {"call", "record"}
  <2>1. CASE EarlyStep(EventLoop)
    <3>1. PICK n \in WebhookRequests : EarlyTo(EventLoop, n, r) /\ r.pc \in Early
      BY <1>0, <1>1, <2>1, EarlyMoves
    <3>2. ~r.sent
      BY <1>2, <3>1 DEF FitsAlone, Early, InRouter, Replying
    <3> QED
      BY <3>1, <3>2 DEF EarlyTo, InRouter
  <2>2. CASE W!Answer200(EventLoop) \/ W!AnswerLostOrRefused(EventLoop)
    BY <2>2, IdleRequest DEF W!Answer200, W!AnswerLostOrRefused, Moved
  <2>3. CASE \E e \in Events : W!Deliver(EventLoop, e)
    BY <1>0, <2>3, DeliverMoves
  <2> QED
    BY <2>1, <2>2, <2>3
<1>5. PICK n \in WebhookRequests : Moved(EventLoop, n) /\ ~n.sent /\ n.pc \notin {"call", "record"}
  BY <1>4
<1>6. FitsAlone(n)
  BY <1>5 DEF FitsAlone
<1> QED
  BY <1>0, <1>3, <1>5, <1>6, AloneQuiet

LEMMA CheckAlone ==
  ASSUME WebhookAssumed, WebhookInv, PlacedInv, SingleInv,
         \/ W!SendConflict(EventLoop) \/ W!SendReused(EventLoop)
         \/ W!SendFresh(EventLoop) \/ W!Speak(EventLoop)
  PROVE  SingleInv'
<1>0. WebhookTypes /\ EventLoop \in W!Threads
  BY DEF WebhookInv, W!Threads
<1>1. PICK r \in WebhookRequests : r = req[EventLoop]
  BY <1>0 DEF WebhookTypes
<1>2. FitsAlone(r) /\ r.ev \in Events
  BY <1>1 DEF SingleInv, WebhookRequests
<1>3. UNCHANGED <<channel, fingerprints, terminal, calls, restarts>>
  BY DEF W!SendConflict, W!SendReused, W!SendFresh, W!Speak, W!toolVars, W!providerVars
<1>4. ASSUME NEW n \in WebhookRequests, n.pc \in {"check", "answer", "speak"},
             n.ev = r.ev, n.body = r.body, n.sent => r.sent \/ InChat(<<r.ev, "reply">>, r.body)
      PROVE  FitsAlone(n)
  BY <1>2, <1>4 DEF FitsAlone, Replying
<1>5. CASE W!SendConflict(EventLoop)
  <2>1. req' = [req EXCEPT ![EventLoop].pc = "answer", ![EventLoop].code = 200] /\ 200 \in HttpCodes
    BY <1>5 DEF W!SendConflict, HttpCodes
  <2>2. PICK n \in WebhookRequests : Moved(EventLoop, n) /\ n.pc = "answer" /\ Keeps(n, r)
    BY <1>0, <1>1, <2>1, ToAnswer
  <2>3. FitsAlone(n)
    BY <1>4, <2>2 DEF Keeps
  <2> QED
    BY <1>0, <1>3, <2>2, <2>3, AloneQuiet
<1>6. CASE W!SendReused(EventLoop)
  <2>0. PICK k \in W!Keys : k = W!KeyOf(r) /\ k[1] = r.ev
    BY <1>2, KeysAre DEF W!KeyOf
  <2>1. /\ r.pc = "check" /\ ~W!Differs(r) /\ terminal[k] # "none"
        /\ req' = [req EXCEPT ![EventLoop] = W!Returned(req[EventLoop], terminal[k])]
    BY <1>1, <1>6, <2>0 DEF W!SendReused
  <2>2. PICK n \in WebhookRequests :
          /\ Moved(EventLoop, n) /\ n.pc \in {"speak", "answer"}
          /\ n.ev = r.ev /\ n.body = r.body
          /\ n.sent => r.sent \/ (r.slot = "reply" /\ W!SentOf(channel[r.ev], terminal[k]))
    BY <1>0, <1>1, <2>1, ReturnMoves
  <2>3. channel[r.ev] = "whatsapp"
    BY <1>1, <2>1, LoopServes
  <2>4. ASSUME r.slot = "reply", W!SentOf(channel[r.ev], terminal[k])
        PROVE  InChat(<<r.ev, "reply">>, r.body)
    <3>1. terminal[k] = "success" /\ k = <<r.ev, "reply">>
      BY <2>0, <2>3, <2>4 DEF W!SentOf, W!KeyOf
    <3>2. fingerprints[k] # W!NoPrint /\ InChat(k, fingerprints[k][1])
      BY <2>0, <2>3, <3>1 DEF SingleInv
    <3>3. fingerprints[k] = W!PrintOf(r)
      BY <2>0, <2>1, <3>2 DEF W!Differs
    <3>4. fingerprints[k][1] = r.body
      BY <3>3 DEF W!PrintOf
    <3> QED
      BY <3>1, <3>2, <3>4
  <2>5. FitsAlone(n)
    BY <1>4, <2>2, <2>4
  <2> QED
    BY <1>0, <1>3, <2>2, <2>5, AloneQuiet
<1>7. CASE W!SendFresh(EventLoop)
  <2>1. r.pc = "check" /\ ~W!Differs(r) /\ req' = [req EXCEPT ![EventLoop].pc = "call"] /\ "call" \in Stages
    BY <1>1, <1>7 DEF W!SendFresh, Stages
  <2>2. PICK n \in WebhookRequests : Moved(EventLoop, n) /\ n.pc = "call" /\ Keeps(n, r)
    BY <1>0, <1>1, <2>1, ToPlace
  <2>3. W!KeyOf(n) = W!KeyOf(r) /\ W!PrintOf(n) = W!PrintOf(r)
    BY <2>2 DEF Keeps, W!KeyOf, W!PrintOf
  <2>4. ~W!Differs(n)
    BY <2>1, <2>3 DEF W!Differs
  <2>5. FitsAlone(n)
    BY <1>2, <2>2, <2>4 DEF FitsAlone, Keeps, Replying
  <2> QED
    BY <1>0, <1>3, <2>2, <2>5, AloneQuiet
<1>8. CASE W!Speak(EventLoop)
  <2>1. PICK n \in WebhookRequests :
          /\ Moved(EventLoop, n) /\ n.ev = r.ev /\ n.body = r.body /\ n.sent = r.sent
          /\ n.pc \in {"check", "answer"}
    BY <1>0, <1>1, <1>8, SpeakMoves
  <2>2. FitsAlone(n)
    BY <1>4, <2>1
  <2> QED
    BY <1>0, <1>3, <2>1, <2>2, AloneQuiet
<1> QED
  BY <1>5, <1>6, <1>7, <1>8

LEMMA CallAlone ==
  ASSUME WebhookAssumed, W!ProviderAssumption, WebhookInv, PlacedInv, SingleInv,
         W!Call(EventLoop)
  PROVE  SingleInv'
<1>0. WebhookTypes /\ EventLoop \in W!Threads
  BY DEF WebhookInv, W!Threads
<1>1. PICK r \in WebhookRequests : r = req[EventLoop]
  BY <1>0 DEF WebhookTypes
<1>2. FitsAlone(r) /\ r.ev \in Events /\ channel[r.ev] \in W!Platforms
  BY <1>0, <1>1 DEF SingleInv, WebhookRequests, WebhookTypes
<1>3. PICK n \in WebhookRequests, k \in W!Keys, c \in WebhookCalls, a \in Answers[channel[r.ev]] :
        /\ Called(EventLoop, k, c) /\ Moved(EventLoop, n)
        /\ n.pc = "record" /\ n.res = c.outcome /\ Keeps(n, r)
        /\ c.outcome = W!Send(channel[r.ev], a.answer).outcome /\ c.taken = a.taken
  BY <1>0, <1>1, CallCalls
<1>4. /\ k = W!KeyOf(r) /\ r.pc = "call" /\ c.body = r.body /\ c.run = restarts
      /\ UNCHANGED <<channel, terminal, restarts>>
  BY <1>1, <1>3 DEF Called
<1>5. /\ calls'[k] = Append(calls[k], c)
      /\ \A l \in W!Keys : l # k => calls'[l] = calls[l]
      /\ fingerprints'[k] = W!PrintOf(r) /\ W!PrintOf(r) # W!NoPrint
      /\ \A l \in W!Keys : l # k => fingerprints'[l] = fingerprints[l]
  BY <1>0, <1>1, <1>3, CalledEffect
<1>6. calls[k] \in Seq(WebhookCalls)
  BY <1>0 DEF WebhookTypes
<1>7. fingerprints[k] = W!NoPrint \/ fingerprints[k] = W!PrintOf(r)
  BY <1>2, <1>4 DEF FitsAlone, W!Differs
<1>8. W!PrintOf(r)[1] = r.body
  BY DEF W!PrintOf
<1>9. \A l \in W!Keys : \A body : InChat(l, body) => InChat(l, body)'
  BY <1>0, <1>5, StillInChat
<1>10. ASSUME NEW l \in W!Keys, channel[l[1]] = "whatsapp", NEW i \in DOMAIN calls'[l],
              calls'[l][i].run = restarts'
       PROVE  fingerprints'[l] # W!NoPrint /\ calls'[l][i].body = fingerprints'[l][1]
  <2>1. CASE l # k
    BY <1>4, <1>5, <1>10, <2>1 DEF SingleInv
  <2>2. CASE l = k /\ i \in DOMAIN calls[k]
    <3>1. calls'[k][i] = calls[k][i]
      BY <1>5, <1>6, <2>2, Appended
    <3>2. fingerprints[k] # W!NoPrint /\ calls[k][i].body = fingerprints[k][1]
      BY <1>4, <1>10, <2>2, <3>1 DEF SingleInv
    <3> QED
      BY <1>5, <1>7, <2>2, <3>1, <3>2
  <2>3. CASE l = k /\ i = Len(calls[k]) + 1
    <3>1. calls'[k][i] = c
      BY <1>5, <1>6, <2>3, Appended
    <3> QED
      BY <1>4, <1>5, <1>8, <2>3, <3>1
  <2>4. l = k => i \in DOMAIN calls[k] \/ i = Len(calls[k]) + 1
    BY <1>5, <1>6, <1>10, Appended
  <2> QED
    BY <2>1, <2>2, <2>3, <2>4
<1>11. ASSUME NEW l \in W!Keys, channel[l[1]] = "whatsapp", terminal'[l] = "success"
       PROVE  fingerprints'[l] # W!NoPrint /\ InChat(l, fingerprints[l][1])'
  <2>1. terminal[l] = "success"
    BY <1>4, <1>11
  <2>2. PICK p : p = fingerprints[l] /\ p # W!NoPrint /\ InChat(l, p[1])
    BY <1>11, <2>1 DEF SingleInv
  <2>3. fingerprints'[l] = p
    BY <1>5, <1>7, <2>2
  <2>4. InChat(l, p[1])'
    BY <1>9, <2>2
  <2> QED
    BY <2>2, <2>3, <2>4 DEF InChat
<1>12. FitsAlone(req[EventLoop])'
  <2>1. req'[EventLoop] = n
    BY <1>0, <1>3, OthersStay
  <2>2. W!KeyOf(n) = k /\ W!PrintOf(n) = W!PrintOf(r) /\ n.body = r.body /\ n.ev = r.ev
        /\ n.sent = r.sent
    BY <1>3, <1>4 DEF Keeps, W!KeyOf, W!PrintOf
  <2>3. ASSUME n.res = "success" PROVE InChat(k, r.body)'
    <3>1. c.taken
      BY <1>2, <1>3, <2>3 DEF W!ProviderAssumption
    <3>2. /\ Len(calls[k]) + 1 \in DOMAIN calls'[k]
          /\ calls'[k][Len(calls[k]) + 1] = c
      BY <1>5, <1>6, Appended
    <3> QED
      BY <1>4, <3>1, <3>2 DEF InChat
  <2>4. n.sent => InChat(<<n.ev, "reply">>, n.body)'
    <3>1. r.sent => InChat(<<r.ev, "reply">>, r.body)
      BY <1>2 DEF FitsAlone
    <3>2. <<r.ev, "reply">> \in W!Keys
      BY KeysAre DEF WebhookRequests
    <3>3. r.sent => InChat(<<r.ev, "reply">>, r.body)'
      BY <1>9, <3>1, <3>2
    <3> QED
      BY <2>2, <3>3
  <2>5. FitsAlone(n)'
    BY <1>3, <1>5, <2>2, <2>3, <2>4 DEF FitsAlone, Replying, W!KeyOf, W!PrintOf
  <2> QED
    BY <2>1, <2>5 DEF FitsAlone, InChat, W!Differs, W!KeyOf, W!PrintOf
<1> QED
  BY <1>4, <1>10, <1>11, <1>12 DEF SingleInv

LEMMA RecordAlone ==
  ASSUME WebhookAssumed, WebhookInv, PlacedInv, SingleInv, W!Record(EventLoop)
  PROVE  SingleInv'
<1>0. WebhookTypes /\ EventLoop \in W!Threads /\ RequestsInv
  BY DEF WebhookInv, W!Threads
<1>1. PICK r \in WebhookRequests : r = req[EventLoop]
  BY <1>0 DEF WebhookTypes
<1>2. Fits(r) /\ FitsAlone(r) /\ r.ev \in Events
  BY <1>0, <1>1 DEF RequestsInv, SingleInv, WebhookRequests
<1>3. PICK k \in W!Keys : k = W!KeyOf(r) /\ k[1] = r.ev
  BY <1>2, KeysAre DEF W!KeyOf
<1>4. /\ UNCHANGED <<channel, fingerprints, calls, restarts>> /\ r.pc = "record"
      /\ req' = [req EXCEPT ![EventLoop] = W!Returned(req[EventLoop], r.res)]
      /\ terminal' = IF W!Remembers(r.res) THEN [terminal EXCEPT ![k] = r.res] ELSE terminal
  BY <1>1, <1>3 DEF W!Record, W!providerVars
<1>5. PICK n \in WebhookRequests :
        /\ Moved(EventLoop, n) /\ n.pc \in {"speak", "answer"} /\ n.ev = r.ev /\ n.body = r.body
        /\ n.sent => r.sent \/ (r.slot = "reply" /\ W!SentOf(channel[r.ev], r.res))
  BY <1>0, <1>1, <1>4, ReturnMoves
<1>6. \A l, body : InChat(l, body)' <=> InChat(l, body)
  BY <1>4 DEF InChat
<1>7. fingerprints[k] = W!PrintOf(r) /\ (r.res = "success" => InChat(k, r.body))
  BY <1>2, <1>3, <1>4 DEF FitsAlone
<1>8. W!PrintOf(r) # W!NoPrint /\ W!PrintOf(r)[1] = r.body
  BY <1>2, <1>4 DEF Fits, Replying, W!PrintOf, W!NoPrint
<1>9. ASSUME NEW l \in W!Keys, channel[l[1]] = "whatsapp", terminal'[l] = "success"
      PROVE  fingerprints[l] # W!NoPrint /\ InChat(l, fingerprints[l][1])
  <2>1. terminal[l] = "success" \/ (l = k /\ r.res = "success")
    BY <1>0, <1>4, <1>9 DEF WebhookTypes
  <2> QED
    BY <1>7, <1>8, <1>9, <2>1 DEF SingleInv
<1>10. FitsAlone(n)
  <2>1. ASSUME r.slot = "reply", W!SentOf(channel[r.ev], r.res) PROVE InChat(<<r.ev, "reply">>, r.body)
    <3>1. channel[r.ev] = "whatsapp"
      BY <1>1, <1>4, LoopServes
    <3> QED
      BY <1>3, <1>7, <2>1, <3>1 DEF W!SentOf, W!KeyOf
  <2> QED
    BY <1>2, <1>5, <2>1 DEF FitsAlone, Replying
<1>11. FitsAlone(req[EventLoop])'
  <2>1. req'[EventLoop] = n
    BY <1>0, <1>5, OthersStay
  <2> QED
    BY <1>5, <1>6, <1>10, <2>1 DEF FitsAlone
<1> QED
  BY <1>4, <1>6, <1>9, <1>11 DEF SingleInv

LEMMA SingleStep ==
  ASSUME WebhookAssumed, W!ProviderAssumption, WebhookInv, PlacedInv, SingleInv,
         [W!Next]_(W!vars)
  PROVE  SingleInv'
<1>0. WebhookTypes /\ EventLoop \in W!Threads
  BY DEF WebhookInv, W!Threads
<1>1. CASE UNCHANGED <<channel, req, fingerprints, terminal, calls, restarts>>
  BY <1>1 DEF SingleInv, FitsAlone, InChat, W!Differs, W!KeyOf, W!PrintOf
<1>2. CASE W!Restart
  <2>1. /\ calls' = calls /\ restarts' = restarts + 1 /\ restarts \in Nat
        /\ \A k \in W!Keys : terminal'[k] = "none"
        /\ req'[EventLoop] = W!Idle
    BY <1>0, <1>2 DEF W!Restart, WebhookTypes
  <2>2. ASSUME NEW k \in W!Keys, NEW i \in DOMAIN calls[k] PROVE calls[k][i].run # restarts + 1
    <3>1. calls[k] \in Seq(WebhookCalls)
      BY <1>0 DEF WebhookTypes
    <3>2. calls[k][i] \in WebhookCalls
      BY <3>1
    <3>3. calls[k][i].run \in Nat /\ calls[k][i].run <= restarts
      BY <3>2 DEF WebhookInv, CallsInv, WebhookCalls
    <3> QED
      BY <2>1, <3>3
  <2>3. FitsAlone(req[EventLoop])'
    BY <2>1, IdleRequest DEF FitsAlone
  <2> QED
    BY <2>1, <2>2, <2>3 DEF SingleInv
<1>3. ASSUME W!Serve(EventLoop) PROVE SingleInv'
  BY <1>3, EarlyAlone, CheckAlone, CallAlone, RecordAlone DEF W!Serve, EarlyStep
<1>4. ASSUME NEW e \in Events, W!Deliver(EventLoop, e) PROVE SingleInv'
  BY <1>4, EarlyAlone
<1>5. ASSUME NEW t \in W!Threads, t # EventLoop, W!Serve(t) \/ \E e \in Events : W!Deliver(t, e)
      PROVE  SingleInv'
  <2>1. /\ UNCHANGED <<channel, restarts>> /\ req'[EventLoop] = req[EventLoop]
        /\ \A k \in W!Keys : channel[k[1]] = "whatsapp" =>
             calls'[k] = calls[k] /\ fingerprints'[k] = fingerprints[k] /\ terminal'[k] = terminal[k]
    BY <1>5, WorkersAside
  <2>2. \A k \in W!Keys : channel[k[1]] = "whatsapp" =>
          \A body : InChat(k, body)' <=> InChat(k, body)
    BY <2>1 DEF InChat
  <2>3. PICK r \in WebhookRequests : r = req[EventLoop]
    BY <1>0 DEF WebhookTypes
  <2>4. FitsAlone(r)'
    <3>1. CASE r.pc = "idle"
      BY <2>3, <3>1 DEF SingleInv, FitsAlone, Replying
    <3>2. CASE r.pc # "idle"
      <4>1. PICK k \in W!Keys, l \in W!Keys :
              /\ k = W!KeyOf(r) /\ l = <<r.ev, "reply">>
              /\ channel[k[1]] = "whatsapp" /\ channel[l[1]] = "whatsapp"
        <5>1. channel[r.ev] = "whatsapp" /\ r.ev \in Events
          BY <2>3, <3>2, LoopServes DEF WebhookRequests
        <5> QED
          BY <5>1, KeysAre DEF W!KeyOf
      <4>2. fingerprints'[k] = fingerprints[k] /\ (\A body : InChat(k, body)' <=> InChat(k, body))
            /\ (\A body : InChat(l, body)' <=> InChat(l, body))
        BY <2>1, <2>2, <4>1
      <4> QED
        BY <2>3, <4>1, <4>2 DEF SingleInv, FitsAlone, W!Differs
    <3> QED
      BY <3>1, <3>2
  <2>5. FitsAlone(req[EventLoop])'
    BY <2>1, <2>3, <2>4 DEF FitsAlone, InChat, W!Differs, W!KeyOf, W!PrintOf
  <2> QED
    BY <2>1, <2>2, <2>5 DEF SingleInv
<1> QED
  BY <1>1, <1>2, <1>3, <1>4, <1>5 DEF W!Next, W!Approved, W!WorldChanges, W!vars, W!toolVars,
     W!providerVars

LEMMA DeliveredInvariant ==
  ASSUME WebhookAssumed
  PROVE  W!Spec => []DeliveredInv
<1>1. ASSUME W!Init PROVE DeliveredInv
  <2>1. Cardinality({}) = 0
    BY FS_EmptySet
  <2>2. \A k \in W!Keys : Ahead(k) = {}
    BY <1>1, IdleRequest DEF W!Init, Ahead, MayCall, Early, InRouter
  <2>3. \A k \in W!Keys : Len(calls[k]) = 0 /\ tries[k[1]] = 0
    BY <1>1, KeysAre DEF W!Init
  <2>4. \A k \in W!Keys : Cardinality(Ahead(k)) = 0
    BY <2>1, <2>2
  <2> QED
    BY <2>3, <2>4 DEF DeliveredInv
<1>2. WebhookInv /\ WebhookInv' /\ DeliveredInv /\ [W!Next]_(W!vars) => DeliveredInv'
  BY DeliveredStep
<1> QED
  BY <1>1, <1>2, WebhookInvariant, PTL DEF W!Spec

LEMMA WebhookTypeOK ==
  ASSUME WebhookAssumed, WebhookInv, DeliveredInv
  PROVE  W!TypeOK
<1>0. WebhookTypes
  BY DEF WebhookInv
<1>1. ASSUME NEW k \in W!Keys PROVE Len(calls[k]) <= tries[k[1]]
  <2>1. PICK B \in SUBSET W!Threads : B = Ahead(k)
    BY RequestSets
  <2>2. Len(calls[k]) + Cardinality(B) <= tries[k[1]]
    BY <2>1 DEF DeliveredInv
  <2>3. Len(calls[k]) \in Nat /\ tries[k[1]] \in Nat
    BY <1>0, KeysAre DEF WebhookTypes
  <2>4. Cardinality(B) \in Nat
    BY ThreadSets
  <2> QED
    BY <2>2, <2>3, <2>4
<1> QED
  BY <1>0, <1>1, Zenon DEF WebhookTypes, WebhookRequests, Stages, HttpCodes, Heard,
                    Said, Voiced, Remembered, Phases, W!TypeOK

LEMMA RepliesPart ==
  ASSUME W!KindAssumption, W!WebhookAssumption, W!StatusAssumption, W!ProviderAssumption
  PROVE  W!Spec => []W!RepliesAreTrue
<1>1. WebhookAssumed
  BY DEF WebhookAssumed
<1>2. ASSUME W!Init PROVE SingleInv
  <2>1. \A k \in W!Keys : calls[k] = <<>> /\ terminal[k] = "none"
    BY <1>2 DEF W!Init
  <2>2. req[EventLoop] = W!Idle
    BY <1>2 DEF W!Init, W!Threads
  <2>3. FitsAlone(req[EventLoop])
    BY <1>1, <2>2, IdleRequest DEF FitsAlone
  <2> QED
    BY <2>1, <2>3 DEF SingleInv
<1>3. WebhookInv /\ PlacedInv /\ SingleInv /\ [W!Next]_(W!vars) => SingleInv'
  BY <1>1, SingleStep
<1>4. W!Spec => []SingleInv
  BY <1>1, <1>2, <1>3, QuestionsInvariant, PTL DEF W!Spec
<1>5. ASSUME WebhookInv, DeliveredInv, SingleInv PROVE W!RepliesAreTrue
  <2>1. W!RepliesMatchRegistered
    <3>1. ASSUME NEW k \in W!Keys, NEW i \in DOMAIN calls[k]
          PROVE  Matches(calls[k][i].body, k[1])
      BY <1>5 DEF WebhookInv, CallsInv
    <3> QED
      BY <3>1 DEF Matches, Asks, W!RepliesMatchRegistered, W!Messages, W!Range
  <2>2. W!OneTextPerKey
    BY <1>5 DEF SingleInv, W!OneTextPerKey, W!Messages, W!Range
  <2>3. W!SentIsHonest
    BY <1>5 DEF SingleInv, FitsAlone, InChat, W!SentIsHonest, W!Messages, W!Range
  <2> QED
    BY <1>1, <1>5, <2>1, <2>2, <2>3, WebhookTypeOK DEF W!RepliesAreTrue
<1> QED
  BY <1>1, <1>4, <1>5, WebhookInvariant, DeliveredInvariant, PTL

\* Whatever overlaps, fails, is lost or restarts between the commits of the
\* router: a /recordar the provider will not deliver again is registered and
\* was answered, on WhatsApp with its question unless its workflow was left
\* running or had been approved; a question in the chat has its approval; and
\* what the route turns away has been neither routed nor answered.
THEOREM EventsAlwaysSettled ==
  ASSUME W!KindAssumption, W!WebhookAssumption, W!StatusAssumption
  PROVE  ChannelSpec => []EventsAreSettled
<1> DEFINE followed == side = "webhook"
<1>1. ChannelInit => (followed => W!Init)
  BY DEF ChannelInit
<1>2. [ChannelNext]_channelVars => (followed' <=> followed) /\ (followed => [W!Next]_W!vars)
  BY ChannelsApart
<1>3. (followed => W!EventsAreSettled) => EventsAreSettled
  BY DEF EventsAreSettled
<1>4. W!Spec => []W!EventsAreSettled
  BY SettledPart
<1> HIDE DEF followed
<1> QED
  BY <1>1, <1>2, <1>3, <1>4, PTL DEF ChannelSpec, W!Spec

\* A reply is given to the provider, within one run of the process, at most as
\* often as requests of its channel overlap, not counting the calls whose answer
\* asked for another: for any events, answers and number of threads.
THEOREM CopiesAlwaysBounded ==
  ASSUME W!KindAssumption, W!WebhookAssumption, W!StatusAssumption
  PROVE  ChannelSpec => []CopiesBounded
<1> DEFINE followed == side = "webhook"
<1>1. ChannelInit => (followed => W!Init)
  BY DEF ChannelInit
<1>2. [ChannelNext]_channelVars => (followed' <=> followed) /\ (followed => [W!Next]_W!vars)
  BY ChannelsApart
<1>3. (followed => W!CopiesBounded) => CopiesBounded
  BY DEF CopiesBounded
<1>4. W!Spec => []W!CopiesBounded
  BY CopiesPart
<1> HIDE DEF followed
<1> QED
  BY <1>1, <1>2, <1>3, <1>4, PTL DEF ChannelSpec, W!Spec

\* Whatever is read into a redelivered text, with any number of overlapping
\* requests and restarts, the chat speaks of the reading that was registered
\* first and asks the question that is saved for it.  On WhatsApp, moreover,
\* one text goes out under one key in a run of the process, and `sent` in the
\* webhook's response is true only of a text that is in the chat.
THEOREM RepliesAlwaysTrue ==
  ASSUME W!KindAssumption, W!WebhookAssumption, W!StatusAssumption, W!ProviderAssumption
  PROVE  ChannelSpec => []RepliesAreTrue
<1> DEFINE followed == side = "webhook"
<1>1. ChannelInit => (followed => W!Init)
  BY DEF ChannelInit
<1>2. [ChannelNext]_channelVars => (followed' <=> followed) /\ (followed => [W!Next]_W!vars)
  BY ChannelsApart
<1>3. (followed => W!RepliesAreTrue) => RepliesAreTrue
  BY DEF RepliesAreTrue
<1>4. W!Spec => []W!RepliesAreTrue
  BY RepliesPart
<1> HIDE DEF followed
<1> QED
  BY <1>1, <1>2, <1>3, <1>4, PTL DEF ChannelSpec, W!Spec
=============================================================================
