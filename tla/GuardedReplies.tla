--------------------------- MODULE GuardedReplies ---------------------------
(***************************************************************************)
(* The content guardrails (domain/common/guardrails.py) where they are     *)
(* wired in: the reminder workflow, the document service and the local     *)
(* runtime scan what comes in and what goes out, emit one guardrail.checked*)
(* trace event for every scan, and only then act on the result.            *)
(*                                                                         *)
(* One reminder is followed, from a text whose findings are chosen at the  *)
(* start.  Its title is what the parser or the LLM made of it, and is put  *)
(* into three templates; whether the output rules match depends on the     *)
(* template, too: "rm -rf" does where a space or the end follows, and not  *)
(* before a quotation mark.                                                *)
(***************************************************************************)
EXTENDS Naturals, Sequences

VARIABLES
  text,       \* findings in the text, and whether output rules match it
  req,        \* the request in hand
  wf,         \* the workflow's state, and the title once one is stored
  approval,   \* the approval's status
  reminder,   \* the title the reminder was created with
  scanned,    \* results of the request's scans
  events,     \* actions of the guardrail.checked events it emitted
  reply       \* the last reply

vars == <<text, req, wf, approval, reminder, scanned, events, reply>>

Kinds == {"create", "approve", "agenda", "pending", "document", "run"}
None == "none"

----------------------------------------------------------------------------
\* The rules, as category and severity.

PromptRules == {<<"prompt_injection", "high">>, <<"pii", "medium">>, <<"pii", "high">>,
                <<"content_policy", "medium">>}
OutputRules == {<<"content_policy", "high">>}

Blocked(findings) == \E f \in findings : f[2] = "high"

\* Fault: a finding that only flags is reported as allowed.
derive_guardrail_action_coarse(findings) ==
  IF Blocked(findings) THEN "blocked" ELSE "allowed"

derive_guardrail_action(findings) ==
  IF Blocked(findings) THEN "blocked" ELSE IF findings # {} THEN "flagged"
  ELSE "allowed"

Categories(findings) == {f[1] : f \in findings}

\* What a blocked prompt raises, computed from a new scan ...
assert_prompt_safe(findings) ==
  IF ~Blocked(findings) THEN None
  ELSE IF "prompt_injection" \in Categories(findings)
  THEN "PROMPT_INJECTION_DETECTED" ELSE "PII_DETECTED"

\* Fault: the first category in order decides.
enforce_prompt_scan_first(findings) ==
  IF ~Blocked(findings) THEN None
  ELSE IF "pii" \in Categories(findings) THEN "PII_DETECTED"
  ELSE "PROMPT_INJECTION_DETECTED"

\* ... and from the scan that was already traced.
enforce_prompt_scan(findings) ==
  IF ~Blocked(findings) THEN None
  ELSE IF "prompt_injection" \in Categories(findings)
  THEN "PROMPT_INJECTION_DETECTED" ELSE "PII_DETECTED"

enforce_output_scan(findings) ==
  IF Blocked(findings) THEN "GUARDRAIL_BLOCKED" ELSE None

----------------------------------------------------------------------------
\* Titles in templates.

Titles == {"plain", "ending", "unsafe"}
Templates == {"needs_approval", "notification_body", "created", "agenda"}

\* The question quotes the title; the others end with it or go on after a space.
Matches(template, title) ==
  \/ title = "unsafe"
  \/ title = "ending" /\ template # "needs_approval"

scan_output(template, title) ==
  IF title # None /\ Matches(template, title) THEN OutputRules ELSE {}

----------------------------------------------------------------------------
Idle == [kind |-> None, pc |-> "idle", error |-> None, traced |-> TRUE,
         committed |-> FALSE]

Init == /\ text \in [findings : SUBSET PromptRules, echo : BOOLEAN]
        /\ req = Idle
        /\ wf = [status |-> None, title |-> None]
        /\ approval = None
        /\ reminder = None
        /\ scanned = <<>> /\ events = <<>>
        /\ reply = [of |-> None, unsafe |-> FALSE]

Start(kind) ==
  /\ req.pc = "idle"
  /\ kind = "approve" => approval # None
  /\ req' = [Idle EXCEPT !.kind = kind,
                         !.pc = IF kind \in {"agenda", "pending"} THEN kind ELSE "input"]
  /\ approval' = IF kind = "approve" THEN "approved" ELSE approval
  /\ scanned' = <<>> /\ events' = <<>>
  /\ UNCHANGED <<text, wf, reminder, reply>>

\* emit_guardrail_scan comes first, whatever the scan found.
Emits(findings) == TRUE

\* Scan, emit, enforce.  The recorder may raise, which ends the request.
Scan(findings, error, passed) ==
  /\ scanned' = Append(scanned, findings)
  /\ \/ /\ events' = IF Emits(findings)
                     THEN Append(events, derive_guardrail_action(findings)) ELSE events
        /\ req' = IF error # None THEN [req EXCEPT !.pc = "failed", !.error = error]
                  ELSE [req EXCEPT !.pc = passed]
     \/ /\ events' = events
        /\ req' = [req EXCEPT !.pc = "failed", !.error = "trace", !.traced = FALSE]

\* A document is untrusted anyway: a blocked scan is only a warning.
Input ==
  /\ req.pc = "input"
  /\ Scan(text.findings,
          IF req.kind = "document" THEN None ELSE enforce_prompt_scan(text.findings),
          CASE req.kind = "create" -> "register"
            [] req.kind = "approve" -> "resume"
            [] req.kind = "document" -> "summary"
            [] req.kind = "run" -> "received")
  /\ UNCHANGED <<text, wf, approval, reminder, reply>>

\* register_or_replay commits `running' for a new key.  A replay of an approval
\* that is asked for is asked again; every other one is answered with fixed
\* words: the clarification's again, or that it is a duplicate, also where the
\* first request is still at work or never came back.
Register ==
  /\ req.pc = "register"
  /\ \/ /\ wf.status = None
        /\ wf' = [wf EXCEPT !.status = "running"]
        /\ req' = [req EXCEPT !.pc = "extract"]
     \/ /\ wf.status # None
        /\ req' = [req EXCEPT !.pc = IF wf.status = "waiting" THEN "ask" ELSE "duplicate"]
        /\ UNCHANGED wf
  /\ UNCHANGED <<text, approval, reminder, scanned, events, reply>>

\* The parser or the model reads a title, which is stored before it is asked
\* about; or it does not, and what is unclear is asked for; or it raises, and the
\* workflow stays `running'.
Extract ==
  /\ req.pc = "extract"
  /\ \/ /\ \E title \in Titles : wf' = [status |-> "waiting", title |-> title]
        /\ req' = [req EXCEPT !.pc = "ask"]
     \/ /\ req' = [req EXCEPT !.pc = "clarify"]
        /\ UNCHANGED wf
     \/ /\ req' = Idle
        /\ UNCHANGED wf
  /\ UNCHANGED <<text, approval, reminder, scanned, events, reply>>

\* A clarification is scanned first and stored after.
Clarified ==
  /\ req.pc = "clarified"
  /\ wf' = [wf EXCEPT !.status = "clarify"]
  /\ req' = [req EXCEPT !.pc = "repeat"]
  /\ UNCHANGED <<text, approval, reminder, scanned, events, reply>>

Guarded(template, title, passed) ==
  LET findings == scan_output(template, title)
  IN  Scan(findings, enforce_output_scan(findings), passed)

\* The question; only a reply that passes is followed by the approval.
Ask ==
  /\ req.pc = "ask"
  /\ Guarded("needs_approval", wf.title, "approval")
  /\ UNCHANGED <<text, wf, approval, reminder, reply>>

CreateApproval ==
  /\ req.pc = "approval"
  /\ approval' = IF approval = None THEN "pending" ELSE approval
  /\ req' = Idle
  /\ reply' = [of |-> "needs_approval", unsafe |-> Matches("needs_approval", wf.title)]
  /\ UNCHANGED <<text, wf, reminder, scanned, events>>

Body(title) == scan_output("notification_body", title)

\* Fault: the transaction is committed before the body is scanned.
ResumeCommits ==
  /\ req.pc = "resume"
  /\ wf.status = "waiting"
  /\ reminder' = IF Body(wf.title) = {} THEN wf.title ELSE None
  /\ wf' = [wf EXCEPT !.status = "completed"]
  /\ req' = [req EXCEPT !.pc = "announce", !.committed = TRUE]
  /\ UNCHANGED <<text, approval, scanned, events, reply>>

\* The unit of work scans the notification's body before anything is kept; a
\* workflow that is completed is a replay.
Resume ==
  /\ req.pc = "resume"
  /\ IF wf.status = "waiting"
     THEN Scan(Body(wf.title), enforce_output_scan(Body(wf.title)), "commit")
     ELSE Guarded("created", None, "repeat")
  /\ UNCHANGED <<text, wf, approval, reminder, reply>>

Commit ==
  /\ req.pc = "commit"
  /\ reminder' = wf.title
  /\ wf' = [wf EXCEPT !.status = "completed"]
  /\ req' = [req EXCEPT !.pc = "announce", !.committed = TRUE]
  /\ UNCHANGED <<text, approval, scanned, events, reply>>

Announce ==
  /\ req.pc = "announce"
  /\ Guarded("created", wf.title, "announced")
  /\ UNCHANGED <<text, wf, approval, reminder, reply>>

\* Replies made of the product's own words.
Fixed ==
  /\ req.pc \in {"clarify", "duplicate", "received", "summary"}
  /\ \E unsafe \in IF req.pc = "summary" THEN {text.echo} ELSE {FALSE} :
       LET findings == IF unsafe THEN OutputRules ELSE {}
       IN  Scan(findings, enforce_output_scan(findings),
                IF req.pc = "clarify" THEN "clarified" ELSE "repeat")
  /\ UNCHANGED <<text, wf, approval, reminder, reply>>

Answer ==
  /\ req.pc \in {"announced", "repeat"}
  /\ reply' = [of |-> req.pc,
               unsafe |-> req.pc = "announced" /\ Matches("created", wf.title)]
  /\ req' = Idle
  /\ UNCHANGED <<text, wf, approval, reminder, scanned, events>>

\* /agenda lists the titles, /pendientes the texts; neither reply is scanned.
Agenda ==
  /\ req.pc = "agenda"
  /\ reply' = [of |-> "agenda",
               unsafe |-> reminder # None /\ Matches("agenda", reminder)]
  /\ req' = Idle
  /\ UNCHANGED <<text, wf, approval, reminder, scanned, events>>

Pending ==
  /\ req.pc = "pending"
  /\ reply' = [of |-> "pending", unsafe |-> approval = "pending" /\ text.echo]
  /\ req' = Idle
  /\ UNCHANGED <<text, wf, approval, reminder, scanned, events>>

Fails ==
  /\ req.pc = "failed"
  /\ req' = Idle
  /\ scanned' = <<>> /\ events' = <<>>
  /\ UNCHANGED <<text, wf, approval, reminder, reply>>

Next ==
  \/ \E kind \in Kinds : Start(kind)
  \/ Input \/ Register \/ Extract \/ Clarified \/ Ask \/ CreateApproval
  \/ Resume \/ Commit \/ Announce \/ Fixed \/ Answer \/ Agenda \/ Pending \/ Fails

Spec == Init /\ [][Next]_vars

----------------------------------------------------------------------------
\* Properties.

\* Every scan of a request left exactly one event with the action its findings
\* call for, blocked or not, unless the recorder itself raised.
EveryScanCounted ==
  req.traced => /\ Len(events) = Len(scanned)
                /\ \A i \in DOMAIN events :
                     events[i] = CASE scanned[i] = {} -> "allowed"
                                   [] Blocked(scanned[i]) -> "blocked"
                                   [] OTHER -> "flagged"

\* The code of a blocked prompt names a category that has a blocking finding,
\* and is the one a second scan would raise.
CodeNamesBlocker ==
  (req.kind \in {"create", "approve", "run"} /\ req.pc = "failed" /\ Len(scanned) = 1
     /\ Blocked(text.findings) /\ req.traced)
    => /\ req.error = assert_prompt_safe(text.findings)
       /\ <<IF req.error = "PII_DETECTED" THEN "pii" ELSE "prompt_injection", "high">>
            \in text.findings

\* No reminder exists whose notification the output rules would stop, although
\* its title passed the question it was approved by.
BlockedNeverCreated ==
  reminder # None => ~Blocked(scan_output("notification_body", reminder))

\* A request that has created the reminder is never answered with a guardrail
\* error: what passes as a notification also passes as the reply.
CreatedIsAnnounced == req.committed => req.error \in {None, "trace"}

\* A title only gets its approval asked for through a reply that passed, and no
\* text that is blocked is ever registered.
AskedIsPresentable ==
  /\ approval # None => ~Blocked(scan_output("needs_approval", wf.title))
  /\ wf.status # None => ~Blocked(text.findings)

\* The workflow's own replies passed their scan; those that list stored titles
\* (/agenda and /pendientes) are returned without one.
WorkflowRepliesPassed == reply.unsafe => reply.of \in {"agenda", "pending"}

\* The trace tells which scans a request went through and why it failed.
ScansAccounted == EveryScanCounted /\ CodeNamesBlocker

\* What a scan blocks is never created, nor its approval asked for, and what was
\* created is not answered with a block.  (The workflow itself is stored before
\* its question is scanned, so a blocked question leaves it waiting.)
BlockedLeavesNothing ==
  /\ BlockedNeverCreated
  /\ CreatedIsAnnounced
  /\ AskedIsPresentable
  /\ WorkflowRepliesPassed
=============================================================================
