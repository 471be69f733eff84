----------------------------- MODULE RuntimeEgress -----------------------------
(***************************************************************************)
(* The egress allowlist from configuration to the last hop of a download.  *)
(* A process validates its settings, which fixes the allowlist; it builds  *)
(* its network adapters, each of which requires its own target; and a      *)
(* running HTTP process fetches a voice note.  It follows the redirects of *)
(* a WhatsApp media download itself, hop by hop; in every other call it is *)
(* urllib that follows redirects, wherever they lead, and asks no list.    *)
(*                                                                         *)
(* A URL is its authority <<scheme, host>>, or Malformed when it has none; *)
(* an entry of EGRESS_ALLOWED_HOSTS is <<scheme, host>>, <<"bare", host>>  *)
(* without a scheme, or BadEntry for one that _parse_entry refuses.        *)
(***************************************************************************)
EXTENDS Naturals, FiniteSets

CONSTANTS
  Settings,      \* the configurations a process may be started with
  MediaTargets,  \* the URLs a media answer or a redirect may name
  MaxFollowed    \* redirects that urllib follows in one call

NoUrl == <<"no", "url">>
Malformed == <<"malformed", "url">>
BadEntry == <<"bad", "entry">>
TelegramApi == <<"https", "api.telegram.org">>
WhatsAppApi == <<"https", "graph.facebook.com">>
WhatsAppMedia == <<"https", "lookaside.fbsbx.com">>
MaxRedirects == 5

Adapters == {"llm", "transcription", "tts"}

SettingsAssumption ==
  /\ MaxFollowed \in Nat
  /\ \A s \in Settings :
    /\ s.process \in {"http", "run-once", "operator"}
    /\ s.worker \in BOOLEAN /\ s.postgres \in BOOLEAN
    /\ s.telegram \in BOOLEAN /\ s.whatsapp \in BOOLEAN /\ s.phone \in BOOLEAN
    /\ \A a \in Adapters : /\ s.adapters[a].provider \in {"disabled", "known", "unknown"}
                           /\ s.adapters[a].complete \in BOOLEAN

VARIABLES
  settings,    \* AppSettings as given
  stage,       \* "given", "validated", "running" or "stopped"
  cause,       \* why the start failed
  allowlist,   \* EgressAllowlist.entries
  note,        \* the voice note: [phase, channel, url, hops, answer]
  opened       \* the note's connections: <<target, hop, by>>, by the code or by urllib

vars == <<settings, stage, cause, allowlist, note, opened>>

-----------------------------------------------------------------------------
(* The allowlist.                                                          *)

\* _parse_entry: a bare host means https.
ParseEntry(entry) == IF entry[1] = "bare" THEN <<"https", entry[2]>> ELSE entry

HasAuthority(url) == url \notin {NoUrl, Malformed}

Allows(entries, url) == HasAuthority(url) /\ url \in entries

\* Every configured URL with an authority, whether its provider is enabled or not.
derive_egress_entries(s) ==
  {s.adapters[a].url : a \in {b \in Adapters : HasAuthority(s.adapters[b].url)}}
  \cup (IF s.telegram THEN {TelegramApi} ELSE {})
  \cup (IF s.whatsapp THEN {WhatsAppApi, WhatsAppMedia} ELSE {})

\* An explicit list replaces the derived one.
effective_egress(s) == IF s.explicit # {} THEN s.explicit ELSE derive_egress_entries(s)

\* The targets that the allowlist must cover before the process starts.
required_egress(s) ==
  {s.adapters[a].url : a \in {b \in Adapters : /\ s.adapters[b].provider # "disabled"
                                                /\ s.adapters[b].url # NoUrl}}
  \cup (IF s.telegram THEN {TelegramApi} ELSE {})
  \cup (IF s.whatsapp THEN {WhatsAppApi} ELSE {})

-----------------------------------------------------------------------------
(* Start of a process.                                                     *)

NoNote == [phase |-> "none", channel |-> "none", url |-> NoUrl, hops |-> 0,
           answer |-> "none"]

Init ==
  /\ settings \in Settings
  /\ stage = "given"
  /\ cause = "none"
  /\ allowlist = {}
  /\ note = NoNote
  /\ opened = {}

Stop(why) ==
  /\ stage' = "stopped"
  /\ cause' = why
  /\ UNCHANGED <<settings, allowlist, note, opened>>

\* _validate_egress: parse the entries, then require the coverage.
Validate ==
  LET raw     == effective_egress(settings)
      entries == {ParseEntry(x) : x \in raw}
  IN  /\ stage = "given"
      /\ \/ BadEntry \in raw /\ Stop("entry")
         \/ /\ BadEntry \notin raw
            /\ \E url \in required_egress(settings) : ~Allows(entries, url)
            /\ Stop("coverage")
         \/ /\ BadEntry \notin raw
            /\ \A url \in required_egress(settings) : Allows(entries, url)
            /\ stage' = "validated"
            /\ allowlist' = entries
            /\ UNCHANGED <<settings, cause, note, opened>>

\* build_llm_provider, build_transcription_provider, build_tts_provider with the
\* checks of the constructors, in their order.
AdapterFailure(a) ==
  CASE a.provider = "disabled" -> "none"
    [] a.provider = "unknown" -> "unsupported"
    [] ~a.complete \/ a.url = NoUrl -> "incomplete"
    [] OTHER -> IF Allows(allowlist, a.url) THEN "none" ELSE "egress"

HasWhatsApp(s) == s.whatsapp /\ s.phone

HasProvider(s) == s.telegram \/ HasWhatsApp(s)

\* The constructors of the two channel clients.
ChannelFailure(s) ==
  IF \/ s.telegram /\ ~Allows(allowlist, TelegramApi)
     \/ HasWhatsApp(s) /\ ~Allows(allowlist, WhatsAppApi)
  THEN "egress" ELSE "none"

\* build_runtime_container, step by step.
HttpFailures(s) ==
  <<IF s.worker /\ ~s.postgres THEN "postgres_required" ELSE "none",
    IF s.worker /\ ~HasProvider(s) THEN "channel_required" ELSE "none",
    AdapterFailure(s.adapters["llm"]),
    AdapterFailure(s.adapters["transcription"]),
    AdapterFailure(s.adapters["tts"]),
    ChannelFailure(s)>>

\* The command line worker builds no model, transcription or speech adapter.
WorkerFailures(s) ==
  <<IF ~s.postgres THEN "postgres_required" ELSE "none",
    IF s.process = "run-once" /\ ~HasProvider(s) THEN "channel_required" ELSE "none",
    ChannelFailure(s)>>

\* The first step that fails stops the process.
Build ==
  LET steps  == IF settings.process = "http" THEN HttpFailures(settings)
                ELSE WorkerFailures(settings)
      failed == {i \in DOMAIN steps : steps[i] # "none"}
  IN  /\ stage = "validated"
      /\ \/ \E i \in failed : (\A j \in failed : i <= j) /\ Stop(steps[i])
         \/ /\ failed = {}
            /\ stage' = "running"
            /\ UNCHANGED <<settings, cause, allowlist, note, opened>>

-----------------------------------------------------------------------------
(* A voice note: _transcribe_telegram_media, _transcribe_whatsapp_media.   *)

Answer(reply) == note' = [note EXCEPT !.phase = "answered", !.answer = reply]

HasToken(channel) == IF channel = "telegram" THEN settings.telegram ELSE settings.whatsapp

\* The early returns; an audio over the limit is refused by the size it claims.
Receive(channel, has_file, large) ==
  /\ stage = "running" /\ settings.process = "http"
  /\ note.phase = "none"
  /\ note' = [NoNote EXCEPT
       !.channel = channel,
       !.phase = IF /\ has_file
                    /\ settings.adapters["transcription"].provider # "disabled"
                    /\ HasToken(channel) /\ ~large
                 THEN "resolve" ELSE "answered",
       !.answer = CASE ~has_file -> "missing_file_id"
                    [] settings.adapters["transcription"].provider = "disabled" ->
                         "not_configured"
                    [] ~HasToken(channel) -> "no_token"
                    [] large -> "too_large"
                    [] OTHER -> "none"]
  /\ UNCHANGED <<settings, stage, cause, allowlist, opened>>

Api(channel) == IF channel = "telegram" THEN TelegramApi ELSE WhatsAppApi

\* The client can be built: its constructor wants a number and its API allowed.
CanAsk(channel) ==
  /\ channel = "whatsapp" => settings.phone
  /\ Allows(allowlist, Api(channel))

\* A connection the code asks for, and those that urlopen adds to it: where the
\* answer is a redirect to a URL with an authority, it goes there.
ByCode(target, hop) == <<target, hop, "code">>
ByUrllib(hop) ==
  {{<<target, hop, "urllib">> : target \in chain} :
     chain \in {c \in SUBSET {t \in MediaTargets : HasAuthority(t)} :
                  Cardinality(c) <= MaxFollowed}}

\* get_file and get_media_url: the API names the media; Telegram gives a path of
\* its own host.
Resolve(url, followed) ==
  /\ note.phase = "resolve"
  /\ CanAsk(note.channel)
  /\ opened' = opened \cup {ByCode(Api(note.channel), 0)} \cup followed
  /\ note' = [note EXCEPT !.phase = "download",
                          !.url = IF note.channel = "telegram" THEN TelegramApi ELSE url]
  /\ UNCHANGED <<settings, stage, cause, allowlist>>

\* A client that cannot be built, a blank id, or an unusable answer of the API.
ResolveFails(followed) ==
  /\ note.phase = "resolve"
  /\ Answer("failed")
  /\ \/ UNCHANGED opened
     \/ /\ CanAsk(note.channel)
        /\ opened' = opened \cup {ByCode(Api(note.channel), 0)} \cup followed
  /\ UNCHANGED <<settings, stage, cause, allowlist>>

\* download_file asks the Telegram API.
DownloadTelegram(arrives, followed) ==
  /\ note.phase = "download" /\ note.channel = "telegram"
  /\ opened' = opened \cup {ByCode(TelegramApi, 1)} \cup followed
  /\ IF arrives THEN note' = [note EXCEPT !.phase = "audio"] ELSE Answer("failed")
  /\ UNCHANGED <<settings, stage, cause, allowlist>>

\* Mutant of Permitted: only the URL that the API named is checked.
PermittedFirst(url, hops) == hops = 0 => Allows(allowlist, url)

\* require(current_url), on every turn of the loop.
Permitted(url, hops) == Allows(allowlist, url)

Turn(hops) == hops + 1

\* range(max_redirects) is used up.
Exhausted(hops) == hops = MaxRedirects

\* One turn of download_media, whose opener follows nothing: the audio, a redirect to next, or an error.
Hop(outcome, next) ==
  /\ note.phase = "download" /\ note.channel = "whatsapp"
  /\ ~Exhausted(note.hops)
  /\ Permitted(note.url, note.hops)
  /\ opened' = opened \cup {ByCode(note.url, note.hops + 1)}
  /\ \/ outcome = "audio" /\ note' = [note EXCEPT !.phase = "audio"]
     \/ outcome = "redirect" /\ note' = [note EXCEPT !.url = next, !.hops = Turn(@)]
     \/ outcome = "error" /\ Answer("failed")
  /\ UNCHANGED <<settings, stage, cause, allowlist>>

\* A target that is not allowed, and a loop that is used up, raise; the note fails.
HopRefused ==
  /\ note.phase = "download" /\ note.channel = "whatsapp"
  /\ Exhausted(note.hops) \/ ~Permitted(note.url, note.hops)
  /\ Answer(IF Exhausted(note.hops) THEN "too_many_redirects" ELSE "egress")
  /\ UNCHANGED <<settings, stage, cause, allowlist, opened>>

\* The size of what was downloaded, then the transcription provider.
Transcribe(reply, followed) ==
  /\ note.phase = "audio"
  /\ Answer(reply)
  /\ opened' = IF reply = "download_too_large" THEN opened
               ELSE opened \cup {ByCode(settings.adapters["transcription"].url, 0)}
                             \cup followed
  /\ UNCHANGED <<settings, stage, cause, allowlist>>

Step ==
  \/ \E followed \in ByUrllib(0) :
       \/ \E url \in MediaTargets : Resolve(url, followed)
       \/ ResolveFails(followed)
       \/ \E reply \in {"transcript", "failed", "download_too_large"} :
            Transcribe(reply, followed)
  \/ \E arrives \in BOOLEAN, followed \in ByUrllib(1) : DownloadTelegram(arrives, followed)
  \/ \E outcome \in {"audio", "redirect", "error"}, next \in MediaTargets :
       Hop(outcome, next)
  \/ HopRefused

Next ==
  \/ Validate
  \/ Build
  \/ \E channel \in {"telegram", "whatsapp"}, has_file \in BOOLEAN, large \in BOOLEAN :
       Receive(channel, has_file, large)
  \/ Step

Spec == Init /\ [][Next]_vars

-----------------------------------------------------------------------------
\* Properties.

\* The coverage that validation requires is what the constructors require: once
\* settings are accepted no adapter of any process is refused its own target.
CoverageIsEnough == cause # "egress"

\* Every connection the code itself asks for goes to an allowlisted target, each
\* hop of a WhatsApp media download included: there nothing is followed unseen.
\* What is off the list was reached through urllib, from a listed target.
OpenedIsAllowed ==
  \A c \in opened :
    /\ c[3] = "code" => c[1] \in allowlist
    /\ c[3] = "urllib" =>
         /\ c[2] > 0 => note.channel = "telegram"
         /\ \E d \in opened : d[3] = "code" /\ d[2] = c[2] /\ d[1] \in allowlist

\* A redirect chain costs the code at most five connections, whoever answers it.
HopsBounded == Cardinality({c \in opened : c[2] > 0 /\ c[3] = "code"}) <= MaxRedirects

\* Without an explicit list the derived one is enough for a whole voice note: a
\* download that stays on the media host of WhatsApp is not refused.
DerivedListIsEnough ==
  settings.explicit = {} /\ note.answer = "egress" => note.url # WhatsAppMedia

\* From the settings to the last redirect: what the checks at the start accept can
\* be built and used, and the code itself opens nothing off the list.
EgressHeld ==
  /\ CoverageIsEnough
  /\ OpenedIsAllowed
  /\ HopsBounded
  /\ DerivedListIsEnough
=============================================================================
