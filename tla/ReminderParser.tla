----------------------------- MODULE ReminderParser -----------------------------
(***************************************************************************)
(* extract_reminder: from a text, the instant it was received and a time   *)
(* zone to one reminder, a question or a refusal.  A text is what the      *)
(* expressions of the parser find in it: whether a trigger word is there,  *)
(* the relative expressions, the clock expressions and the date words (an  *)
(* expression written twice counts like two), and whether the instant that *)
(* comes with it is aware of its zone.                                     *)
(*                                                                         *)
(* Instants are hours of UTC.  A zone changes its offset once, so every    *)
(* request is made before, around or after a gap or a repeated hour; the   *)
(* hours of a day, the days of a week and the hour arithmetic of "am" and  *)
(* "pm" are real.  The parser is compared with what a calendar of all the  *)
(* instants says.                                                          *)
(*                                                                         *)
(* Around it stands ReminderWorkflow.run as far as times go: a text that   *)
(* is not taken for a reminder goes to the language model if there is one, *)
(* and the notice is scheduled before the start.  An hour is the unit, so  *)
(* minutes of a clock and the rounding to whole minutes are not seen.      *)
(***************************************************************************)
EXTENDS Integers, FiniteSets, FiniteSetsExt

CONSTANTS
  LastInstant,   \* the calendar runs from instant 0 to this one
  Received,      \* instants at which a text may arrive
  DefaultNotice, \* hours between the notice and the start, unless told
  ModelAnswers,  \* what the language model may answer
  Zones,         \* [known, change, before, after]: the offset moves at change
  Texts          \* the texts a user may send

Instants == 0..LastInstant

CalendarAssumption ==
  /\ LastInstant \in Nat /\ DefaultNotice \in Nat
  /\ Received \subseteq Instants
  /\ \A z \in Zones : /\ z.known \in BOOLEAN
                      /\ z.change \in Int /\ z.before \in Int /\ z.after \in Int

\* The calendar holds every instant a text can name: from the first hour of the day
\* it is handled on to the last one a week later, wherever the clocks are moved.
ReachAssumption ==
  \A at \in Received, z \in Zones :
    /\ 23 + (z.after - z.before) <= at /\ 23 + (z.before - z.after) <= at
    /\ at + 191 + (z.after - z.before) <= LastInstant
    /\ at + 191 + (z.before - z.after) <= LastInstant

\* What the expressions can find.  Date words are pairs: a weekday has its number.
Weekdays == 0..6
ClockWords == [form : {"medianoche", "mediodia", "malformed", "a las"}, hour : Nat,
               meridiem : {"none", "am", "pm"}]
DateWords == ({"hoy", "manana"} \X {0}) \cup ({"weekday"} \X Weekdays)

TextAssumption ==
  /\ \A t \in Texts :
       /\ t.trigger \in BOOLEAN /\ t.aware \in BOOLEAN
       /\ t.relatives \subseteq Nat /\ IsFiniteSet(t.relatives)
       /\ t.clocks \subseteq ClockWords /\ IsFiniteSet(t.clocks)
       /\ t.dates \subseteq DateWords /\ IsFiniteSet(t.dates)
  /\ \A d \in ModelAnswers : d.starts_at \in Int /\ d.notify_at \in Int

VARIABLES
  now, zone, text,
  result,      \* what was extracted
  asked,       \* the language model was asked
  scheduled    \* the instant of the notice, or -1

vars == <<now, zone, text, result, asked, scheduled>>

-----------------------------------------------------------------------------
(* zoneinfo: local readings of instants, and instants of local readings.   *)

Offset(z, u) == IF u < z.change THEN z.before ELSE z.after

Local(z, u) == u + Offset(z, u)

\* The second passage through a repeated hour.
Fold(z, u) == IF u >= z.change /\ Local(z, u) < z.change + z.before THEN 1 ELSE 0

\* datetime.utcoffset: inside a gap or a repeated hour the fold decides.
OffsetOf(z, local, fold) ==
  CASE local < z.change + Min({z.before, z.after}) -> z.before
    [] local >= z.change + Max({z.before, z.after}) -> z.after
    [] OTHER -> IF fold = 0 THEN z.before ELSE z.after

\* Mutant of _utc_candidates: a reading is not converted back to check it.
_utc_candidatesUnchecked(z, local) ==
  {local - OffsetOf(z, local, fold) : fold \in {0, 1}}

\* Both folds, kept when they come back as they were.
_utc_candidates(z, local) ==
  {u \in {local - OffsetOf(z, local, fold) : fold \in {0, 1}} :
     \E fold \in {0, 1} : /\ u = local - OffsetOf(z, local, fold)
                          /\ Local(z, u) = local
                          /\ Fold(z, u) = fold}

DayOf(local) == local \div 24
HourOf(local) == local % 24
Weekday(day) == day % 7

-----------------------------------------------------------------------------
(* Results.                                                                *)

Parsed(at, notify) ==
  [status |-> "parsed", reason |-> "none", starts_at |-> at, notify_at |-> notify]
NeedsClarification(reason) ==
  [status |-> "needs_clarification", reason |-> reason, starts_at |-> -1,
   notify_at |-> -1]
Unsupported(reason) ==
  [status |-> "unsupported", reason |-> reason, starts_at |-> -1, notify_at |-> -1]

\* A clock that can be placed on a day.
ClockTime(hour) == [status |-> "clock", reason |-> "none", hour |-> hour]

\* ReminderExtraction.notify_at is None unless the delay was relative.
NoNotice == -1

-----------------------------------------------------------------------------
(* Clock expressions: "medianoche", "mediodia" or "a las h[:mm] [am|pm]".  *)

MeridiemHour(hour, meridiem) ==
  IF meridiem = "am" THEN IF hour = 12 THEN 0 ELSE hour
  ELSE IF hour = 12 THEN 12 ELSE hour + 12

\* _parse_clock for the one clock expression of the text.
ParseOne(c) ==
  CASE c.form = "medianoche" -> ClockTime(0)
    [] c.form = "mediodia" -> ClockTime(12)
    [] c.form = "malformed" -> Unsupported("invalid_time")
    [] c.form = "a las" /\ c.meridiem # "none" ->
         IF c.hour \in 1..12 THEN ClockTime(MeridiemHour(c.hour, c.meridiem))
         ELSE Unsupported("invalid_time")
    [] c.form = "a las" /\ c.meridiem = "none" ->
         IF c.hour \in 1..12 THEN NeedsClarification("ambiguous_hour")
         ELSE IF c.hour \in 0..23 THEN ClockTime(c.hour)
              ELSE Unsupported("invalid_time")

\* The next such day, a week later when the clock is not ahead of it today.
WeekdayDate(weekday, hour, reference) ==
  LET today  == DayOf(reference)
      target == today + ((weekday - Weekday(today)) % 7)
  IN  IF target * 24 + hour <= reference THEN target + 7 ELSE target

\* _wall_clock_date for the only date word.
DateOf(word, hour, reference) ==
  CASE word[1] = "hoy" -> DayOf(reference)
    [] word[1] = "manana" -> DayOf(reference) + 1
    [] word[1] = "weekday" -> WeekdayDate(word[2], hour, reference)

-----------------------------------------------------------------------------
(* extract_reminder, early return by early return.                         *)

\* A relative expression starts and notifies a number of hours from now and
\* goes with no other expression.
ExtractRelative(t, at) ==
  LET amount == CHOOSE a \in t.relatives : TRUE
  IN  IF Cardinality(t.relatives) > 1 \/ t.dates # {} \/ t.clocks # {}
      THEN Unsupported("conflicting_temporal_expression")
      ELSE IF amount < 1 THEN Unsupported("invalid_relative_amount")
      ELSE Parsed(at + amount, at + amount)

\* The clock on its date: the one instant with that local reading, if any.
PlaceClock(z, word, hour, at) ==
  LET local == DateOf(word, hour, Local(z, at)) * 24 + hour
      candidates == _utc_candidates(z, local)
      starts_at == CHOOSE u \in candidates : TRUE
  IN  IF candidates = {} THEN NeedsClarification("nonexistent_local_time")
      ELSE IF Cardinality(candidates) > 1 THEN NeedsClarification("ambiguous_local_time")
      ELSE IF word[1] = "hoy" /\ starts_at <= at THEN Unsupported("past_time")
      ELSE Parsed(starts_at, NoNotice)

ExtractWallClock(t, z, at) ==
  LET clock == ParseOne(CHOOSE c \in t.clocks : TRUE)
  IN  IF Cardinality(t.clocks) > 1 THEN Unsupported("conflicting_temporal_expression")
      ELSE IF t.clocks = {} THEN
        NeedsClarification(IF t.dates # {} THEN "missing_time" ELSE "missing_datetime")
      ELSE IF clock.status # "clock" THEN clock
      ELSE IF Cardinality(t.dates) > 1 THEN Unsupported("conflicting_temporal_expression")
      ELSE IF t.dates = {} THEN NeedsClarification("missing_date")
      ELSE PlaceClock(z, CHOOSE d \in t.dates : TRUE, clock.hour, at)

\* A naive reference instant is refused and an unknown zone is asked about.
extract_reminder(t, z, at) ==
  IF ~t.trigger THEN Unsupported("not_a_reminder")
  ELSE IF ~t.aware THEN Unsupported("invalid_reference_instant")
  ELSE IF ~z.known THEN NeedsClarification("invalid_timezone")
  ELSE IF t.relatives # {} THEN ExtractRelative(t, at)
  ELSE ExtractWallClock(t, z, at)

-----------------------------------------------------------------------------
(* The language model, for a text that is not taken for a reminder.        *)

\* What the parser leaves to the model.
Undecided(r) == r.status = "unsupported" /\ r.reason = "not_a_reminder"

\* _reminder_extraction_from_llm: a reminder with a title, enough confidence and
\* instants that know their zone; -1 is an absent instant.
FromModel(d) ==
  IF /\ d.is_reminder /\ d.title /\ d.confident
     /\ d.starts_at # -1 /\ d.aware
  THEN Parsed(d.starts_at, d.notify_at)
  ELSE Unsupported("not_a_reminder")

\* _notice_minutes_before
notice_before(r) ==
  IF r.notify_at = NoNotice THEN DefaultNotice
  ELSE Max({r.starts_at - r.notify_at, 0})

-----------------------------------------------------------------------------
Unread == [status |-> "unread", reason |-> "none", starts_at |-> -1, notify_at |-> -1]

Init ==
  /\ now \in Received
  /\ zone \in Zones
  /\ text \in Texts
  /\ result = Unread
  /\ asked = FALSE
  /\ scheduled = -1

\* The text waits (a queue, a redelivery) before it is read: the parser is given
\* the instant the text is handled, which is later.
Wait ==
  /\ result = Unread
  /\ now + 1 \in Received
  /\ now' = now + 1
  /\ UNCHANGED <<zone, text, result, asked, scheduled>>

Read ==
  /\ result = Unread
  /\ result' = extract_reminder(text, zone, now)
  /\ UNCHANGED <<now, zone, text, asked, scheduled>>

\* _resolve_extraction and _extract_with_llm: a model that is configured is asked
\* once; an answer that raises is no extraction.
AskModel(d) ==
  /\ Undecided(result)
  /\ ~asked
  /\ result' = FromModel(d)
  /\ asked' = TRUE
  /\ UNCHANGED <<now, zone, text, scheduled>>

\* The reminder is scheduled some time before its event.
Schedule ==
  /\ result.status = "parsed"
  /\ scheduled = -1
  /\ scheduled' = result.starts_at - notice_before(result)
  /\ UNCHANGED <<now, zone, text, result, asked>>

Next == Wait \/ Read \/ (\E d \in ModelAnswers : AskModel(d)) \/ Schedule

Spec == Init /\ [][Next]_vars

-----------------------------------------------------------------------------
(* Reference definitions over the whole calendar.                          *)

\* The hours on the 24-hour clock that an expression can mean.
Meanings(c) ==
  CASE c.form = "medianoche" -> {0}
    [] c.form = "mediodia" -> {12}
    [] c.form = "malformed" -> {}
    [] OTHER ->
         {h \in 0..23 :
            \/ c.meridiem = "none" /\ c.hour > 12 /\ h = c.hour
            \/ c.meridiem = "none" /\ c.hour \in 0..12 /\ h % 12 = c.hour % 12
                                   /\ (c.hour = 0 => h = 0)
            \/ c.meridiem = "am" /\ c.hour \in 1..12 /\ h < 12 /\ h = c.hour % 12
            \/ c.meridiem = "pm" /\ c.hour \in 1..12 /\ h >= 12 /\ h % 12 = c.hour % 12}

\* The instants at which the zone's wall shows the hour on the day.
Showing(z, day, hour) == {u \in Instants : Local(z, u) = day * 24 + hour}

\* Properties.

\* The parser never sets a reminder for an instant that has passed or is passing:
\* not by today's date, not by a weekday whose hour is over, not by a date read from
\* the local calendar while the clock is put back.
ParsedIsAhead == result.status = "parsed" /\ ~asked => result.starts_at > now

\* A parsed wall-clock reminder is the only instant that shows the hour the text
\* means on its day, and the text can mean no other hour; a gap or a repeated
\* hour is asked about, and only then.
NothingGuessed ==
  \A c \in text.clocks :
    /\ result.status = "parsed" /\ ~asked =>
         \E hour \in 0..23 :
           /\ Meanings(c) = {hour}
           /\ Showing(zone, DayOf(Local(zone, result.starts_at)), hour)
                = {result.starts_at}
    /\ result.reason = "ambiguous_hour" => Cardinality(Meanings(c)) > 1
    /\ result.reason = "invalid_time" => Meanings(c) = {}

\* A weekday means its next occurrence: an earlier instant still ahead that shows
\* that weekday and hour can only be the second passage of a repeated hour.
NearestWeekday ==
  \A c \in text.clocks, d \in Weekdays, u \in Instants :
    /\ result.status = "parsed" /\ ~asked /\ text.dates = {<<"weekday", d>>}
    /\ now < u /\ u < result.starts_at
    /\ Weekday(DayOf(Local(zone, u))) = d
    /\ HourOf(Local(zone, u)) \in Meanings(c)
    => Fold(zone, u) = 1

\* A question about the local time is asked exactly when the calendar has no
\* instant, or two, for the day and hour that were asked for.
QuestionsAreReal ==
  \A c \in text.clocks, word \in text.dates, hour \in 0..23 :
    result.reason \in {"nonexistent_local_time", "ambiguous_local_time"}
      /\ Meanings(c) = {hour} =>
        Cardinality(Showing(zone, DateOf(word, hour, Local(zone, now)), hour))
          = IF result.reason = "nonexistent_local_time" THEN 0 ELSE 2

\* What the parser asks about or refuses is not guessed by the model: only a text
\* without a word of a reminder reaches it, and then nothing the parser found in
\* the text is overridden.
DoubtStaysWithUser == asked => ~text.trigger

\* The notice comes at the instant that was asked for, or at the start when the
\* model names a later one, and otherwise the default time before the start.
NoticeIsNotLate ==
  scheduled # -1 =>
    /\ scheduled <= result.starts_at
    /\ result.notify_at # NoNotice =>
         scheduled = Min({result.notify_at, result.starts_at})

\* A text is read as the calendar and the user's words mean it, what is left open
\* is asked, and the notice follows from what was read.
ReadsAsMeant ==
  /\ NothingGuessed /\ ParsedIsAhead /\ NearestWeekday /\ QuestionsAreReal
  /\ DoubtStaysWithUser
  /\ NoticeIsNotLate
=============================================================================
