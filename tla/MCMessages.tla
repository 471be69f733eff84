------------------------------ MODULE MCMessages ------------------------------
(* Model-checking values for MessageFlow.                                     *)
EXTENDS MessageFlow, Integers, TLC

CONSTANTS m1, m2, m3

\* Confidences below, at and above the threshold.
TheConfidences == {64, 65, 66}

\* Two weeks of hours around a change of offset.  It moves at 02:00 local of
\* day 7 (forward, back), at its midnight (back over the end of day 6, forward),
\* or never.
Known(change, before, after) ==
  [known |-> TRUE, change |-> change, before |-> before, after |-> after]
TheZones ==
  {Known(7 * 24 + 2 + 5, -5, -4), Known(7 * 24 + 2 + 4, -4, -5),
   Known(7 * 24 - 2, 2, 1), Known(7 * 24 + 3, -3, -2), Known(7 * 24, -5, -5),
   [known |-> FALSE, change |-> 0, before |-> 0, after |-> 0]}

Special(form) == [form |-> form, hour |-> 0, meridiem |-> "none"]
Clocks ==
  {Special(form) : form \in {"medianoche", "mediodia", "malformed"}}
  \cup [form : {"a las"}, hour : {0, 1, 2, 11, 12, 13, 23, 24},
        meridiem : {"none", "am", "pm"}]
Days == {"hoy", "manana"} \X {0} \cup {"weekday"} \X (0 .. 6)

TheTexts ==
  [trigger : {TRUE}, aware : {TRUE}, relatives : {{}}, clocks : {{c} : c \in Clocks},
   dates : {{d} : d \in Days} \cup {{}, {<<"hoy", 0>>, <<"manana", 0>>}}]
  \cup [trigger : {TRUE}, aware : {TRUE}, relatives : {{}, {0}, {1}, {5}, {30}, {1, 5}},
        clocks : {{}, {Special("medianoche"), Special("mediodia")}},
        dates : {{}, {<<"hoy", 0>>}}]
  \cup [trigger : BOOLEAN, aware : {FALSE}, relatives : {{}},
        clocks : {{}, {Special("mediodia")}}, dates : {{}, {<<"weekday", 1>>}}]

\* Complete answers with instants in any order, and answers that lack something.
TheAnswers ==
  LET Good == [is_reminder |-> TRUE, title |-> TRUE, confident |-> TRUE, aware |-> TRUE,
               starts_at |-> 200, notify_at |-> -1]
  IN  {[Good EXCEPT !.starts_at = s, !.notify_at = n] :
         s \in {2, 200}, n \in {-1, 150, 200, 201}}
      \cup {[Good EXCEPT !.is_reminder = FALSE], [Good EXCEPT !.title = FALSE],
            [Good EXCEPT !.confident = FALSE], [Good EXCEPT !.aware = FALSE],
            [Good EXCEPT !.starts_at = -1]}

\* A few instants long before the change, and the days around it.
TheInstants == {24, 25, 148} \cup 163 .. 177 \cup {191, 192}

ASSUME MessagesAssumption ==
  /\ Parser!CalendarAssumption /\ Parser!ReachAssumption /\ Parser!TextAssumption
  /\ R!ConfidenceAssumption

\* Messages differ only in which one they are.
MessageSymmetry == Permutations({m1, m2, m3})
=============================================================================
