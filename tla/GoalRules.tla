------------------------------ MODULE GoalRules ------------------------------
(***************************************************************************)
(* The decisions the goal store takes on one row of the table goal, as     *)
(* operators without state: the calendar day of a goal, the checks of a    *)
(* PATCH in the order the code makes them, the row an accepted PATCH       *)
(* writes, and the window in which a day may be recorded.                  *)
(*                                                                         *)
(* title stands for the two settings no other rule looks at (title and     *)
(* totalRequired).  The amount of a DONE record is abstracted away: the    *)
(* properties ask in which unit it was entered, not how much it is.        *)
(***************************************************************************)
EXTENDS Integers

CONSTANTS
  Users,        \* accounts; every goal and every ledger row has an owner
  Titles,       \* title and totalRequired, taken together
  Units,        \* minutes / sessions
  Sessions,     \* sessionAmount
  Initials,     \* initialProgress, a finite set of naturals
  Zones,        \* IANA time zones
  Answers,      \* values of questionPrior, both questions together
  EmptyAnswers, \* both questions null
  NoDate,       \* targetDate = null
  Keep,         \* a field a PATCH leaves out
  NoSnapshot,   \* question_prior_snapshot = null
  MaxRevision,  \* largest goal_settings_revision (2147483647 in the code)
  MaxAnswerRevision, \* largest answer_revision (2^53 - 1 in the code)
  MaxNow,       \* bound of the model: last instant of the clock
  LastDay,      \* bound of the model: last calendar day
  LocalDateIn   \* [0..MaxNow -> [Zones -> Days]], the calendar of every zone

Instants == 0 .. MaxNow
Days == 0 .. LastDay

ASSUME RulesAssumption ==
  /\ MaxRevision \in Nat /\ MaxAnswerRevision \in Nat
  /\ MaxNow \in Nat /\ LastDay \in Nat
  /\ Initials \subseteq Nat
  /\ EmptyAnswers \in Answers
  /\ Keep \notin Titles /\ Keep \notin Units /\ Keep \notin Sessions
  /\ Keep \notin Zones /\ Keep \notin Answers /\ Keep \notin Int /\ Keep # NoDate
  /\ NoDate \notin Int

(* The date of a zone never goes back while the clock goes forward. *)
ASSUME CalendarAssumption ==
  /\ LocalDateIn \in [Instants -> [Zones -> Days]]
  /\ \A z \in Zones : \A m, n \in Instants :
        m <= n => LocalDateIn[m][z] <= LocalDateIn[n][z]

-----------------------------------------------------------------------------
(* Rows of the table goal, bodies of POST and PATCH. *)

Settings == [title : Titles, unit : Units, session : Sessions,
             initial : Initials, tz : Zones, target : Days \cup {NoDate}]

Contexts == [unit : Units, session : Sessions, start : Days]

Snapshots == [answers : Answers, context : Contexts]

Rows == [owner : Users, set : Settings, start : Days, locked : BOOLEAN, rev : 0 .. MaxRevision,
         answers : Answers, arev : 0 .. MaxAnswerRevision,
         snapshot : Snapshots \cup {NoSnapshot}]

Bodies == [set : Settings, answers : Answers]

Changes == [title : Titles \cup {Keep}, unit : Units \cup {Keep},
            session : Sessions \cup {Keep}, initial : Initials \cup {Keep},
            tz : Zones \cup {Keep}, target : Days \cup {NoDate, Keep},
            answers : Answers \cup {Keep}]

Patched(new, old) == IF new = Keep THEN old ELSE new

Touches(new, old) == new # Keep /\ new # old

-----------------------------------------------------------------------------
(* Questions (questions/snapshot.ts, questions/update-policy.ts). *)

ContextOf(set, start) == [unit |-> set.unit, session |-> set.session, start |-> start]

MakeQuestionSnapshot(answers, context) ==
  IF answers = EmptyAnswers THEN NoSnapshot
  ELSE [answers |-> answers, context |-> context]

(* What validateSavedQuestion accepts; anything else is a 500. *)
ValidSavedQuestion(row) ==
  row.snapshot = MakeQuestionSnapshot(row.answers, ContextOf(row.set, row.start))

QuestionContextChanged(set, c) ==
  Touches(c.unit, set.unit) \/ Touches(c.session, set.session)

NextAnswers(row, c) ==
  IF QuestionContextChanged(row.set, c) THEN EmptyAnswers
  ELSE Patched(c.answers, row.answers)

(* A slip that never counts a withdrawal as a change. *)
WithdrawalIsNoChange(row, c) == NextAnswers(row, c) \notin {row.answers, EmptyAnswers}

QuestionAnswersChanged(row, c) ==
  QuestionContextChanged(row.set, c) \/ NextAnswers(row, c) # row.answers

(* A slip that keeps the saved prior when the unit or the amount changes. *)
SnapshotKeptAcrossContexts(row, c) ==
  IF NextAnswers(row, c) = row.answers \/ NextAnswers(row, c) = EmptyAnswers
  THEN row.snapshot
  ELSE MakeQuestionSnapshot(NextAnswers(row, c), ContextOf(row.set, row.start))

NextSnapshot(row, c) ==
  IF QuestionContextChanged(row.set, c) THEN NoSnapshot
  ELSE IF NextAnswers(row, c) # row.answers
  THEN MakeQuestionSnapshot(NextAnswers(row, c), ContextOf(row.set, row.start))
  ELSE row.snapshot

-----------------------------------------------------------------------------
(* Settings (goals/settings-policy.ts, goals/target-date-policy.ts). *)

(* targetDate must lie after today; null and an omitted date always pass. *)
TargetDateAccepted(target, today) == target \in Days => target > today

(* A slip that compares every setting but the target date. *)
SameButForTarget(set, c) ==
  /\ ~Touches(c.title, set.title) /\ ~Touches(c.unit, set.unit)
  /\ ~Touches(c.session, set.session) /\ ~Touches(c.initial, set.initial)
  /\ ~Touches(c.tz, set.tz)

SameGoalSettings(set, c) ==
  /\ ~Touches(c.title, set.title) /\ ~Touches(c.unit, set.unit)
  /\ ~Touches(c.session, set.session) /\ ~Touches(c.initial, set.initial)
  /\ ~Touches(c.tz, set.tz) /\ ~Touches(c.target, set.target)

PatchedSettings(set, c) ==
  [title |-> Patched(c.title, set.title), unit |-> Patched(c.unit, set.unit),
   session |-> Patched(c.session, set.session),
   initial |-> Patched(c.initial, set.initial), tz |-> Patched(c.tz, set.tz),
   target |-> Patched(c.target, set.target)]

(* unitLocked of the Goal DTO and of the guard of a PATCH. *)
UnitLocked(row) == row.locked \/ row.set.initial > 0

-----------------------------------------------------------------------------
(* updateGoal: p is the body, row the locked row, today the day in the      *)
(* zone the goal would have, hasLogs what the EXISTS after the lock found.   *)

QuestionTokenMisused(p) ==
  \/ p.change.answers # Keep /\ p.arev = Keep
  \/ p.arev # Keep /\ p.change.answers = Keep /\ p.change.unit = Keep /\ p.change.session = Keep

(* R-02: with a record, the zone and the initial amount stay as they are. *)
R02Violated(row, c, hasLogs) ==
  hasLogs /\ (Touches(c.tz, row.set.tz) \/ Touches(c.initial, row.set.initial))

(* A slip that refuses one revision too late. *)
OneRevisionTooMany(row, c) == ~SameGoalSettings(row.set, c) /\ row.rev > MaxRevision

RevisionExhausted(row, c) == ~SameGoalSettings(row.set, c) /\ row.rev = MaxRevision

PatchVerdict(row, p, today, hasLogs) ==
  LET c == p.change IN
  IF p.rev # row.rev THEN "settings_conflict"
  ELSE IF UnitLocked(row) /\ Touches(c.unit, row.set.unit) THEN "unit_locked"
  ELSE IF ~TargetDateAccepted(c.target, today) THEN "invalid_fields"
  ELSE IF ~ValidSavedQuestion(row) THEN "failed"
  ELSE IF QuestionTokenMisused(p) THEN "invalid_question_patch"
  ELSE IF p.arev \notin {Keep, row.arev} THEN "answer_conflict"
  ELSE IF QuestionContextChanged(row.set, c) /\ c.answers \notin {Keep, EmptyAnswers}
    THEN "invalid_question_patch"
  ELSE IF QuestionAnswersChanged(row, c) /\ row.arev = MaxAnswerRevision THEN "failed"
  ELSE IF R02Violated(row, c, hasLogs) THEN "locked"
  ELSE IF RevisionExhausted(row, c) THEN "revision_exhausted"
  ELSE "updated"

PatchedRow(row, c) ==
  [owner |-> row.owner, set |-> PatchedSettings(row.set, c), start |-> row.start, locked |-> row.locked,
   rev |-> row.rev + (IF SameGoalSettings(row.set, c) THEN 0 ELSE 1),
   answers |-> NextAnswers(row, c),
   arev |-> row.arev + (IF QuestionAnswersChanged(row, c) THEN 1 ELSE 0),
   snapshot |-> NextSnapshot(row, c)]

-----------------------------------------------------------------------------
(* createGoalOnce: the row a new goal starts from. *)

NewRow(user, body, today) ==
  [owner |-> user, set |-> body.set, start |-> today, locked |-> FALSE, rev |-> 0,
   answers |-> body.answers, arev |-> 0,
   snapshot |-> MakeQuestionSnapshot(body.answers, ContextOf(body.set, today))]

-----------------------------------------------------------------------------
(* putLog: today and yesterday of the goal, not before the start date. *)

WindowWithTomorrow(row, date, today) ==
  IF date \notin {today, today + 1} THEN "out_of_window"
  ELSE IF date < row.start THEN "before_start"
  ELSE "saved"

LogVerdict(row, date, today) ==
  IF date \notin {today, today - 1} THEN "out_of_window"
  ELSE IF date < row.start THEN "before_start"
  ELSE "saved"
=============================================================================
