------------------------------ MODULE GoalFields ------------------------------
(***************************************************************************)
(* The fields of a goal's form: what a user types, how an amount of time   *)
(* is shown in hours and minutes or in minutes, what is checked before     *)
(* sending, the body that is sent, and what the API's schema and policies  *)
(* say of it.  How saves, checks of the session and lost answers follow    *)
(* each other is in CreateForm and EditForm; here a save is one step.      *)
(*                                                                         *)
(* A text is a number as the program writes it, a number written another   *)
(* way (leading zeros, full-width digits, commas), nothing, or something   *)
(* else.  The input of an amount is one text or, with the prefix "@hm:",   *)
(* two texts.  Dates are days; no date is NoDate.  The check of the time   *)
(* zone's name is left out: the list offers only names that are known.     *)
(***************************************************************************)
EXTENDS Integers

CONSTANTS
  Nothing,
  MaxAmount,        \* INT4_MAX
  MaxNumber,        \* Number.MAX_SAFE_INTEGER
  TypedTexts,       \* bound of the model: what is typed, [amount field -> texts]
  StoredRows,       \* bound of the model: goals an edit may start from
  TypedDates,       \* bound of the model: what is picked as a date
  MaxTyped,         \* bound of the model: changes the user makes
  MaxChanges,       \* bound of the model: changes from elsewhere
  LastInstant       \* bound of the model: end of the clock

Texts == [as : {"number", "other", "blank", "junk"}, n : Nat]
Units == {"minutes", "sessions"}

GoalFieldNames ==
  {"title", "unit", "total", "session", "initial", "zone", "target", "prior",
   "logs", "marker", "rev"}

\* What the database lets a row be.
IsGoal(g) ==
  /\ DOMAIN g = GoalFieldNames
  /\ g.unit \in Units
  /\ g.total \in 1 .. MaxAmount /\ g.session \in 1 .. MaxAmount /\ g.initial \in 0 .. MaxAmount

ASSUME FieldsAssumption ==
  /\ MaxAmount \in Nat /\ MaxNumber \in Nat /\ MaxAmount <= MaxNumber
  /\ \A f \in {"total", "session", "initial"} : TypedTexts[f] \subseteq Texts
  /\ \A g \in StoredRows : IsGoal(g)

VARIABLES
  mode,       \* "create" or "edit"
  clock,
  row,        \* the goal on the server, or Nothing
  goal,       \* the goal as it was fetched last
  baseline,   \* the goal the form is compared with
  values,     \* FormValues
  display,    \* how the two amounts of time are shown: "parts" or "minutes"
  chosen,     \* the questions something was chosen for
  attempt,    \* the body of a creation whose outcome is unknown, or Nothing
  conflict,   \* the last save was refused as one of an old revision
  typed, changes

server == <<row, goal, baseline>>
fields == <<values, display, chosen, attempt, conflict>>
fieldVars == <<mode, clock, server, fields, typed, changes>>

Zones == {"East", "West"}
Questions == {"a", "b"}
NoDate == -1
NoAnswers == [q \in Questions |-> "null"]

\* localDateIn: a day has two instants, and the East is one ahead.
Today(zone) == (clock + (IF zone = "East" THEN 1 ELSE 0)) \div 2

-----------------------------------------------------------------------------
(* Texts and amounts.                                                      *)

Null == -1
Infinity == MaxNumber + 1

Number(n) == [as |-> "number", n |-> n]
Other(n) == [as |-> "other", n |-> n]
Blank == [as |-> "blank", n |-> 0]
Junk == [as |-> "junk", n |-> 0]

Whole(text) == [whole |-> text]
Parts(h, m) == [h |-> h, m |-> m]
IsParts(raw) == "h" \in DOMAIN raw

\* String(amount); the texts of null and of infinity are no numbers.
Written(n) == IF n \in 0 .. MaxNumber THEN Number(n) ELSE Junk

ParseInteger(text) ==
  IF text.as \notin {"number", "other"} THEN Null
  ELSE IF text.n > MaxNumber THEN Infinity ELSE text.n

ParseGoalAmount(raw) ==
  IF ~IsParts(raw) THEN ParseInteger(raw.whole)
  ELSE LET h == ParseInteger(raw.h)
           m == ParseInteger(raw.m)
       IN IF h = Null \/ m = Null \/ m > 59 THEN Null
          ELSE IF h * 60 + m > MaxNumber THEN Infinity ELSE h * 60 + m

Finite(n) == n \in 0 .. MaxNumber

\* What a body is given of an input that was not checked.
Int0(raw) == IF ParseGoalAmount(raw) = Null THEN 0 ELSE ParseGoalAmount(raw)

TimeParts(raw) ==
  LET n == ParseGoalAmount(raw)
  IN IF IsParts(raw) THEN raw
     ELSE IF Finite(n) THEN Parts(Number(n \div 60), Number(n % 60))
     ELSE Parts(raw.whole, Number(0))

-----------------------------------------------------------------------------
(* The values of a form and what they are made of.                         *)

EmptyValues ==
  [title |-> "", unit |-> "minutes", total |-> Whole(Blank), session |-> Whole(Blank),
   initial |-> Whole(Number(0)), zone |-> "West", target |-> NoDate, prior |-> NoAnswers]

\* A draft of this visit that has been restored.
FilledValues ==
  [EmptyValues EXCEPT !.title = "t", !.total = Parts(Number(1), Number(1)),
                      !.session = Whole(Number(2)), !.target = 1]

\* valuesFromGoal and valuesFromCreateBody
ValuesFrom(g) ==
  [title |-> g.title, unit |-> g.unit, total |-> Whole(Number(g.total)),
   session |-> Whole(Number(g.session)), initial |-> Whole(Number(g.initial)),
   zone |-> g.zone, target |-> g.target, prior |-> g.prior]

UnitLocked(g) == g.marker \/ g.initial > 0

ChangesAnswerContext(v, g) == v.unit # g.unit \/ Int0(v.session) # g.session

AnswersLocked == mode = "edit" /\ ChangesAnswerContext(values, baseline)

InitialChosen(g) == [q \in Questions |-> mode = "edit" /\ g.prior[q] # "null"]

-----------------------------------------------------------------------------
(* The checks before a save.                                               *)

(* Mutant: hours and minutes are let through whatever the unit.            *)
AmountErrorInAnyUnit(raw, minimum, allowTime) ==
  ParseGoalAmount(raw) \notin minimum .. MaxAmount

AmountError(raw, minimum, allowTime) ==
  LET value == IF allowTime THEN ParseGoalAmount(raw)
               ELSE IF IsParts(raw) THEN Null ELSE ParseInteger(raw.whole)
  IN value \notin minimum .. MaxAmount

(* Mutant: a date that was saved once is checked like a new one.           *)
SavedDateForgotten == NoDate

\* targetDateChecks: a date that is saved already, or that an earlier attempt
\* has sent, is not checked again.
SavedDate == IF mode = "edit" THEN baseline.target
             ELSE IF attempt # Nothing THEN attempt.target ELSE NoDate

Locked == mode = "edit" /\ goal.logs

DateAllowed(v) == v.target \in {NoDate, SavedDate} \/ v.target > Today(v.zone)

\* validate and priorChoiceError: the fields that are complained of.
Errors ==
  LET time == values.unit = "minutes"
  IN {f \in DOMAIN values :
        CASE f = "title"   -> values.title = ""
          [] f = "unit"    -> mode = "edit" /\ UnitLocked(goal) /\ values.unit # goal.unit
          [] f = "total"   -> AmountError(values.total, 1, time)
          [] f = "session" -> AmountError(values.session, 1, FALSE)
          [] f = "initial" -> ~Locked /\ AmountError(values.initial, 0, time)
          [] f = "target"  -> ~DateAllowed(values)
          [] f = "prior"   -> ~AnswersLocked /\ \E q \in Questions : ~chosen[q]
          [] OTHER         -> FALSE}

-----------------------------------------------------------------------------
(* What is sent.                                                           *)

ToCreateBody(v) ==
  [title |-> v.title, unit |-> v.unit, total |-> Int0(v.total), session |-> Int0(v.session),
   initial |-> Int0(v.initial), zone |-> v.zone, target |-> v.target, prior |-> v.prior]

(* Mutant: the answers go along with a new unit or amount.                 *)
ToPatchBodyWithAnswers(v) ==
  LET body == ToCreateBody(v)
      sent == {f \in DOMAIN body :
                 body[f] # baseline[f] /\ (f \in {"initial", "zone"} => ~goal.logs)}
  IN [f \in sent |-> body[f]]

\* toPatchBody: what differs from the baseline, as [field -> new value].
ToPatchBody(v) ==
  LET body == ToCreateBody(v)
      sent == {f \in DOMAIN body :
                 /\ body[f] # baseline[f]
                 /\ f \in {"initial", "zone"} => ~goal.logs
                 /\ f = "prior" => ~ChangesAnswerContext(v, baseline)}
  IN [f \in sent |-> body[f]]

\* contracts/goal.ts
InContract(body) ==
  \A f \in DOMAIN body :
     /\ f \in {"total", "session"} => body[f] \in 1 .. MaxAmount
     /\ f = "initial" => body[f] \in 0 .. MaxAmount
     /\ f = "title" => body[f] # ""

PolicyAllowsDate(body, zone) ==
  "target" \in DOMAIN body /\ body.target # NoDate => body.target > Today(zone)

CreateAccepted(body) == InContract(body) /\ PolicyAllowsDate(body, body.zone)

\* Of updateGoal's checks of the answers, the one that the form can run into:
\* no answers beside a new unit or amount.  The revision of the answers that
\* is sent with them is in EditForm, the end of the counters in GoalRules.
PatchAccepted(body) ==
  /\ InContract(body)
  /\ "unit" \in DOMAIN body => ~UnitLocked(row)
  /\ row.logs => DOMAIN body \cap {"initial", "zone"} = {}
  /\ "prior" \in DOMAIN body /\ body.prior # NoAnswers => DOMAIN body \cap {"unit", "session"} = {}
  /\ PolicyAllowsDate(body, IF "zone" \in DOMAIN body THEN body.zone ELSE row.zone)

\* The row after a PATCH.
Patched(g, body) ==
  LET withdrawn == DOMAIN body \cap {"unit", "session"} # {}
  IN [f \in DOMAIN g |->
        IF f \in DOMAIN body THEN body[f]
        ELSE IF f = "prior" /\ withdrawn THEN NoAnswers
        ELSE IF f = "rev" /\ DOMAIN body # {} THEN g.rev + 1
        ELSE g[f]]

-----------------------------------------------------------------------------
Opened(g) ==
  /\ goal' = g /\ baseline' = g /\ values' = ValuesFrom(g)
  /\ display' = [total |-> "parts", initial |-> "parts"]
  /\ chosen' = InitialChosen(g) /\ attempt' = Nothing /\ conflict' = FALSE

FieldsInit ==
  /\ clock = 0 /\ typed = 0 /\ changes = 0
  /\ display = [total |-> "parts", initial |-> "parts"]
  /\ attempt = Nothing /\ conflict = FALSE
  /\ \/ mode = "create" /\ row = Nothing /\ values \in {EmptyValues, FilledValues}
     \/ mode = "edit" /\ row \in StoredRows /\ values = ValuesFrom(row)
  /\ goal = row /\ baseline = row
  /\ chosen = IF mode = "edit" THEN InitialChosen(row)
              ELSE [q \in Questions |-> values # EmptyValues]

\* inputDisabled; a creation that was sent is not edited any more.
User == attempt = Nothing /\ typed < MaxTyped /\ typed' = typed + 1

Entered(v) == values' = v /\ UNCHANGED <<mode, clock, server, attempt, conflict, changes>>

TypeTitle ==
  /\ User
  /\ Entered([values EXCEPT !.title = IF @ = "" THEN "t" ELSE ""])
  /\ UNCHANGED <<display, chosen>>

IsTime(f) == f \in {"total", "initial"} /\ values.unit = "minutes"

\* AmountField, and TimeAmountField in minutes
TypeAmount(f, text) ==
  /\ User
  /\ f = "initial" => ~Locked
  /\ IsTime(f) => display[f] = "minutes"
  /\ Entered([values EXCEPT ![f] = Whole(text)])
  /\ UNCHANGED <<display, chosen>>

TypePart(f, part, text) ==
  /\ User
  /\ f = "initial" => ~Locked
  /\ IsTime(f) /\ display[f] = "parts"
  /\ Entered([values EXCEPT ![f] = [TimeParts(values[f]) EXCEPT ![part] = text]])
  /\ UNCHANGED <<display, chosen>>

\* The two ways to show an amount of time.
SwitchDisplay(f, to) ==
  /\ User
  /\ f = "initial" => ~Locked
  /\ IsTime(f) /\ display[f] # to
  /\ values[f] = Whole(Blank) \/ Finite(ParseGoalAmount(values[f]))
  /\ Entered(IF values[f] = Whole(Blank) THEN values
           ELSE [values EXCEPT ![f] = Whole(Written(ParseGoalAmount(values[f])))])
  /\ display' = [display EXCEPT ![f] = to]
  /\ UNCHANGED chosen

IncompleteTime ==
  /\ values.unit = "minutes"
  /\ \E f \in {"total", "initial"} :
        IsParts(values[f]) /\ ~Finite(ParseGoalAmount(values[f]))

ShownAs(unit) == IF unit = values.unit THEN display ELSE [total |-> "parts", initial |-> "parts"]

SwitchUnit(unit) ==
  /\ User
  /\ unit # values.unit
  /\ ~IncompleteTime
  /\ mode = "edit" => ~UnitLocked(goal)
  /\ LET Kept(raw) == IF IsParts(raw) THEN Whole(Written(ParseGoalAmount(raw))) ELSE raw
     IN Entered([values EXCEPT !.unit = unit, !.total = Kept(@), !.initial = Kept(@)])
  /\ display' = ShownAs(unit)
  /\ UNCHANGED chosen

\* restoreSavedUnit, which is offered beside a lock
RestoreUnit ==
  /\ User
  /\ mode = "edit" /\ UnitLocked(goal) /\ values.unit # goal.unit
  /\ Entered([values EXCEPT !.unit = goal.unit])
  /\ display' = ShownAs(goal.unit)
  /\ UNCHANGED chosen

Choose(q, answer) ==
  /\ User
  /\ ~AnswersLocked
  /\ chosen' = [chosen EXCEPT ![q] = TRUE]
  /\ Entered([values EXCEPT !.prior[q] = answer])
  /\ UNCHANGED display

PickDate(date) ==
  /\ User
  /\ Entered([values EXCEPT !.target = date])
  /\ UNCHANGED <<display, chosen>>

PickZone(zone) ==
  /\ User
  /\ ~Locked
  /\ Entered([values EXCEPT !.zone = zone])
  /\ UNCHANGED <<display, chosen>>

-----------------------------------------------------------------------------
(* Saving.                                                                 *)

\* The body is kept until the outcome is known.
SaveNew ==
  /\ mode = "create" /\ Errors = {} /\ attempt = Nothing
  /\ attempt' = ToCreateBody(values)
  /\ UNCHANGED <<mode, clock, server, values, display, chosen, conflict, typed, changes>>

\* The API has refused it: it may be corrected.
Rejected ==
  /\ mode = "create" /\ attempt # Nothing /\ ~CreateAccepted(attempt)
  /\ attempt' = Nothing
  /\ UNCHANGED <<mode, clock, server, values, display, chosen, conflict, typed, changes>>

\* The outcome is unknown and the page is opened again.
Recover ==
  /\ mode = "create" /\ attempt # Nothing
  /\ values' = ValuesFrom(attempt)
  /\ display' = [total |-> "parts", initial |-> "parts"]
  /\ chosen' = [q \in Questions |-> TRUE]
  /\ UNCHANGED <<mode, clock, server, attempt, conflict, typed, changes>>

SaveEdit ==
  LET body == ToPatchBody(values)
  IN /\ mode = "edit" /\ Errors = {} /\ ~conflict
     /\ IF DOMAIN body # {} /\ baseline.rev # row.rev
        THEN conflict' = TRUE /\ UNCHANGED <<row, goal, baseline, values, display, chosen, attempt>>
        ELSE /\ PatchAccepted(body)
             /\ row' = Patched(row, body)
             /\ Opened(row')
     /\ UNCHANGED <<mode, clock, typed, changes>>

\* rebaseValues: what was changed stays; hours and minutes become a number
\* when the unit is no longer one of time.
Rebased(v, before, latest) ==
  LET was == ValuesFrom(before)
      now == ValuesFrom(latest)
      amounts == {"total", "session", "initial"}
      edited(f) == IF f \in amounts THEN ParseGoalAmount(v[f]) # before[f] ELSE v[f] # was[f]
      picked == [f \in DOMAIN v |-> IF edited(f) THEN v[f] ELSE now[f]]
      Amount(raw) == IF picked.unit = "sessions" /\ IsParts(raw) /\ Finite(ParseGoalAmount(raw))
                     THEN Whole(Written(ParseGoalAmount(raw))) ELSE raw
  IN [picked EXCEPT !.total = Amount(@), !.initial = Amount(@)]

ReloadLatest ==
  /\ conflict
  /\ values' = Rebased(values, baseline, row)
  /\ display' = ShownAs(values'.unit)
  /\ baseline' = row /\ goal' = row
  /\ conflict' = FALSE
  /\ UNCHANGED <<mode, clock, row, chosen, attempt, typed, changes>>

Refetch ==
  /\ goal # row
  /\ goal' = row
  /\ UNCHANGED <<mode, clock, row, baseline, fields, typed, changes>>

-----------------------------------------------------------------------------
(* Elsewhere.                                                              *)

Elsewhere == mode = "edit" /\ changes < MaxChanges /\ changes' = changes + 1

EditElsewhere ==
  /\ Elsewhere
  /\ \E f \in {"unit", "total", "target"} :
        LET new == CASE f = "unit" -> IF row.unit = "minutes" THEN "sessions" ELSE "minutes"
                     [] f = "total" -> 62
                     [] f = "target" -> 2
        IN /\ PatchAccepted([g \in {f} |-> new])
           /\ row' = Patched(row, [g \in {f} |-> new])
  /\ UNCHANGED <<mode, clock, goal, baseline, fields, typed>>

RecordElsewhere ==
  /\ Elsewhere
  /\ \E done \in BOOLEAN : row' = [row EXCEPT !.logs = TRUE, !.marker = @ \/ done]
  /\ UNCHANGED <<mode, clock, goal, baseline, fields, typed>>

Tick ==
  /\ clock < LastInstant
  /\ clock' = clock + 1
  /\ UNCHANGED <<mode, server, fields, typed, changes>>

FieldsNext ==
  \/ TypeTitle
  \/ \E f \in {"total", "session", "initial"} : \E text \in TypedTexts[f] : TypeAmount(f, text)
  \/ \E f \in {"total", "initial"}, part \in {"h", "m"} : \E text \in TypedTexts[f] :
        TypePart(f, part, text)
  \/ \E f \in {"total", "initial"}, to \in {"parts", "minutes"} : SwitchDisplay(f, to)
  \/ \E unit \in Units : SwitchUnit(unit)
  \/ RestoreUnit
  \/ \E q \in Questions, answer \in {"null", "LOW"} : Choose(q, answer)
  \/ \E date \in TypedDates \cup {NoDate} : PickDate(date)
  \/ \E zone \in Zones : PickZone(zone)
  \/ SaveNew \/ Rejected \/ Recover \/ SaveEdit \/ ReloadLatest \/ Refetch
  \/ EditElsewhere \/ RecordElsewhere \/ Tick

FieldsSpec == FieldsInit /\ [][FieldsNext]_fieldVars

-----------------------------------------------------------------------------
(* What an input shows: hours and minutes, or one number, or no number.     *)
ShownAmount(f) ==
  IF IsTime(f) /\ display[f] = "parts"
  THEN LET p == TimeParts(values[f])
           h == ParseInteger(p.h)
           m == ParseInteger(p.m)
       IN IF h = Null \/ m = Null THEN Null ELSE 60 * h + m
  ELSE IF IsParts(values[f]) THEN Null ELSE ParseInteger(values[f].whole)

(* Whatever was typed, switched, chosen, recovered or read again: a form    *)
(* that may be saved sends the amounts its inputs show, in the unit it      *)
(* shows, and leaves the goal with them (toCreateBody, toPatchBody); an     *)
(* attempt that is sent again is the one that is shown (createRecovery).    *)
ShownIsSent ==
  Errors = {} /\ ~conflict =>
    \A f \in {"total", "session", "initial"} :
      LET body == IF mode = "edit" THEN Patched(baseline, ToPatchBody(values))
                  ELSE IF attempt # Nothing THEN attempt ELSE ToCreateBody(values)
      IN ~(f = "initial" /\ Locked) =>
           body[f] = ShownAmount(f) /\ body.unit = values.unit

\* A zone that was picked before the goal had a record stays in the form after
\* a reload; it is not sent, but the form checks the date by it.
LeftoverZone == row.logs /\ values.zone # row.zone

(* The checks of the form are those of the API (goal-form.ts: the same      *)
(* scope as the contract): what is sent of a form without complaint and     *)
(* with the current goal is accepted in that moment, unless a zone that is  *)
(* not sent was left in the form, and a creation whose outcome is unknown   *)
(* is never stopped from being sent again, although its target date has     *)
(* come (recoveryBody).                                                     *)
FormsAgreeWithTheServer ==
  /\ Errors = {} =>
       IF mode = "edit"
       THEN goal = row /\ baseline = row /\ ~LeftoverZone => PatchAccepted(ToPatchBody(values))
       ELSE attempt = Nothing => CreateAccepted(ToCreateBody(values))
  /\ attempt # Nothing => Errors = {}

(* GoalFormFields.tsx:79 says of the switch of the unit that an unfinished  *)
(* input which is no amount is not lost by it.                              *)
SwitchesKeepUnfinishedInput ==
  [][\A unit \in Units : SwitchUnit(unit) =>
       \A f \in {"total", "initial"} :
          ParseGoalAmount(values[f]) = Null => values'[f] = values[f]]_fieldVars
=============================================================================
