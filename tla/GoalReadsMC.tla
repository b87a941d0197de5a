----------------------------- MODULE GoalReadsMC -----------------------------
(***************************************************************************)
(* Values for the constants of GoalReads: the calendar, bodies and edits   *)
(* of GoalStoreMC in two zones, one writer and one reader.                 *)
(***************************************************************************)
EXTENDS GoalReads, TLC

CONSTANTS East, West

ReadsCalendar == [n \in 0 .. MaxNow |-> [z \in Zones |->
                    IF z = East THEN (n + 1) \div 2 ELSE n \div 2]]

ReadsBody(zone, answers) ==
  [set |-> [title |-> "title", unit |-> "minutes", session |-> 10, initial |-> 0,
            tz |-> zone, target |-> NoDate],
   answers |-> answers]

ReadsBodies == {ReadsBody(East, EmptyAnswers), ReadsBody(West, CHOOSE a \in Answers : a # EmptyAnswers)}

ReadsEdits ==
  LET None == [title |-> Keep, unit |-> Keep, session |-> Keep, initial |-> Keep,
               tz |-> Keep, target |-> Keep, answers |-> Keep] IN
  {[None EXCEPT !.tz = z] : z \in Zones} \cup {[None EXCEPT !.answers = EmptyAnswers]}
=============================================================================
