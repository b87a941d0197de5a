---------------------------- MODULE GoalFieldsMC ----------------------------
(***************************************************************************)
(* What is typed into the fields of GoalFields, and the goals to edit.     *)
(***************************************************************************)
EXTENDS GoalFields

\* Nothing, no number, within an hour, an hour, too large, beyond counting.
MCTexts ==
  [f \in {"total", "session", "initial"} |->
     CASE f = "total"   -> {Blank, Other(2), Number(60), Number(999)}
       [] f = "session" -> {Junk, Number(2), Number(126)}
       [] f = "initial" -> {Number(1)}]

MCRows ==
  {[title |-> "t", unit |-> unit, total |-> 61, session |-> 2, initial |-> 0, zone |-> IF answered THEN "East" ELSE "West",
    target |-> IF answered THEN 1 ELSE NoDate,
    prior |-> IF answered THEN [q \in Questions |-> "LOW"] ELSE NoAnswers,
    logs |-> FALSE, marker |-> FALSE, rev |-> 0] : unit \in {"minutes", "sessions"}, answered \in BOOLEAN}
MCDates == {1, 2}
=============================================================================
