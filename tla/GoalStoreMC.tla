----------------------------- MODULE GoalStoreMC -----------------------------
(***************************************************************************)
(* Values for the constants of GoalStore.  East is one instant ahead of    *)
(* West and a day lasts two instants, so that the two zones disagree about *)
(* the date every other instant.                                           *)
(***************************************************************************)
EXTENDS GoalStore, TLC

CONSTANTS East, West, a1, a2

MCLocalDateIn == [n \in 0 .. MaxNow |-> [z \in Zones |->
                    IF z = East THEN (n + 1) \div 2 ELSE n \div 2]]

Set(unit, session, initial, tz, target) ==
  [title |-> CHOOSE t \in Titles : TRUE, unit |-> unit, session |-> session,
   initial |-> initial, tz |-> tz, target |-> target]

Body(unit, tz, target, answers) ==
  [set |-> Set(unit, 10, 0, tz, target), answers |-> answers]

NoChange == [title |-> Keep, unit |-> Keep, session |-> Keep, initial |-> Keep,
             tz |-> Keep, target |-> Keep, answers |-> Keep]

(* Creation: bodies that differ in the answers and in the target date. *)
CreateBodies == {Body("minutes", East, NoDate, EmptyAnswers),
                 Body("minutes", East, 1, EmptyAnswers)}

AnsweredBody == {Body("minutes", East, NoDate, a1)}

(* Editing: unit, zone, target date, answers and their withdrawal. *)
RecordEdits ==
  {[NoChange EXCEPT !.unit = "sessions"], [NoChange EXCEPT !.tz = West],
   [NoChange EXCEPT !.target = 1]} \cup {[NoChange EXCEPT !.answers = a] : a \in Answers}

OneEdit == {[NoChange EXCEPT !.title = t] : t \in Titles}

Slots == Permutations(Reqs)
=============================================================================
