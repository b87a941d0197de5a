------------------------------- MODULE ReadsMC ------------------------------
(***************************************************************************)
(* Values of the constants of Forecast, and the run of all that is read of *)
(* a goal. A behaviour either reads goals and Today beside the writers     *)
(* (GoalReads), or asks after the forecast of a goal, from all records and *)
(* answers, or keeps forecasts and looks at what becomes of them. The      *)
(* parts share no state; the ones not looked at stand still.               *)
(***************************************************************************)
EXTENDS Forecast, GoalReadsMC

CONSTANTS AskDays, KeepDays

VARIABLE focus

Day(y, m, d) == [y |-> y, m |-> m, d |-> d]

\* A leap day, a century without one, the end of a year.
MCCalendars ==
    {<<Day(2024, 2, 27), Day(2024, 2, 28), Day(2024, 2, 29), Day(2024, 3, 1), Day(2024, 3, 2),
       Day(2024, 3, 3)>>,
     <<Day(2100, 2, 27), Day(2100, 2, 28), Day(2100, 3, 1), Day(2100, 3, 2)>>,
     <<Day(2026, 12, 30), Day(2026, 12, 31), Day(2027, 1, 1), Day(2027, 1, 2)>>}

MCOpenings == {[initial |-> 0, total |-> 4, session |-> 1], [initial |-> 1, total |-> 7, session |-> 2],
               [initial |-> 0, total |-> 2, session |-> 1]}
MCTotals == {3}

MCNoises == {[d \in 0 .. Horizon |-> IF d % 2 = 0 THEN by ELSE -by] : by \in {-1, 1}}
MCDraws == {<<[a |-> 7, b |-> 7]>>, <<[a |-> 6, b |-> 1], [a |-> 2, b |-> 5]>>}

AskInit ==
    /\ settings.total > 2 /\ (settings.session = 2 => Len(calendar) = KeepDays)
    /\ answers.a \in {"LOW", "HIGH", "NONE"} /\ answers.b \in {"LOW", "NONE"}

KeepInit ==
    /\ Len(calendar) = KeepDays /\ settings.total = 2
    /\ answers.a = "HIGH" /\ answers.b = "HIGH"

MCInit ==
    /\ ForecastInit
    /\ ReadInit
    /\ \/ focus = "ask" /\ AskInit
       \/ focus = "keep" /\ KeepInit
       \/ focus = "read" /\ KeepInit

MCNext ==
    /\ UNCHANGED focus
    /\ \/ /\ UNCHANGED <<vars, readVars>>
          /\ \/ NextDay /\ focus # "read"
                /\ today < (IF focus = "ask" THEN AskDays ELSE KeepDays)
             \/ focus # "read" /\ \E day \in 1 .. Len(calendar), amount \in SKIPPED .. MaxAmount :
                    Record(day, amount) /\ (focus = "keep" => amount < MaxAmount)
             \/ focus = "keep" /\ answers.revision = 1 /\ \E total \in Totals : Edit(total)
             \/ focus = "keep" /\ settings.revision = 1 /\ Reanswer("LOW", "NONE")
             \/ focus = "ask" /\ \E noise \in Noises, samples \in Draws : Ask(noise, samples)
             \/ focus = "keep" /\ today <= KeepDays - 4 /\ Capture
       \/ focus = "read" /\ ReadNext /\ UNCHANGED forecastVars

MCSpec == MCInit /\ [][MCNext]_<<vars, readVars, forecastVars, focus>>

=============================================================================
