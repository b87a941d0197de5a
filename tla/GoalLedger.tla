----------------------------- MODULE GoalLedger -----------------------------
(***************************************************************************)
(* What apps/api promises of the tables goal, action_log and               *)
(* goal_create_operation (docs/architecture.md D-29, R-02 to R-04, R-11):  *)
(* every accepted request is one step on the committed rows, and a step    *)
(* changes a row only in the way stated here.  There is no transaction, no *)
(* lock and no request in this module; GoalStore implements it.            *)
(***************************************************************************)
EXTENDS GoalRules

CONSTANTS Goals, Keys, NoGoal, NoOp

VARIABLES now, goal, log, op

ledger == <<now, goal, log, op>>

TodayOf(row) == LocalDateIn[now][row.set.tz]

Recorded(g) == {d \in Days : log[g][d] # "UNRECORDED"}

Init ==
  /\ now = 0
  /\ goal = [g \in Goals |-> NoGoal]
  /\ log = [g \in Goals |-> [d \in Days |-> "UNRECORDED"]]
  /\ op = [u \in Users |-> [k \in Keys |-> NoOp]]

Replace(g, row) == row # NoGoal /\ goal' = [goal EXCEPT ![g] = row]

(* A key that was never used makes a goal that has neither history nor      *)
(* records and starts on a day that has come.                               *)
Create(u, k, g) ==
  LET row == goal'[g] IN
  /\ op[u][k] = NoOp /\ goal[g] = NoGoal /\ Recorded(g) = {}
  /\ Replace(g, row)
  /\ row.owner = u /\ ~row.locked /\ row.rev = 0 /\ row.arev = 0
  /\ row.start <= TodayOf(row)
  /\ row.set.target \in Days => row.set.target > row.start
  /\ ValidSavedQuestion(row)
  /\ op' = [op EXCEPT ![u][k] =
              [body |-> [set |-> row.set, answers |-> row.answers], goal |-> g]]
  /\ UNCHANGED <<now, log>>

(* Settings carry their own revision. *)
SettingsStep(old, new) ==
  new.rev = old.rev + (IF new.set = old.set THEN 0 ELSE 1)

(* The answers belong to the unit and the amount they were given for. *)
AnswerStep(old, new) ==
  LET moved == new.set.unit # old.set.unit \/ new.set.session # old.set.session IN
  /\ moved => new.answers = EmptyAnswers
  /\ new.arev = old.arev + (IF moved \/ new.answers # old.answers THEN 1 ELSE 0)
  /\ ValidSavedQuestion(new)

(* Neither counter passes the largest value its column and its clients keep *)
(* exactly: the edit that would need one more is refused.                   *)
CountersFit(new) == new.rev <= MaxRevision /\ new.arev <= MaxAnswerRevision

(* What the records rest on stays once there are some. *)
BasisStep(g, old, new) ==
  /\ old.locked \/ old.set.initial > 0 => new.set.unit = old.set.unit
  /\ Recorded(g) # {} => new.set.tz = old.set.tz /\ new.set.initial = old.set.initial

Edit(g) ==
  LET old == goal[g]  new == goal'[g] IN
  /\ old # NoGoal /\ Replace(g, new)
  /\ new.owner = old.owner /\ new.start = old.start /\ new.locked = old.locked
  /\ SettingsStep(old, new) /\ AnswerStep(old, new) /\ CountersFit(new)
  /\ BasisStep(g, old, new)
  /\ UNCHANGED <<now, log, op>>

(* A record never lies in the future or before its goal. *)
Record(g, d, status) ==
  LET old == goal[g] IN
  /\ old # NoGoal /\ old.start <= d /\ d <= TodayOf(old)
  /\ log' = [log EXCEPT ![g][d] = status]
  /\ Replace(g, [old EXCEPT !.locked = old.locked \/ status = "DONE"])
  /\ UNCHANGED <<now, op>>

(* The key of a deleted goal stays used. *)
Remove(g) ==
  /\ goal[g] # NoGoal
  /\ goal' = [goal EXCEPT ![g] = NoGoal]
  /\ log' = [log EXCEPT ![g] = [d \in Days |-> "UNRECORDED"]]
  /\ op' = [u \in Users |-> [k \in Keys |->
              IF op[u][k] # NoOp /\ op[u][k].goal = g
              THEN [op[u][k] EXCEPT !.goal = NoGoal] ELSE op[u][k]]]
  /\ now' = now

Pass == now < MaxNow /\ now' = now + 1 /\ UNCHANGED <<goal, log, op>>

Next ==
  \/ Pass
  \/ \E g \in Goals :
       \/ Edit(g) \/ Remove(g)
       \/ \E u \in Users, k \in Keys : Create(u, k, g)
       \/ \E d \in Days, status \in {"DONE", "SKIPPED"} : Record(g, d, status)

Spec == Init /\ [][Next]_ledger
=============================================================================
