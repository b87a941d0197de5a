------------------------------ MODULE GoalReads ------------------------------
(***************************************************************************)
(* The readers of apps/api beside the transactions of GoalStore: GET of a  *)
(* goal (listGoals, getGoal) and GET of Today (loadTodaySnapshot and the   *)
(* prediction over it).  Both take one REPEATABLE READ, READ ONLY          *)
(* transaction: BEGIN, a first SELECT on goal that fixes the snapshot, one *)
(* reading of the clock, the SELECTs on action_log, COMMIT.  Readers take  *)
(* no lock and writers move between any two of these steps.                *)
(*                                                                         *)
(* The list is modelled one goal at a time: its rows share the snapshot    *)
(* and the clock, and no row looks at another.                             *)
(***************************************************************************)
EXTENDS GoalStore

CONSTANTS Readers, NoReply

VARIABLES
  rpc,   \* how far a reader is
  ask,   \* what it asks for
  snap,  \* the committed tables its first SELECT fixed
  at,    \* the clock it read
  reply  \* its last answer

readVars == <<rpc, ask, snap, at, reply>>

Asks == [view : {"goal", "today"}, user : Users, goal : Goals]

NoSnap == [row |-> NoGoal, log |-> NoLogs]

ReadInit ==
  /\ Init
  /\ rpc = [q \in Readers |-> "idle"]
  /\ ask = [q \in Readers |-> NoReply]
  /\ snap = [q \in Readers |-> NoSnap]
  /\ at = [q \in Readers |-> 0]
  /\ reply = [q \in Readers |-> NoReply]

-----------------------------------------------------------------------------
(* What an answer is made of. *)

DoneDays(logs) == {d \in DOMAIN logs : logs[d] = "DONE"}

RecordedDays(logs) == {d \in DOMAIN logs : logs[d] # "UNRECORDED"}

(* observe: the engine refuses a record after today and adds up all others. *)
FutureLogDate(logs, today) == \E d \in RecordedDays(logs) : d > today

(* The SELECTs on action_log in a READ COMMITTED transaction. *)
LatestLogs(q) == log[ask[q].goal]

(* Under REPEATABLE READ they see the snapshot of the first SELECT. *)
SeenLogs(q) == snap[q].log

(* loadGoalReadModels; hasLogs comes with the row, todayStatus and          *)
(* progressDone from their own SELECTs.                                     *)
GoalModel(q, row, today) ==
  [view |-> "goal", today |-> today, start |-> row.start, unitLocked |-> UnitLocked(row),
   hasLogs |-> RecordedDays(snap[q].log) # {}, status |-> SeenLogs(q)[today],
   done |-> {d \in DoneDays(SeenLogs(q)) : d <= today}]

(* A prompt for yesterday that forgets when the goal started. *)
PromptBeforeStart(row, logs, today) == today - 1 \notin RecordedDays(logs)

YesterdayMissing(row, logs, today) ==
  today - 1 >= row.start /\ today - 1 \notin RecordedDays(logs)

(* buildR11Today and the route: todayLog, yesterdayMissing, progress.done.  *)
TodayModel(q, row, today) ==
  [view |-> "today", today |-> today, start |-> row.start, unitLocked |-> UnitLocked(row),
   missing |-> YesterdayMissing(row, SeenLogs(q), today), status |-> SeenLogs(q)[today],
   done |-> DoneDays(SeenLogs(q))]

-----------------------------------------------------------------------------
ReadBegin(q) ==
  \E a \in Asks :
    /\ rpc[q] = "idle"
    /\ rpc' = [rpc EXCEPT ![q] = "begun"] /\ ask' = [ask EXCEPT ![q] = a]
    /\ reply' = [reply EXCEPT ![q] = NoReply]
    /\ UNCHANGED <<snap, at>>

ReadDone(q, answer) ==
  /\ rpc' = [rpc EXCEPT ![q] = "idle"]
  /\ snap' = [snap EXCEPT ![q] = NoSnap] /\ at' = [at EXCEPT ![q] = 0]
  /\ ask' = [ask EXCEPT ![q] = NoReply] /\ reply' = [reply EXCEPT ![q] = answer]

(* The first SELECT: 404 (or a list without the goal) when it finds no row. *)
ReadSelect(q) ==
  LET g == ask[q].goal IN
  /\ rpc[q] = "begun"
  /\ IF Owned(ask[q].user, g)
     THEN /\ snap' = [snap EXCEPT ![q] = [row |-> goal[g], log |-> log[g]]]
          /\ rpc' = [rpc EXCEPT ![q] = "selected"]
          /\ UNCHANGED <<ask, at, reply>>
     ELSE ReadDone(q, NoReply)

(* The clock read before the snapshot, at BEGIN or while the pool was full. *)
ClockBeforeSelect(q) == \E n \in 0 .. now : at' = [at EXCEPT ![q] = n]

ClockAfterSelect(q) == at' = [at EXCEPT ![q] = now]

ReadClock(q) ==
  /\ rpc[q] = "selected"
  /\ ClockAfterSelect(q)
  /\ rpc' = [rpc EXCEPT ![q] = "clocked"]
  /\ UNCHANGED <<ask, snap, reply>>

(* COMMIT; the engine runs after the connection is back in the pool. *)
ReadAnswer(q) ==
  LET row == snap[q].row
      today == LocalDateIn[at[q]][row.set.tz]
      failed == \/ ~ValidSavedQuestion(row)
                \/ ask[q].view = "today" /\ FutureLogDate(SeenLogs(q), today) IN
  /\ rpc[q] = "clocked"
  /\ ReadDone(q, IF failed THEN [view |-> "failed"]
                 ELSE IF ask[q].view = "goal" THEN GoalModel(q, row, today)
                 ELSE TodayModel(q, row, today))

ReadAbort(q) == rpc[q] # "idle" /\ ReadDone(q, NoReply)

ReadNext ==
  \/ Next /\ UNCHANGED readVars
  \/ \E q \in Readers :
       /\ ReadBegin(q) \/ ReadSelect(q) \/ ReadClock(q) \/ ReadAnswer(q) \/ ReadAbort(q)
       /\ UNCHANGED vars

ReadSpec == ReadInit /\ [][ReadNext]_<<vars, readVars>>

-----------------------------------------------------------------------------
Answered(q, view) == reply[q] # NoReply /\ reply[q].view = view

(* INVALID_SAVED_QUESTION and FUTURE_LOG_DATE (500) stay out of reach of    *)
(* the readers, at every midnight, for every zone a client moved the goal   *)
(* to, whatever is committed between the statements of the reader.          *)
ReadsNeverFail == \A q \in Readers : ~Answered(q, "failed")

(* An answer is one moment of the database: todayStatus and progressDone    *)
(* come from records that hasLogs and unitLocked know of; and both pages,   *)
(* answered from one snapshot and one clock, tell the same progress: the    *)
(* sum of the list, which ends at today, leaves out no record that the      *)
(* engine adds up for Today (goals/store.ts, loadDoneTotals: "equals        *)
(* progress.done of Today").                                                *)
AnswersAreOneMoment ==
  \A q \in Readers :
    /\ Answered(q, "goal") =>
         /\ (reply[q].status # "UNRECORDED" \/ reply[q].done # {}) => reply[q].hasLogs
         /\ reply[q].status = "DONE" <=> reply[q].today \in reply[q].done
    /\ Answered(q, "goal") \/ Answered(q, "today") =>
         (reply[q].done # {} => reply[q].unitLocked)
    /\ rpc[q] = "clocked" =>
         LET row == snap[q].row  today == LocalDateIn[at[q]][row.set.tz] IN
         GoalModel(q, row, today).done = TodayModel(q, row, today).done

(* P-14: Today asks for yesterday only where a PUT for yesterday is still   *)
(* inside the window that putLog grants.                                    *)
PromptCanBeAnswered ==
  \A q \in Readers : Answered(q, "today") /\ reply[q].missing =>
    LogVerdict([start |-> reply[q].start], reply[q].today - 1, reply[q].today) = "saved"

(* An answer of the API is one the page can show and act on: both of these. *)
AnswersAreUsable == ReadsNeverFail /\ PromptCanBeAnswered
=============================================================================
