------------------------------ MODULE GoalStore ------------------------------
(***************************************************************************)
(* The transactions of apps/api on the tables goal, action_log and         *)
(* goal_create_operation: createGoalOnce, updateGoal, putLog, deleteGoal.  *)
(* Every request runs in a slot r of Reqs, one transaction at a time; the  *)
(* steps of different slots interleave at every statement that waits for a *)
(* lock, reads the clock, reads another table or commits.  goal, log and   *)
(* op hold what is committed.  Who holds a lock follows from pc: a row of  *)
(* goal is locked from SELECT ... FOR UPDATE (or DELETE) to the end of the *)
(* transaction, a row of goal_create_operation from its INSERT or SELECT   *)
(* ... FOR UPDATE to the end.                                              *)
(*                                                                         *)
(* origin, shown and told are history variables: what a request does never *)
(* depends on them, but for the choice of an id that was never drawn.      *)
(***************************************************************************)
EXTENDS GoalRules, FiniteSets

CONSTANTS
  Goals,     \* goal ids gen_random_uuid() may draw
  Keys,      \* idempotency keys
  Reqs,      \* request slots of the API
  Kinds,     \* which operations the requests ask for
  BodySet,   \* the bodies POST requests carry
  EditSet,   \* the changes PATCH requests carry
  NoGoal,    \* no such row / SET NULL
  NoOp,      \* no ledger row for this key
  NoUnit     \* no DONE of this day was ever stored

ASSUME StoreAssumption ==
  /\ BodySet \subseteq Bodies /\ EditSet \subseteq Changes
  /\ NoGoal \notin Goals /\ NoGoal \notin Rows /\ NoUnit \notin Units
  /\ NoOp \notin [body : Bodies, goal : Goals \cup {NoGoal}]

VARIABLES
  now,    \* the clock of the server, an instant
  goal,   \* table goal: id -> row
  log,    \* table action_log: (id, day) -> status
  op,     \* table goal_create_operation: (user, key) -> hash and goal
  pc,     \* how far the transaction of a slot is
  req,    \* the request of a slot
  cur,    \* the row the transaction of a slot works on
  origin, \* history: id -> the create request that made it
  shown,  \* history: (id, day) -> unit its last DONE was entered in
  told    \* history: the answers 201, 200 and 410 given to POST requests

vars == <<now, goal, log, op, pc, req, cur, origin, shown, told>>

Today(z) == LocalDateIn[now][z]

NoLogs == [d \in Days |-> "UNRECORDED"]

Ops == [body : Bodies, goal : Goals \cup {NoGoal}]

Creates == [kind : {"create"}, user : Users, key : Keys, body : Bodies]

(* What the page showed when the user asked. *)
Pages == [set : Settings, answers : Answers]

Patches == [kind : {"patch"}, user : Users, goal : Goals, rev : 0 .. MaxRevision,
            arev : (0 .. MaxAnswerRevision) \cup {Keep}, change : Changes, seen : Pages]

Puts == [kind : {"put"}, user : Users, goal : Goals, rev : 0 .. MaxRevision,
         date : Int, status : {"DONE", "SKIPPED"}, seen : Pages]

Deletes == [kind : {"delete"}, user : Users, goal : Goals]

Requests == Creates \cup Patches \cup Puts \cup Deletes

NoRequest == [kind |-> "none"]

Told == [kind : {"created", "replayed", "deleted"}, to : Creates,
         goal : Goals \cup {NoGoal}]

TypeOK ==
  /\ now \in Instants
  /\ goal \in [Goals -> Rows \cup {NoGoal}]
  /\ log \in [Goals -> [Days -> {"UNRECORDED", "DONE", "SKIPPED"}]]
  /\ op \in [Users -> [Keys -> Ops \cup {NoOp}]]
  /\ pc \in [Reqs -> {"idle", "begin", "reserved", "found", "locked", "accepted"}]
  /\ req \in [Reqs -> Requests \cup {NoRequest}]
  /\ cur \in [Reqs -> Rows \cup {NoGoal}]
  /\ origin \in [Goals -> Creates \cup {NoRequest}]
  /\ shown \in [Goals -> [Days -> Units \cup {NoUnit}]]
  /\ told \subseteq Told

Init ==
  /\ now = 0
  /\ goal = [g \in Goals |-> NoGoal]
  /\ log = [g \in Goals |-> NoLogs]
  /\ op = [u \in Users |-> [k \in Keys |-> NoOp]]
  /\ pc = [r \in Reqs |-> "idle"]
  /\ req = [r \in Reqs |-> NoRequest]
  /\ cur = [r \in Reqs |-> NoGoal]
  /\ origin = [g \in Goals |-> NoRequest]
  /\ shown = [g \in Goals |-> [d \in Days |-> NoUnit]]
  /\ told = {}

-----------------------------------------------------------------------------
(* Locks. *)

HoldsRow(s, g) ==
  /\ pc[s] \in {"locked", "accepted"}
  /\ req[s].kind \in {"patch", "put", "delete"} /\ req[s].goal = g

(* FOR UPDATE left out of the SELECT of PATCH, PUT and DELETE. *)
RowNeverWaits(g) == g \in Goals

RowFree(g) == \A s \in Reqs : ~HoldsRow(s, g)

HoldsKey(s, u, k) ==
  /\ pc[s] \in {"reserved", "found", "accepted"}
  /\ req[s].kind = "create" /\ req[s].user = u /\ req[s].key = k

KeyNeverWaits(u, k) == u \in Users /\ k \in Keys

KeyFree(u, k) == \A s \in Reqs : ~HoldsKey(s, u, k)

-----------------------------------------------------------------------------
(* The life of a slot. *)

database == <<goal, log, op>>
history == <<origin, shown, told>>

Submit(r, request) ==
  /\ pc[r] = "idle" /\ request.kind \in Kinds
  /\ pc' = [pc EXCEPT ![r] = "begin"]
  /\ req' = [req EXCEPT ![r] = request]
  /\ UNCHANGED <<now, database, cur, history>>

Goto(r, where, row) ==
  /\ pc' = [pc EXCEPT ![r] = where]
  /\ cur' = [cur EXCEPT ![r] = row]
  /\ UNCHANGED <<now, req, database, history>>

(* COMMIT or ROLLBACK, the connection back to the pool, the HTTP answer. *)
Answer(r) ==
  /\ pc' = [pc EXCEPT ![r] = "idle"]
  /\ req' = [req EXCEPT ![r] = NoRequest]
  /\ cur' = [cur EXCEPT ![r] = NoGoal]
  /\ now' = now

(* The answer to a POST, which its client may keep as a fact. *)
Tell(r, kind, g) ==
  /\ Answer(r)
  /\ told' = told \cup {[kind |-> kind, to |-> req[r], goal |-> g]}

(* Every refusal rolls back; only the HTTP status tells one from another. *)
Refuse(r) == Answer(r) /\ UNCHANGED <<database, history>>

(* An error of the driver, of the network or of the pool: rollback. *)
Abort(r) == pc[r] # "idle" /\ Refuse(r)

-----------------------------------------------------------------------------
(* POST /api/goals.  The client keeps the key and the body until it has an  *)
(* answer it can trust, so that any slot may carry any key at any time.     *)

(* Bound of the model: enough ids for every creation under way. *)
IdsLeft ==
  Cardinality({s \in Reqs : pc[s] # "idle" /\ req[s].kind = "create"})
    < Cardinality({g \in Goals : origin[g] = NoRequest})

SubmitCreate(r) ==
  \E u \in Users, k \in Keys, b \in BodySet :
    /\ op[u][k] # NoOp \/ IdsLeft
    /\ Submit(r, [kind |-> "create", user |-> u, key |-> k, body |-> b])

(* A lookup by key that leaves the hash of the body out. *)
AnyRequest(entry, body) == entry # NoOp /\ body \in Bodies

SameRequest(entry, body) == entry.body = body

(* INSERT ... ON CONFLICT DO NOTHING waits for an uncommitted row with the  *)
(* same key; a second SELECT then sees the winner's commit.                 *)
CreateReserve(r) ==
  LET u == req[r].user  k == req[r].key IN
  /\ pc[r] = "begin" /\ req[r].kind = "create" /\ KeyFree(u, k)
  /\ IF op[u][k] = NoOp
     THEN Goto(r, "reserved", NoGoal)
     ELSE IF ~SameRequest(op[u][k], req[r].body)
     THEN Refuse(r)
     ELSE Goto(r, "found", NoGoal)

(* A replay that also locks the row it is about to read. *)
ReplayUnderRowLock(r) ==
  LET g == op[req[r].user][req[r].key].goal
      deleted == g = NoGoal \/ goal[g] = NoGoal IN
  /\ pc[r] = "found" /\ (~deleted => RowFree(g))
  /\ IF deleted THEN Tell(r, "deleted", NoGoal) /\ UNCHANGED <<database, origin, shown>>
     ELSE IF ~ValidSavedQuestion(goal[g]) THEN Refuse(r)
     ELSE Tell(r, "replayed", g) /\ UNCHANGED <<database, origin, shown>>

(* The goal is read as it is now, edited or not; its row is not locked. *)
ReplayAnswer(r) ==
  LET g == op[req[r].user][req[r].key].goal
      deleted == g = NoGoal \/ goal[g] = NoGoal IN
  /\ pc[r] = "found"
  /\ IF deleted THEN Tell(r, "deleted", NoGoal) /\ UNCHANGED <<database, origin, shown>>
     ELSE IF ~ValidSavedQuestion(goal[g]) THEN Refuse(r)
     ELSE Tell(r, "replayed", g) /\ UNCHANGED <<database, origin, shown>>

(* The clock is read once the reservation stands. *)
CreateInsert(r) ==
  LET body == req[r].body  today == Today(body.set.tz) IN
  /\ pc[r] = "reserved"
  /\ IF TargetDateAccepted(body.set.target, today)
     THEN Goto(r, "accepted", NewRow(req[r].user, body, today))
     ELSE Refuse(r)

CreateCommit(r) ==
  \E g \in Goals :
    /\ pc[r] = "accepted" /\ req[r].kind = "create" /\ origin[g] = NoRequest
    /\ goal' = [goal EXCEPT ![g] = cur[r]]
    /\ op' = [op EXCEPT ![req[r].user][req[r].key] =
                [body |-> req[r].body, goal |-> g]]
    /\ origin' = [origin EXCEPT ![g] = req[r]]
    /\ Tell(r, "created", g)
    /\ UNCHANGED <<log, shown>>

-----------------------------------------------------------------------------
Page(row) == [set |-> row.set, answers |-> row.answers]

(* A request on an existing goal comes from a page that has shown its row;  *)
(* it travels with the session of the browser, which may belong to another  *)
(* account by then.                                                         *)

Exists(g) == goal[g] # NoGoal

Owned(u, g) == Exists(g) /\ goal[g].owner = u

(* SELECT ... FOR UPDATE with the owner in the WHERE clause: the row of     *)
(* another account does not match and is not waited for.                    *)
LockRow(r) ==
  LET g == req[r].goal IN
  /\ pc[r] = "begin" /\ (Owned(req[r].user, g) => RowFree(g))
  /\ IF Owned(req[r].user, g)
     THEN Goto(r, "locked", goal[g])
     ELSE Refuse(r)

-----------------------------------------------------------------------------
(* PATCH /api/goals/:goalId *)

SubmitPatch(r) ==
  \E u \in Users, g \in Goals, c \in EditSet :
    /\ Exists(g)
    /\ \E token \in {Keep, goal[g].arev} :
         Submit(r, [kind |-> "patch", user |-> u, goal |-> g, rev |-> goal[g].rev,
                    arev |-> token, change |-> c, seen |-> Page(goal[g])])

UpdateLock(r) == req[r].kind = "patch" /\ LockRow(r)

(* Trusting a hasLogs the transaction did not read under the lock. *)
LogsNotRead(g) == g \notin Goals

HasLogs(g) == \E d \in Days : log[g][d] # "UNRECORDED"

UpdateJudge(r) ==
  LET c == req[r].change
      verdict == PatchVerdict(cur[r], req[r], Today(Patched(c.tz, cur[r].set.tz)),
                              HasLogs(req[r].goal)) IN
  /\ pc[r] = "locked" /\ req[r].kind = "patch"
  /\ IF verdict = "updated"
     THEN Goto(r, "accepted", cur[r])
     ELSE Refuse(r)

(* UPDATE goal (left out when nothing changes) and COMMIT. *)
UpdateCommit(r) ==
  /\ pc[r] = "accepted" /\ req[r].kind = "patch"
  /\ goal' = [goal EXCEPT ![req[r].goal] = PatchedRow(cur[r], req[r].change)]
  /\ Answer(r)
  /\ UNCHANGED <<log, op, history>>

-----------------------------------------------------------------------------
(* PUT /api/goals/:goalId/logs/:localDate.  The date is the client's; the   *)
(* days around today are enough to meet both ends of the window.            *)

SubmitPut(r) ==
  \E u \in Users, g \in Goals, status \in {"DONE", "SKIPPED"}, shift \in -1 .. 1 :
    /\ Exists(g)
    /\ Submit(r, [kind |-> "put", user |-> u, goal |-> g, rev |-> goal[g].rev,
                  date |-> Today(goal[g].set.tz) + shift, status |-> status,
                  seen |-> Page(goal[g])])

PutLock(r) == req[r].kind = "put" /\ LockRow(r)

SameRevision(row, rev) == row.rev = rev

PutJudge(r) ==
  LET verdict == LogVerdict(cur[r], req[r].date, Today(cur[r].set.tz)) IN
  /\ pc[r] = "locked" /\ req[r].kind = "put"
  /\ IF ~SameRevision(cur[r], req[r].rev) THEN Refuse(r)
     ELSE IF verdict = "saved"
     THEN Goto(r, "accepted", cur[r])
     ELSE Refuse(r)

(* The marker derived from the records instead of kept. *)
MarkedByToday(row, status) == [row EXCEPT !.locked = (status = "DONE")]

(* update goal set unit_history_locked = true, on DONE only. *)
Marked(row, status) == [row EXCEPT !.locked = row.locked \/ status = "DONE"]

PutCommit(r) ==
  LET g == req[r].goal  d == req[r].date IN
  /\ pc[r] = "accepted" /\ req[r].kind = "put"
  /\ log' = [log EXCEPT ![g][d] = req[r].status]
  /\ goal' = [goal EXCEPT ![g] = Marked(goal[g], req[r].status)]
  /\ shown' = IF req[r].status = "DONE"
              THEN [shown EXCEPT ![g][d] = req[r].seen.set.unit] ELSE shown
  /\ Answer(r)
  /\ UNCHANGED <<op, origin, told>>

-----------------------------------------------------------------------------
(* DELETE /api/goals/:goalId.  The foreign keys delete the records and set  *)
(* goal_id of the ledger row to null, which waits for that row.             *)

SubmitDelete(r) ==
  \E u \in Users, g \in Goals :
    Exists(g) /\ Submit(r, [kind |-> "delete", user |-> u, goal |-> g])

DeleteLock(r) == req[r].kind = "delete" /\ LockRow(r)

Tombstone(entry) == [entry EXCEPT !.goal = NoGoal]

DeleteCommit(r) ==
  LET g == req[r].goal
      MadeBy(u, k) == op[u][k] # NoOp /\ op[u][k].goal = g IN
  /\ pc[r] = "locked" /\ req[r].kind = "delete"
  /\ \A u \in Users, k \in Keys : MadeBy(u, k) => KeyFree(u, k)
  /\ goal' = [goal EXCEPT ![g] = NoGoal]
  /\ log' = [log EXCEPT ![g] = NoLogs]
  /\ op' = [u \in Users |-> [k \in Keys |->
              IF MadeBy(u, k) THEN Tombstone(op[u][k]) ELSE op[u][k]]]
  /\ shown' = [shown EXCEPT ![g] = [d \in Days |-> NoUnit]]
  /\ Answer(r)
  /\ UNCHANGED <<origin, told>>

-----------------------------------------------------------------------------
Tick ==
  /\ now < MaxNow /\ now' = now + 1
  /\ UNCHANGED <<database, pc, req, cur, history>>

Arrive(r) == SubmitCreate(r) \/ SubmitPatch(r) \/ SubmitPut(r) \/ SubmitDelete(r)

Work(r) ==
  \/ CreateReserve(r) \/ ReplayAnswer(r) \/ CreateInsert(r) \/ CreateCommit(r)
  \/ UpdateLock(r) \/ UpdateJudge(r) \/ UpdateCommit(r)
  \/ PutLock(r) \/ PutJudge(r) \/ PutCommit(r)
  \/ DeleteLock(r) \/ DeleteCommit(r)

Next == Tick \/ \E r \in Reqs : Arrive(r) \/ Work(r) \/ Abort(r)

Spec == Init /\ [][Next]_vars

(* Nothing makes a client ask; a transaction that has begun goes on.  Row    *)
(* locks are granted in the order in which the sessions queue for them, so  *)
(* that nobody is passed over for ever.                                     *)
FairSpec == Spec /\ \A r \in Reqs : SF_vars(Work(r))

-----------------------------------------------------------------------------
(* Safety. *)

(* D-29: a key makes at most one goal for ever.  However often a creation   *)
(* is sent again, by whichever slot, before or after the goal is deleted,   *)
(* no second goal appears (createGoalOnce, FK ON DELETE SET NULL).          *)
OneGoalPerKey ==
  \A g, h \in Goals :
    /\ origin[g] # NoRequest /\ origin[h] # NoRequest
    /\ origin[g].user = origin[h].user /\ origin[g].key = origin[h].key
    => g = h

(* D-29: 201 and 200 name the goal that this key made from this very body,  *)
(* even after the goal has been edited; 410 means that the goal of the key  *)
(* is gone and stays gone.                                                  *)
AnswerStandsForTheKey ==
  \A t \in told :
    IF t.kind = "deleted"
    THEN \A g \in Goals : Exists(g) =>
           <<origin[g].user, origin[g].key>> # <<t.to.user, t.to.key>>
    ELSE origin[t.goal] = t.to

(* P-20, D-29: a DONE amount is never reinterpreted.  The unit the page     *)
(* showed when the amount was entered is the unit of the goal from then on, *)
(* also after the record was corrected to SKIPPED.                          *)
DoneKeepsItsUnit ==
  \A g \in Goals, d \in Days :
    shown[g][d] # NoUnit => Exists(g) /\ goal[g].set.unit = shown[g][d]

(* R-03, R-04: no record lies before the start of its goal or after today   *)
(* in the zone of its goal; FUTURE_LOG_DATE of the engine stays unreachable *)
(* although clients may move an unrecorded goal to another zone.            *)
RecordsLieInThePast ==
  \A g \in Goals, d \in Days : log[g][d] # "UNRECORDED" =>
    Exists(g) /\ goal[g].start <= d /\ d <= Today(goal[g].set.tz)

(* The saved prior always belongs to the saved answers, unit, amount and    *)
(* start day, so that validateSavedQuestion never answers 500.              *)
SavedQuestionReadable ==
  \A g \in Goals : Exists(g) => ValidSavedQuestion(goal[g])

(* Nothing that is stored changes its meaning under later edits: both of    *)
(* these, of which one chain of edits may break either.                     *)
RowsKeepTheirMeaning == DoneKeepsItsUnit /\ SavedQuestionReadable

-----------------------------------------------------------------------------
(* What a step may never do. *)

(* R-02: from the first record on, the zone, the initial amount and the     *)
(* start day of the goal stay, whatever PATCH was under way at that moment. *)
RecordsFreezeTheirBasis ==
  [][\A g \in Goals :
       (\E d \in Days : log[g][d] # "UNRECORDED") /\ Exists(g) /\ Exists(g)' =>
         /\ goal'[g].set.tz = goal[g].set.tz
         /\ goal'[g].set.initial = goal[g].set.initial
         /\ goal'[g].start = goal[g].start]_vars

(* D-29, R-11: a PATCH or a PUT takes effect only on the settings its page  *)
(* showed, and new answers replace only the answers their author saw: no    *)
(* lost update, and no amount stored under settings nobody saw.             *)
NoLostUpdates ==
  [][\A r \in Reqs :
       /\ UpdateCommit(r) \/ PutCommit(r) => goal[req[r].goal].set = req[r].seen.set
       /\ UpdateCommit(r) /\ req[r].change.answers # Keep =>
            goal[req[r].goal].answers = req[r].seen.answers]_vars

-----------------------------------------------------------------------------
(* What the transactions implement. *)

Ledger == INSTANCE GoalLedger

(* Whatever the interleaving of the transactions, what is committed moves   *)
(* as if every accepted request were one indivisible step on the rows as    *)
(* they stand at its commit, under the promises of GoalLedger.              *)
TransactionsAreAtomic == Ledger!Spec

-----------------------------------------------------------------------------
(* Liveness. *)

(* Every request gets its answer: no order of row and ledger locks closes a *)
(* circle (DELETE takes the goal, then the ledger row).                     *)
EveryRequestIsAnswered == \A r \in Reqs : pc[r] # "idle" ~> pc[r] = "idle"
=============================================================================
