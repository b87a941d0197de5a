-------------------------- MODULE GoalSafetyProofs --------------------------
(***************************************************************************)
(* Proofs about GoalStore for every set of users, keys, goals and requests *)
(* and for every bound on revisions, time and days.                        *)
(*                                                                         *)
(* The properties are not inductive by themselves.  What carries them is   *)
(* the discipline of the transactions: a slot that has passed its SELECT   *)
(* ... FOR UPDATE works on the row as it is committed, nobody else holds   *)
(* it, and what was checked under the lock is still true at the commit.    *)
(* A step then either leaves the tables alone or is the commit of one      *)
(* operation; four lemmas say what a commit does to the row it holds, and  *)
(* the properties follow from them.                                        *)
(*                                                                         *)
(* GoalStore implements GoalLedger: however the transactions interleave,   *)
(* each commit is one step of the ledger on the committed rows, and every  *)
(* other step is the passing of time or a stutter.  The refinement mapping *)
(* is the identity on the four shared variables.                           *)
(*                                                                         *)
(* GoalReads, for every number of readers beside every number of writers:  *)
(* a reader leaves the store alone, so that the store keeps all it         *)
(* promises (StoreBehaves); what the promises say of one row and its       *)
(* records at the first SELECT stays true of the snapshot, whatever is     *)
(* committed later, and is all an answer is made of (SnapOK).              *)
(***************************************************************************)
EXTENDS GoalReads, TLAPS

(* A slot is where its kind of request can be, with a row when it needs one. *)
SlotOK(r) ==
  /\ pc[r] = "idle" <=> req[r].kind = "none"
  /\ pc[r] \in {"reserved", "found"} => req[r].kind = "create"
  /\ pc[r] = "locked" => req[r].kind \in {"patch", "put", "delete"}
  /\ pc[r] = "accepted" => req[r].kind \in {"create", "patch", "put"}
  /\ pc[r] \in {"locked", "accepted"} => cur[r] \in Rows

(* The row a slot has locked is the committed row. *)
LockOK(r) ==
  pc[r] \in {"locked", "accepted"} /\ req[r].kind # "create" =>
    Exists(req[r].goal) /\ cur[r] = goal[req[r].goal]

(* Row locks exclude. *)
OneHolder ==
  \A r, s \in Reqs, g \in Goals : HoldsRow(r, g) /\ HoldsRow(s, g) => r = s

(* What updateGoal has checked still holds at its COMMIT. *)
PatchOK(r) ==
  pc[r] = "accepted" /\ req[r].kind = "patch" =>
    /\ req[r].rev = cur[r].rev /\ req[r].arev \in {Keep, cur[r].arev}
    /\ ~QuestionTokenMisused(req[r])
    /\ UnitLocked(cur[r]) => ~Touches(req[r].change.unit, cur[r].set.unit)
    /\ ~SameGoalSettings(cur[r].set, req[r].change) => cur[r].rev < MaxRevision
    /\ QuestionAnswersChanged(cur[r], req[r].change) => cur[r].arev < MaxAnswerRevision
    /\ ~R02Violated(cur[r], req[r].change, HasLogs(req[r].goal))

(* What putLog has checked still holds at its COMMIT. *)
PutOK(r) ==
  pc[r] = "accepted" /\ req[r].kind = "put" =>
    /\ req[r].rev = cur[r].rev
    /\ req[r].date \in Days /\ cur[r].start <= req[r].date
    /\ req[r].date <= Today(cur[r].set.tz)

(* An id that was drawn is never drawn again; only drawn ids are asked for. *)
IdOK ==
  /\ \A g \in Goals : Exists(g) => origin[g] # NoRequest
  /\ \A r \in Reqs : req[r].kind \in {"patch", "put", "delete"} =>
       origin[req[r].goal] # NoRequest

(* A reserved key is unused, a found one stands for the request; row locks  *)
(* of the ledger exclude; the key of a goal that was made stays used.       *)
KeyOK(r) ==
  /\ pc[r] = "found" =>
       /\ op[req[r].user][req[r].key] # NoOp
       /\ op[req[r].user][req[r].key].body = req[r].body
  /\ pc[r] \in {"reserved", "accepted"} /\ req[r].kind = "create" =>
       op[req[r].user][req[r].key] = NoOp

OneKeyHolder ==
  \A r, s \in Reqs, u \in Users, k \in Keys :
    HoldsKey(r, u, k) /\ HoldsKey(s, u, k) => r = s

Discipline ==
  /\ \A r \in Reqs : SlotOK(r) /\ LockOK(r) /\ PatchOK(r) /\ PutOK(r) /\ KeyOK(r)
  /\ OneHolder /\ OneKeyHolder /\ IdOK

-----------------------------------------------------------------------------
(* Rows stay rows. *)

LEMMA SnapshotType ==
  ASSUME NEW answers \in Answers, NEW set \in Settings, NEW start \in Days
  PROVE  MakeQuestionSnapshot(answers, ContextOf(set, start)) \in Snapshots \cup {NoSnapshot}
BY DEF MakeQuestionSnapshot, ContextOf, Settings, Snapshots, Contexts

LEMMA NewRowType ==
  ASSUME NEW user \in Users, NEW body \in Bodies, NEW today \in Days
  PROVE  NewRow(user, body, today) \in Rows
<1>1. body.set \in Settings /\ body.answers \in Answers
  BY DEF Bodies
<1>2. MakeQuestionSnapshot(body.answers, ContextOf(body.set, today))
        \in Snapshots \cup {NoSnapshot}
  BY <1>1, SnapshotType
<1>3. 0 \in 0 .. MaxRevision /\ 0 \in 0 .. MaxAnswerRevision
  BY RulesAssumption
<1> QED
  BY <1>1, <1>2, <1>3 DEF NewRow, Rows

LEMMA PatchedSettingsType ==
  ASSUME NEW set \in Settings, NEW c \in Changes
  PROVE  PatchedSettings(set, c) \in Settings
BY DEF PatchedSettings, Patched, Settings, Changes

LEMMA NextAnswersType ==
  ASSUME NEW row \in Rows, NEW c \in Changes
  PROVE  NextAnswers(row, c) \in Answers
BY RulesAssumption DEF NextAnswers, Patched, Rows, Changes

LEMMA PatchedRowType ==
  ASSUME NEW row \in Rows, NEW c \in Changes,
         ~SameGoalSettings(row.set, c) => row.rev < MaxRevision,
         QuestionAnswersChanged(row, c) => row.arev < MaxAnswerRevision
  PROVE  PatchedRow(row, c) \in Rows
<1>1. row.set \in Settings /\ row.start \in Days /\ row.owner \in Users
      /\ row.locked \in BOOLEAN /\ row.snapshot \in Snapshots \cup {NoSnapshot}
  BY DEF Rows
<1>2. PatchedSettings(row.set, c) \in Settings /\ NextAnswers(row, c) \in Answers
  BY <1>1, PatchedSettingsType, NextAnswersType
<1>3. NextSnapshot(row, c) \in Snapshots \cup {NoSnapshot}
  BY <1>1, <1>2, SnapshotType DEF NextSnapshot
<1>4. row.rev + (IF SameGoalSettings(row.set, c) THEN 0 ELSE 1) \in 0 .. MaxRevision
  BY RulesAssumption DEF Rows
<1>5. row.arev + (IF QuestionAnswersChanged(row, c) THEN 1 ELSE 0) \in 0 .. MaxAnswerRevision
  BY RulesAssumption DEF Rows
<1> QED
  BY <1>1, <1>2, <1>3, <1>4, <1>5 DEF PatchedRow, Rows

LEMMA MarkedType ==
  ASSUME NEW row \in Rows, NEW status
  PROVE  Marked(row, status) \in Rows
BY DEF Marked, Rows

LEMMA TombstoneType ==
  ASSUME NEW entry \in Ops
  PROVE  Tombstone(entry) \in Ops /\ Tombstone(entry).body = entry.body
BY DEF Tombstone, Ops

LEMMA TodayType ==
  ASSUME now \in Instants, NEW z \in Zones
  PROVE  Today(z) \in Days
BY CalendarAssumption DEF Today

-----------------------------------------------------------------------------
(* Types. *)

LEMMA RequestKinds ==
  ASSUME NEW q \in Requests \cup {NoRequest}
  PROVE  /\ q.kind \in {"none", "create", "patch", "put", "delete"}
         /\ q.kind = "none" => q = NoRequest
         /\ q.kind = "create" => q \in Creates
         /\ q.kind = "patch" => q \in Patches
         /\ q.kind = "put" => q \in Puts
         /\ q.kind = "delete" => q \in Deletes
BY DEF Requests, NoRequest, Creates, Patches, Puts, Deletes

LEMMA SubmitType ==
  ASSUME TypeOK, NEW r \in Reqs, NEW q \in Requests, Submit(r, q)
  PROVE  TypeOK'
BY DEF TypeOK, Submit, database, history

LEMMA GotoType ==
  ASSUME TypeOK, NEW r \in Reqs, NEW row \in Rows \cup {NoGoal},
         NEW where \in {"reserved", "found", "locked", "accepted"}, Goto(r, where, row)
  PROVE  TypeOK'
BY DEF TypeOK, Goto, database, history

LEMMA RefuseType ==
  ASSUME TypeOK, NEW r \in Reqs, Refuse(r)
  PROVE  TypeOK'
BY DEF TypeOK, Refuse, Answer, database, history

(* What a request carries when it arrives. *)
Fresh(q) ==
  /\ q.kind # "create" => q.goal \in Goals /\ Exists(q.goal)
  /\ q.kind \in {"patch", "put"} =>
       q.rev = goal[q.goal].rev /\ q.seen = Page(goal[q.goal])

LEMMA ArriveForm ==
  ASSUME TypeOK, NEW r \in Reqs, Arrive(r)
  PROVE  \E q \in Requests : Submit(r, q) /\ Fresh(q)
<1>1. CASE SubmitCreate(r)
  <2>1. PICK u \in Users, k \in Keys, b \in BodySet :
          Submit(r, [kind |-> "create", user |-> u, key |-> k, body |-> b])
    BY <1>1 DEF SubmitCreate
  <2>2. [kind |-> "create", user |-> u, key |-> k, body |-> b] \in Requests
    BY StoreAssumption DEF Requests, Creates
  <2> QED
    BY <2>1, <2>2 DEF Fresh
<1>2. CASE SubmitPatch(r)
  <2>1. PICK u \in Users, g \in Goals, c \in EditSet :
          /\ Exists(g)
          /\ \E token \in {Keep, goal[g].arev} :
               Submit(r, [kind |-> "patch", user |-> u, goal |-> g, rev |-> goal[g].rev,
                          arev |-> token, change |-> c, seen |-> Page(goal[g])])
    BY <1>2 DEF SubmitPatch
  <2>2. PICK token \in {Keep, goal[g].arev} :
          Submit(r, [kind |-> "patch", user |-> u, goal |-> g, rev |-> goal[g].rev,
                     arev |-> token, change |-> c, seen |-> Page(goal[g])])
    BY <2>1
  <2>3. goal[g] \in Rows
    BY <2>1 DEF TypeOK, Exists
  <2>4. goal[g].rev \in 0 .. MaxRevision /\ goal[g].arev \in 0 .. MaxAnswerRevision
        /\ Page(goal[g]) \in Pages
    BY <2>3 DEF Rows, Page, Pages
  <2>5. [kind |-> "patch", user |-> u, goal |-> g, rev |-> goal[g].rev,
         arev |-> token, change |-> c, seen |-> Page(goal[g])] \in Requests
    BY <2>4, StoreAssumption DEF Requests, Patches
  <2> QED
    BY <2>1, <2>2, <2>5 DEF Fresh
<1>3. CASE SubmitPut(r)
  <2>1. PICK u \in Users, g \in Goals, status \in {"DONE", "SKIPPED"}, shift \in -1 .. 1 :
          /\ Exists(g)
          /\ Submit(r, [kind |-> "put", user |-> u, goal |-> g, rev |-> goal[g].rev,
                        date |-> Today(goal[g].set.tz) + shift, status |-> status,
                        seen |-> Page(goal[g])])
    BY <1>3 DEF SubmitPut
  <2>2. goal[g] \in Rows
    BY <2>1 DEF TypeOK, Exists
  <2>3. goal[g].rev \in 0 .. MaxRevision /\ goal[g].set.tz \in Zones
        /\ Page(goal[g]) \in Pages
    BY <2>2 DEF Rows, Settings, Page, Pages
  <2>4. Today(goal[g].set.tz) + shift \in Int
    BY <2>3, TodayType DEF TypeOK, Days
  <2>5. [kind |-> "put", user |-> u, goal |-> g, rev |-> goal[g].rev,
         date |-> Today(goal[g].set.tz) + shift, status |-> status,
         seen |-> Page(goal[g])] \in Requests
    BY <2>3, <2>4 DEF Requests, Puts
  <2> QED
    BY <2>1, <2>5 DEF Fresh
<1>4. CASE SubmitDelete(r)
  <2>1. PICK u \in Users, g \in Goals :
          Exists(g) /\ Submit(r, [kind |-> "delete", user |-> u, goal |-> g])
    BY <1>4 DEF SubmitDelete
  <2>2. [kind |-> "delete", user |-> u, goal |-> g] \in Requests
    BY DEF Requests, Deletes
  <2> QED
    BY <2>1, <2>2 DEF Fresh
<1> QED
  BY <1>1, <1>2, <1>3, <1>4 DEF Arrive

LEMMA ArriveType ==
  ASSUME TypeOK, NEW r \in Reqs, Arrive(r)
  PROVE  TypeOK'
BY ArriveForm, SubmitType

(* A creation: the reservation, the replay, the row and the commit. *)
LEMMA CreateType ==
  ASSUME TypeOK, Discipline, NEW r \in Reqs,
         CreateReserve(r) \/ ReplayAnswer(r) \/ CreateInsert(r) \/ CreateCommit(r)
  PROVE  TypeOK'
<1> DEFINE q == req[r]
<1>1. q \in Requests \cup {NoRequest} /\ SlotOK(r) /\ KeyOK(r)
  BY DEF TypeOK, Discipline
<1>2. CASE CreateReserve(r)
  BY <1>2, GotoType, RefuseType DEF CreateReserve
<1>3. ASSUME q.kind = "create"
      PROVE  /\ q \in Creates /\ q.user \in Users /\ q.key \in Keys /\ q.body \in Bodies
             /\ q.body.set \in Settings /\ q.body.set.tz \in Zones
  BY <1>1, <1>3, RequestKinds DEF Creates, Bodies, Settings
<1>4. CASE ReplayAnswer(r)
  <2> DEFINE g == op[q.user][q.key].goal
  <2>1. q \in Creates
    BY <1>1, <1>3, <1>4 DEF ReplayAnswer, SlotOK
  <2>2. \/ Refuse(r)
        \/ Tell(r, "deleted", NoGoal) /\ UNCHANGED <<database, origin, shown>>
        \/ /\ g # NoGoal /\ goal[g] # NoGoal
           /\ Tell(r, "replayed", g) /\ UNCHANGED <<database, origin, shown>>
    BY <1>4 DEF ReplayAnswer
  <2>3. op[q.user][q.key] \in Ops
    BY <1>1, <1>4, <2>1 DEF TypeOK, Creates, KeyOK, ReplayAnswer
  <2>4. g \in Goals \cup {NoGoal}
    BY <2>3 DEF Ops
  <2>5. CASE Refuse(r)
    BY <2>5, RefuseType
  <2>6. ASSUME NEW kind \in {"deleted", "replayed"}, NEW h \in Goals \cup {NoGoal},
               Tell(r, kind, h), UNCHANGED <<database, origin, shown>>
        PROVE  TypeOK'
    BY <2>1, <2>6 DEF TypeOK, Tell, Answer, Told, database
  <2> QED
    BY <2>2, <2>4, <2>5, <2>6
<1>5. CASE CreateInsert(r)
  <2>1. q \in Creates /\ q.user \in Users /\ q.body \in Bodies /\ q.body.set.tz \in Zones
    BY <1>1, <1>3, <1>5 DEF CreateInsert, SlotOK
  <2>2. NewRow(q.user, q.body, Today(q.body.set.tz)) \in Rows
    BY <2>1, NewRowType, TodayType DEF TypeOK
  <2> QED
    BY <1>5, <2>2, GotoType, RefuseType DEF CreateInsert
<1>6. CASE CreateCommit(r)
  <2>1. PICK g \in Goals :
          /\ pc[r] = "accepted" /\ q.kind = "create" /\ origin[g] = NoRequest
          /\ goal' = [goal EXCEPT ![g] = cur[r]]
          /\ op' = [op EXCEPT ![q.user][q.key] = [body |-> q.body, goal |-> g]]
          /\ origin' = [origin EXCEPT ![g] = q]
          /\ Tell(r, "created", g)
          /\ UNCHANGED <<log, shown>>
    BY <1>6 DEF CreateCommit
  <2>2. q \in Creates /\ q.user \in Users /\ q.key \in Keys /\ q.body \in Bodies
    BY <1>3, <2>1
  <2>3. cur[r] \in Rows
    BY <1>1, <2>1 DEF SlotOK
  <2>4. [body |-> q.body, goal |-> g] \in Ops
    BY <2>2 DEF Ops
  <2>5. goal' \in [Goals -> Rows \cup {NoGoal}] /\ op' \in [Users -> [Keys -> Ops \cup {NoOp}]]
        /\ origin' \in [Goals -> Creates \cup {NoRequest}]
    BY <2>1, <2>2, <2>3, <2>4 DEF TypeOK
  <2> QED
    BY <2>1, <2>2, <2>5 DEF TypeOK, Tell, Answer, Told
<1> QED
  BY <1>2, <1>4, <1>5, <1>6

LEMMA LockRowType ==
  ASSUME TypeOK, NEW r \in Reqs, NEW g \in Goals, req[r].goal = g, LockRow(r)
  PROVE  TypeOK'
<1>1. Owned(req[r].user, g) => goal[g] \in Rows
  BY DEF TypeOK, Owned, Exists
<1> QED
  BY <1>1, GotoType, RefuseType DEF LockRow

LEMMA EditType ==
  ASSUME TypeOK, Discipline, NEW r \in Reqs,
         UpdateLock(r) \/ UpdateJudge(r) \/ UpdateCommit(r)
  PROVE  TypeOK'
<1> DEFINE q == req[r]
<1>1. q \in Requests \cup {NoRequest} /\ SlotOK(r) /\ PatchOK(r)
  BY DEF TypeOK, Discipline
<1>2. q.kind = "patch"
  BY DEF UpdateLock, UpdateJudge, UpdateCommit
<1>3. q \in Patches /\ q.goal \in Goals /\ q.change \in Changes
  BY <1>1, <1>2, RequestKinds DEF Patches
<1>4. CASE UpdateLock(r)
  BY <1>3, <1>4, LockRowType DEF UpdateLock
<1>5. CASE UpdateJudge(r)
  <2>1. cur[r] \in Rows
    BY <1>1, <1>5 DEF UpdateJudge, SlotOK
  <2> QED
    BY <1>5, <2>1, GotoType, RefuseType DEF UpdateJudge
<1>6. CASE UpdateCommit(r)
  <2>1. PatchedRow(cur[r], q.change) \in Rows
    BY <1>1, <1>3, <1>6, PatchedRowType DEF UpdateCommit, SlotOK, PatchOK
  <2> QED
    BY <1>3, <1>6, <2>1 DEF UpdateCommit, TypeOK, Answer, history
<1> QED
  BY <1>4, <1>5, <1>6

LEMMA RecordType ==
  ASSUME TypeOK, Discipline, NEW r \in Reqs,
         PutLock(r) \/ PutJudge(r) \/ PutCommit(r)
  PROVE  TypeOK'
<1> DEFINE q == req[r]
<1>1. q \in Requests \cup {NoRequest} /\ SlotOK(r) /\ LockOK(r) /\ PutOK(r)
  BY DEF TypeOK, Discipline
<1>2. q.kind = "put"
  BY DEF PutLock, PutJudge, PutCommit
<1>3. q \in Puts /\ q.goal \in Goals /\ q.status \in {"DONE", "SKIPPED"} /\ q.seen.set.unit \in Units
  BY <1>1, <1>2, RequestKinds DEF Puts, Pages, Settings
<1>4. CASE PutLock(r)
  BY <1>3, <1>4, LockRowType DEF PutLock
<1>5. CASE PutJudge(r)
  <2>1. cur[r] \in Rows
    BY <1>1, <1>5 DEF PutJudge, SlotOK
  <2> QED
    BY <1>5, <2>1, GotoType, RefuseType DEF PutJudge
<1>6. CASE PutCommit(r)
  <2>1. goal[q.goal] \in Rows /\ q.date \in Days
    BY <1>1, <1>2, <1>3, <1>6 DEF PutCommit, LockOK, PutOK, Exists, TypeOK
  <2>2. Marked(goal[q.goal], q.status) \in Rows
    BY <2>1, MarkedType
  <2>3. goal' \in [Goals -> Rows \cup {NoGoal}]
    BY <1>6, <2>2 DEF PutCommit, TypeOK
  <2>4. log' \in [Goals -> [Days -> {"UNRECORDED", "DONE", "SKIPPED"}]]
    BY <1>3, <1>6, <2>1 DEF PutCommit, TypeOK
  <2>5. shown' \in [Goals -> [Days -> Units \cup {NoUnit}]]
    BY <1>3, <1>6, <2>1 DEF PutCommit, TypeOK
  <2> QED
    BY <1>6, <2>3, <2>4, <2>5 DEF PutCommit, TypeOK, Answer
<1> QED
  BY <1>4, <1>5, <1>6

LEMMA RemoveType ==
  ASSUME TypeOK, Discipline, NEW r \in Reqs, DeleteLock(r) \/ DeleteCommit(r)
  PROVE  TypeOK'
<1> DEFINE q == req[r]
<1>1. q \in Requests \cup {NoRequest} /\ SlotOK(r)
  BY DEF TypeOK, Discipline
<1>2. q.goal \in Goals
  BY <1>1, RequestKinds DEF DeleteLock, DeleteCommit, Deletes
<1>3. CASE DeleteLock(r)
  BY <1>2, <1>3, LockRowType DEF DeleteLock
<1>4. CASE DeleteCommit(r)
  <2>1. ASSUME NEW u \in Users, NEW k \in Keys, op[u][k] # NoOp
        PROVE  Tombstone(op[u][k]) \in Ops
    BY <2>1 DEF TypeOK, Ops, Tombstone
  <2>2. op' \in [Users -> [Keys -> Ops \cup {NoOp}]]
    BY <1>4, <2>1 DEF DeleteCommit, TypeOK
  <2>3. goal' \in [Goals -> Rows \cup {NoGoal}]
        /\ log' \in [Goals -> [Days -> {"UNRECORDED", "DONE", "SKIPPED"}]]
        /\ shown' \in [Goals -> [Days -> Units \cup {NoUnit}]]
    BY <1>2, <1>4 DEF DeleteCommit, TypeOK, NoLogs
  <2> QED
    BY <1>4, <2>2, <2>3 DEF DeleteCommit, TypeOK, Answer
<1> QED
  BY <1>3, <1>4

LEMMA TypeStep ==
  ASSUME TypeOK, Discipline, [Next]_vars
  PROVE  TypeOK'
<1>1. CASE Tick
  BY <1>1, RulesAssumption DEF Tick, TypeOK, Instants, database, history
<1>2. CASE UNCHANGED vars
  BY <1>2 DEF vars, TypeOK
<1>3. ASSUME NEW r \in Reqs, Arrive(r) \/ Work(r) \/ Abort(r)
      PROVE  TypeOK'
  <2>1. CASE Abort(r)
    BY <2>1, RefuseType DEF Abort
  <2> QED
    BY <1>3, <2>1, ArriveType, CreateType, EditType, RecordType, RemoveType DEF Work
<1> QED
  BY <1>1, <1>2, <1>3 DEF Next

-----------------------------------------------------------------------------
(* The discipline is kept. *)

(* What a step of slot r leaves to the others. *)
Others(r) ==
  /\ now' = now
  /\ \A s \in Reqs \ {r} : pc'[s] = pc[s] /\ req'[s] = req[s] /\ cur'[s] = cur[s]

(* It touches only rows and keys it holds, or ids that nobody knows. *)
Touched(r) ==
  /\ \A g \in Goals : goal'[g] # goal[g] \/ log'[g] # log[g] =>
       HoldsRow(r, g) \/ origin[g] = NoRequest
  /\ \A u \in Users, k \in Keys : op'[u][k] # op[u][k] =>
       \/ HoldsKey(r, u, k)
       \/ op[u][k] # NoOp /\ op'[u][k] # NoOp /\ op'[u][k].body = op[u][k].body
  /\ \A g \in Goals : origin[g] # NoRequest => origin'[g] # NoRequest
  /\ \A g \in Goals : Exists(g)' => Exists(g) \/ origin'[g] # NoRequest

(* It takes only locks that are free. *)
Taken(r) ==
  /\ \A g \in Goals : HoldsRow(r, g)' => HoldsRow(r, g) \/ RowFree(g)
  /\ \A u \in Users, k \in Keys : HoldsKey(r, u, k)' => HoldsKey(r, u, k) \/ KeyFree(u, k)

(* And it ends in good order itself. *)
Own(r) ==
  /\ SlotOK(r) /\ LockOK(r) /\ PatchOK(r) /\ PutOK(r) /\ KeyOK(r)
  /\ req[r].kind \in {"patch", "put", "delete"} => origin[req[r].goal] # NoRequest

LEMMA KindFields ==
  ASSUME TypeOK, NEW r \in Reqs
  PROVE  /\ req[r].kind \in {"none", "create", "patch", "put", "delete"}
         /\ req[r].kind \in {"patch", "put", "delete"} => req[r].goal \in Goals
         /\ req[r].kind = "create" => req[r].user \in Users /\ req[r].key \in Keys
<1>1. req[r] \in Requests \cup {NoRequest}
  BY DEF TypeOK
<1> QED
  BY <1>1, RequestKinds DEF Creates, Patches, Puts, Deletes

LEMMA Bystanders ==
  ASSUME TypeOK, TypeOK', Discipline, NEW r \in Reqs, Others(r), Touched(r), Taken(r), Own(r)'
  PROVE  Discipline'
<1>1. ASSUME NEW s \in Reqs, s # r
      PROVE  (SlotOK(s) /\ LockOK(s) /\ PatchOK(s) /\ PutOK(s) /\ KeyOK(s))'
  <2>1. pc'[s] = pc[s] /\ req'[s] = req[s] /\ cur'[s] = cur[s] /\ now' = now
    BY <1>1 DEF Others
  <2>2. SlotOK(s) /\ LockOK(s) /\ PatchOK(s) /\ PutOK(s) /\ KeyOK(s)
    BY DEF Discipline
  <2>3. SlotOK(s)'
    BY <2>1, <2>2 DEF SlotOK
  <2>4. ASSUME pc[s] \in {"locked", "accepted"}, req[s].kind # "create"
        PROVE  /\ req[s].goal \in Goals /\ HoldsRow(s, req[s].goal)
               /\ goal'[req[s].goal] = goal[req[s].goal]
               /\ log'[req[s].goal] = log[req[s].goal]
    <3>1. req[s].kind \in {"patch", "put", "delete"} /\ req[s].goal \in Goals
      BY <2>2, <2>4, KindFields DEF SlotOK
    <3>2. HoldsRow(s, req[s].goal)
      BY <2>4, <3>1 DEF HoldsRow
    <3>3. ~HoldsRow(r, req[s].goal)
      BY <1>1, <3>1, <3>2 DEF Discipline, OneHolder
    <3>4. origin[req[s].goal] # NoRequest
      BY <3>1 DEF Discipline, IdOK
    <3> QED
      BY <3>1, <3>2, <3>3, <3>4 DEF Touched
  <2>5. LockOK(s)'
    BY <2>1, <2>2, <2>4 DEF LockOK, Exists
  <2>6. PatchOK(s)'
    <3>1. ASSUME pc[s] = "accepted", req[s].kind = "patch"
          PROVE  HasLogs(req[s].goal)' = HasLogs(req[s].goal)
      BY <2>1, <2>4, <3>1 DEF HasLogs
    <3> QED
      BY <2>1, <2>2, <3>1 DEF PatchOK, R02Violated
  <2>7. PutOK(s)'
    BY <2>1, <2>2 DEF PutOK, Today
  <2>8. KeyOK(s)'
    <3> DEFINE u == req[s].user
               k == req[s].key
    <3>1. ASSUME pc[s] \in {"found", "reserved", "accepted"}, req[s].kind = "create"
          PROVE  \/ op'[u][k] = op[u][k]
                 \/ op[u][k] # NoOp /\ op'[u][k] # NoOp /\ op'[u][k].body = op[u][k].body
      <4>1. req[s].user \in Users /\ req[s].key \in Keys
        BY <3>1, KindFields
      <4>2. HoldsKey(s, req[s].user, req[s].key)
        BY <3>1, <4>1 DEF HoldsKey
      <4>3. ~HoldsKey(r, req[s].user, req[s].key)
        BY <1>1, <4>1, <4>2 DEF Discipline, OneKeyHolder
      <4> QED
        BY <4>1, <4>3 DEF Touched
    <3>2. req'[s].user = u /\ req'[s].key = k
      BY <2>1
    <3>3. ASSUME pc[s] = "found"
          PROVE  op'[u][k] # NoOp /\ op'[u][k].body = req'[s].body
      <4>1. req[s].kind = "create" /\ op[u][k] # NoOp /\ op[u][k].body = req[s].body
        BY <2>2, <3>3 DEF SlotOK, KeyOK
      <4> QED
        BY <2>1, <3>1, <3>3, <4>1
    <3>4. ASSUME pc[s] \in {"reserved", "accepted"}, req[s].kind = "create"
          PROVE  op'[u][k] = NoOp
      <4>1. op[u][k] = NoOp
        BY <2>2, <3>4 DEF KeyOK
      <4> QED
        BY <3>1, <3>4, <4>1
    <3> QED
      BY <2>1, <3>2, <3>3, <3>4 DEF KeyOK
  <2> QED
    BY <2>3, <2>5, <2>6, <2>7, <2>8
<1>2. OneHolder'
  <2>1. ASSUME NEW s \in Reqs, s # r, NEW g \in Goals, HoldsRow(s, g)'
        PROVE  HoldsRow(s, g)
    BY <2>1 DEF Others, HoldsRow
  <2>2. ASSUME NEW s \in Reqs, s # r, NEW g \in Goals, HoldsRow(s, g)', HoldsRow(r, g)'
        PROVE  FALSE
    BY <2>1, <2>2 DEF Taken, Discipline, OneHolder, RowFree
  <2>3. ASSUME NEW s \in Reqs, NEW t \in Reqs, s # r, t # r, NEW g \in Goals,
               HoldsRow(s, g)', HoldsRow(t, g)'
        PROVE  s = t
    BY <2>1, <2>3 DEF Discipline, OneHolder
  <2> QED
    BY <2>2, <2>3 DEF OneHolder
<1>3. OneKeyHolder'
  <2>1. ASSUME NEW s \in Reqs, s # r, NEW u \in Users, NEW k \in Keys, HoldsKey(s, u, k)'
        PROVE  HoldsKey(s, u, k)
    BY <2>1 DEF Others, HoldsKey
  <2>2. ASSUME NEW s \in Reqs, s # r, NEW u \in Users, NEW k \in Keys,
               HoldsKey(s, u, k)', HoldsKey(r, u, k)'
        PROVE  FALSE
    BY <2>1, <2>2 DEF Taken, Discipline, OneKeyHolder, KeyFree
  <2>3. ASSUME NEW s \in Reqs, NEW t \in Reqs, s # r, t # r, NEW u \in Users, NEW k \in Keys,
               HoldsKey(s, u, k)', HoldsKey(t, u, k)'
        PROVE  s = t
    BY <2>1, <2>3 DEF Discipline, OneKeyHolder
  <2> QED
    BY <2>2, <2>3 DEF OneKeyHolder
<1>4. IdOK'
  <2>1. ASSUME NEW g \in Goals, Exists(g)'
        PROVE  origin'[g] # NoRequest
    BY <2>1 DEF Touched, Discipline, IdOK
  <2>2. ASSUME NEW s \in Reqs, req'[s].kind \in {"patch", "put", "delete"}
        PROVE  origin'[req'[s].goal] # NoRequest
    <3>1. CASE s = r
      BY <2>2, <3>1 DEF Own
    <3>2. CASE s # r
      BY <2>2, <3>2, KindFields DEF Others, Touched, Discipline, IdOK
    <3> QED
      BY <3>1, <3>2
  <2> QED
    BY <2>1, <2>2 DEF IdOK
<1>5. (SlotOK(r) /\ LockOK(r) /\ PatchOK(r) /\ PutOK(r) /\ KeyOK(r))'
  BY DEF Own
<1> QED
  BY <1>1, <1>2, <1>3, <1>4, <1>5 DEF Discipline

LEMMA SubmitDiscipline ==
  ASSUME TypeOK, TypeOK', Discipline, NEW r \in Reqs, NEW q \in Requests, Submit(r, q),
         q.kind \in {"patch", "put", "delete"} => origin[q.goal] # NoRequest
  PROVE  Discipline'
<1>1. pc[r] = "idle" /\ pc' = [pc EXCEPT ![r] = "begin"] /\ req' = [req EXCEPT ![r] = q]
      /\ UNCHANGED <<now, goal, log, op, cur, origin>>
  BY DEF Submit, database, history
<1>2. pc'[r] = "begin" /\ req'[r] = q
  BY <1>1 DEF TypeOK
<1>3. q.kind # "none"
  BY DEF Requests, Creates, Patches, Puts, Deletes
<1>4. Others(r) /\ Touched(r)
  BY <1>1 DEF Others, Touched, TypeOK, Exists
<1>5. Taken(r)
  BY <1>2 DEF Taken, HoldsRow, HoldsKey
<1>6. Own(r)'
  BY <1>1, <1>2, <1>3 DEF Own, SlotOK, LockOK, PatchOK, PutOK, KeyOK
<1> QED
  BY <1>4, <1>5, <1>6, Bystanders

LEMMA AnswerDiscipline ==
  ASSUME TypeOK, TypeOK', Discipline, NEW r \in Reqs, Answer(r), Touched(r)
  PROVE  Discipline'
<1>1. pc'[r] = "idle" /\ req'[r] = NoRequest
  BY DEF Answer, TypeOK
<1>2. Others(r)
  BY DEF Answer, Others, TypeOK
<1>3. Taken(r)
  BY <1>1 DEF Taken, HoldsRow, HoldsKey
<1>4. Own(r)'
  BY <1>1 DEF Own, SlotOK, LockOK, PatchOK, PutOK, KeyOK, NoRequest
<1> QED
  BY <1>2, <1>3, <1>4, Bystanders

LEMMA RefuseDiscipline ==
  ASSUME TypeOK, TypeOK', Discipline, NEW r \in Reqs, Refuse(r)
  PROVE  Discipline'
<1>1. Answer(r) /\ UNCHANGED <<goal, log, op, origin>>
  BY DEF Refuse, database, history
<1>2. Touched(r)
  BY <1>1 DEF Touched, Exists
<1> QED
  BY <1>1, <1>2, AnswerDiscipline

LEMMA GotoDiscipline ==
  ASSUME TypeOK, TypeOK', Discipline, NEW r \in Reqs, NEW where, NEW row,
         Goto(r, where, row), Taken(r), Own(r)'
  PROVE  Discipline'
<1>1. Others(r)
  BY DEF Goto, Others, TypeOK
<1>2. Touched(r)
  BY DEF Goto, Touched, Exists, database, history
<1> QED
  BY <1>1, <1>2, Bystanders

LEMMA ArriveDiscipline ==
  ASSUME TypeOK, TypeOK', Discipline, NEW r \in Reqs, Arrive(r)
  PROVE  Discipline'
<1>1. PICK q \in Requests : Submit(r, q) /\ Fresh(q)
  BY ArriveForm
<1>2. q.kind \in {"patch", "put", "delete"} => origin[q.goal] # NoRequest
  BY <1>1 DEF Fresh, Discipline, IdOK
<1> QED
  BY <1>1, <1>2, SubmitDiscipline

LEMMA CreateDiscipline ==
  ASSUME TypeOK, TypeOK', Discipline, NEW r \in Reqs,
         CreateReserve(r) \/ ReplayAnswer(r) \/ CreateInsert(r) \/ CreateCommit(r)
  PROVE  Discipline'
<1> DEFINE u == req[r].user
           k == req[r].key
<1>1. SlotOK(r) /\ KeyOK(r)
  BY DEF Discipline
<1>2. req[r].kind = "create" /\ u \in Users /\ k \in Keys
  BY <1>1, KindFields DEF SlotOK, CreateReserve, ReplayAnswer, CreateInsert, CreateCommit
<1>3. CASE CreateReserve(r)
  <2>1. KeyFree(u, k)
    BY <1>3 DEF CreateReserve
  <2>2. ASSUME NEW where \in {"reserved", "found"}, Goto(r, where, NoGoal),
               where = "reserved" => op[u][k] = NoOp,
               where = "found" => op[u][k] # NoOp /\ op[u][k].body = req[r].body
        PROVE  Discipline'
    <3>1. pc'[r] = where /\ req' = req /\ op' = op
      BY <2>2 DEF Goto, TypeOK, database
    <3>2. Taken(r)
      BY <1>2, <2>1, <3>1 DEF Taken, HoldsRow, HoldsKey
    <3>3. Own(r)'
      BY <1>2, <2>2, <3>1 DEF Own, SlotOK, LockOK, PatchOK, PutOK, KeyOK
    <3> QED
      BY <2>2, <3>2, <3>3, GotoDiscipline
  <2> QED
    BY <1>3, <2>2, RefuseDiscipline DEF CreateReserve, SameRequest
<1>4. CASE ReplayAnswer(r)
  <2>1. Answer(r) /\ UNCHANGED <<goal, log, op, origin>>
    BY <1>4 DEF ReplayAnswer, Refuse, Tell, database, history
  <2>2. Touched(r)
    BY <2>1 DEF Touched, Exists
  <2> QED
    BY <2>1, <2>2, AnswerDiscipline
<1>5. CASE CreateInsert(r)
  <2>1. CASE Refuse(r)
    BY <2>1, RefuseDiscipline
  <2>2. ASSUME NEW row, Goto(r, "accepted", row), row \in Rows
        PROVE  Discipline'
    <3>1. pc'[r] = "accepted" /\ req' = req /\ op' = op /\ cur'[r] = row /\ pc[r] = "reserved"
      BY <1>5, <2>2 DEF Goto, TypeOK, database, CreateInsert
    <3>2. Taken(r)
      BY <1>2, <3>1 DEF Taken, HoldsRow, HoldsKey
    <3>3. Own(r)'
      BY <1>1, <1>2, <2>2, <3>1 DEF Own, SlotOK, LockOK, PatchOK, PutOK, KeyOK
    <3> QED
      BY <2>2, <3>2, <3>3, GotoDiscipline
  <2>3. req[r].body \in Bodies
    BY <1>2, RequestKinds DEF TypeOK, Creates
  <2>4. NewRow(u, req[r].body, Today(req[r].body.set.tz)) \in Rows
    BY <1>2, <2>3, NewRowType, TodayType DEF TypeOK, Bodies, Settings
  <2> QED
    BY <1>5, <2>1, <2>2, <2>4 DEF CreateInsert
<1>6. CASE CreateCommit(r)
  <2>1. PICK g \in Goals :
          /\ pc[r] = "accepted" /\ origin[g] = NoRequest
          /\ goal' = [goal EXCEPT ![g] = cur[r]]
          /\ op' = [op EXCEPT ![u][k] = [body |-> req[r].body, goal |-> g]]
          /\ origin' = [origin EXCEPT ![g] = req[r]]
          /\ Answer(r) /\ UNCHANGED <<log, shown>>
    BY <1>6 DEF CreateCommit, Tell
  <2>2. HoldsKey(r, u, k)
    BY <1>2, <2>1 DEF HoldsKey
  <2>3. req[r] # NoRequest
    BY <1>2 DEF NoRequest
  <2>4. \A h \in Goals : goal'[h] # goal[h] \/ log'[h] # log[h] => origin[h] = NoRequest
    BY <2>1 DEF TypeOK
  <2>5. \A v \in Users, l \in Keys : op'[v][l] # op[v][l] => HoldsKey(r, v, l)
    BY <1>2, <2>1, <2>2 DEF TypeOK
  <2>6. \A h \in Goals : origin[h] # NoRequest => origin'[h] # NoRequest
    BY <2>1, <2>3 DEF TypeOK
  <2>7. \A h \in Goals : Exists(h)' => Exists(h) \/ origin'[h] # NoRequest
    BY <2>1, <2>3 DEF TypeOK, Exists
  <2>8. Touched(r)
    BY <2>4, <2>5, <2>6, <2>7 DEF Touched
  <2> QED
    BY <2>1, <2>8, AnswerDiscipline
<1> QED
  BY <1>3, <1>4, <1>5, <1>6

(* LockRow is the entrance of PATCH, PUT and DELETE. *)
LEMMA LockRowDiscipline ==
  ASSUME TypeOK, TypeOK', Discipline, NEW r \in Reqs,
         req[r].kind \in {"patch", "put", "delete"}, LockRow(r)
  PROVE  Discipline'
<1> DEFINE g == req[r].goal
<1>1. g \in Goals
  BY KindFields
<1>2. CASE Refuse(r)
  BY <1>2, RefuseDiscipline
<1>3. CASE Exists(g) /\ RowFree(g) /\ Goto(r, "locked", goal[g])
  <2>1. pc'[r] = "locked" /\ req' = req /\ goal' = goal /\ origin' = origin /\ cur'[r] = goal[g]
    BY <1>3 DEF Goto, TypeOK, database, history
  <2>2. goal[g] \in Rows
    BY <1>1, <1>3 DEF TypeOK, Exists
  <2>3. Taken(r)
    BY <1>1, <1>3, <2>1 DEF RowFree, Taken, HoldsRow, HoldsKey
  <2>4. origin[g] # NoRequest
    BY DEF Discipline, IdOK
  <2>5. Own(r)'
    BY <1>3, <2>1, <2>2, <2>4 DEF Own, SlotOK, LockOK, PatchOK, PutOK, KeyOK, Exists
  <2> QED
    BY <1>3, <2>3, <2>5, GotoDiscipline
<1> QED
  BY <1>2, <1>3 DEF LockRow, Owned

(* From the check under the lock to the COMMIT. *)
LEMMA AcceptDiscipline ==
  ASSUME TypeOK, TypeOK', Discipline, NEW r \in Reqs, req[r].kind \in {"patch", "put"},
         pc[r] = "locked", Goto(r, "accepted", cur[r]), PatchOK(r)', PutOK(r)'
  PROVE  Discipline'
<1>1. pc'[r] = "accepted" /\ req' = req /\ goal' = goal /\ origin' = origin /\ cur'[r] = cur[r]
  BY DEF Goto, TypeOK, database, history
<1>2. SlotOK(r) /\ LockOK(r) /\ origin[req[r].goal] # NoRequest
  BY DEF Discipline, IdOK
<1>3. Taken(r)
  BY <1>1 DEF Taken, HoldsRow, HoldsKey
<1>4. Own(r)'
  BY <1>1, <1>2 DEF Own, SlotOK, LockOK, KeyOK, Exists
<1> QED
  BY <1>3, <1>4, GotoDiscipline

(* A COMMIT that changes nothing but the locked row and its records. *)
LEMMA CommitDiscipline ==
  ASSUME TypeOK, TypeOK', Discipline, NEW r \in Reqs, Answer(r),
         NEW g \in Goals, HoldsRow(r, g), goal[g] # NoGoal,
         \A h \in Goals \ {g} : goal'[h] = goal[h] /\ log'[h] = log[h],
         \A u \in Users, k \in Keys : op'[u][k] # op[u][k] =>
           op[u][k] # NoOp /\ op'[u][k] # NoOp /\ op'[u][k].body = op[u][k].body,
         origin' = origin
  PROVE  Discipline'
<1>1. Touched(r)
  BY DEF Touched, Exists
<1> QED
  BY <1>1, AnswerDiscipline

LEMMA EditDiscipline ==
  ASSUME TypeOK, TypeOK', Discipline, NEW r \in Reqs,
         UpdateLock(r) \/ UpdateJudge(r) \/ UpdateCommit(r)
  PROVE  Discipline'
<1> DEFINE g == req[r].goal
           c == req[r].change
<1>1. req[r].kind = "patch" /\ g \in Goals /\ SlotOK(r) /\ LockOK(r)
  BY KindFields DEF Discipline, UpdateLock, UpdateJudge, UpdateCommit
<1>2. CASE UpdateLock(r)
  BY <1>1, <1>2, LockRowDiscipline DEF UpdateLock
<1>3. CASE UpdateJudge(r)
  <2>1. CASE Refuse(r)
    BY <2>1, RefuseDiscipline
  <2>2. CASE /\ PatchVerdict(cur[r], req[r], Today(Patched(c.tz, cur[r].set.tz)), HasLogs(g))
                = "updated"
             /\ Goto(r, "accepted", cur[r])
    <3>1. /\ req[r].rev = cur[r].rev /\ req[r].arev \in {Keep, cur[r].arev}
          /\ ~QuestionTokenMisused(req[r])
          /\ UnitLocked(cur[r]) => ~Touches(c.unit, cur[r].set.unit)
          /\ ~R02Violated(cur[r], c, HasLogs(g))
          /\ ~SameGoalSettings(cur[r].set, c) => cur[r].rev # MaxRevision
          /\ QuestionAnswersChanged(cur[r], c) => cur[r].arev # MaxAnswerRevision
      BY <2>2 DEF PatchVerdict, RevisionExhausted
    <3>2. cur[r].rev \in 0 .. MaxRevision /\ cur[r].arev \in 0 .. MaxAnswerRevision
      BY <1>1, <1>3 DEF UpdateJudge, SlotOK, Rows
    <3>3. (cur[r].rev # MaxRevision => cur[r].rev < MaxRevision)
          /\ (cur[r].arev # MaxAnswerRevision => cur[r].arev < MaxAnswerRevision)
      BY <3>2, RulesAssumption
    <3>4. pc'[r] = "accepted" /\ req' = req /\ log' = log /\ cur'[r] = cur[r]
      BY <2>2 DEF Goto, TypeOK, database
    <3>5. PatchOK(r)' /\ PutOK(r)'
      BY <1>1, <3>1, <3>3, <3>4 DEF PatchOK, PutOK, HasLogs
    <3> QED
      BY <1>1, <1>3, <2>2, <3>5, AcceptDiscipline DEF UpdateJudge
  <2> QED
    BY <1>3, <2>1, <2>2 DEF UpdateJudge
<1>4. CASE UpdateCommit(r)
  <2>1. HoldsRow(r, g) /\ goal[g] # NoGoal
    BY <1>1, <1>4 DEF UpdateCommit, HoldsRow, LockOK, Exists
  <2>2. Answer(r) /\ goal' = [goal EXCEPT ![g] = PatchedRow(cur[r], c)]
        /\ log' = log /\ op' = op /\ origin' = origin
    BY <1>4 DEF UpdateCommit, history
  <2>3. \A h \in Goals \ {g} : goal'[h] = goal[h] /\ log'[h] = log[h]
    BY <2>2 DEF TypeOK
  <2> QED
    BY <1>1, <2>1, <2>2, <2>3, CommitDiscipline
<1> QED
  BY <1>2, <1>3, <1>4

LEMMA RecordDiscipline ==
  ASSUME TypeOK, TypeOK', Discipline, NEW r \in Reqs,
         PutLock(r) \/ PutJudge(r) \/ PutCommit(r)
  PROVE  Discipline'
<1> DEFINE g == req[r].goal
           d == req[r].date
           today == Today(cur[r].set.tz)
<1>1. req[r].kind = "put" /\ g \in Goals /\ SlotOK(r) /\ LockOK(r)
  BY KindFields DEF Discipline, PutLock, PutJudge, PutCommit
<1>2. CASE PutLock(r)
  BY <1>1, <1>2, LockRowDiscipline DEF PutLock
<1>3. CASE PutJudge(r)
  <2>1. CASE Refuse(r)
    BY <2>1, RefuseDiscipline
  <2>2. CASE /\ SameRevision(cur[r], req[r].rev) /\ LogVerdict(cur[r], d, today) = "saved"
             /\ Goto(r, "accepted", cur[r])
    <3>1. d \in {today, today - 1} /\ ~(d < cur[r].start)
      BY <2>2 DEF LogVerdict
    <3>2. cur[r].start \in Days /\ cur[r].set.tz \in Zones
      BY <1>1, <1>3 DEF PutJudge, SlotOK, Rows, Settings
    <3>3. today \in Days
      BY <3>2, TodayType DEF TypeOK
    <3>4. d \in Days /\ cur[r].start <= d /\ d <= today
      BY <3>1, <3>2, <3>3, RulesAssumption DEF Days
    <3>5. pc'[r] = "accepted" /\ req' = req /\ now' = now /\ cur'[r] = cur[r]
      BY <2>2 DEF Goto, TypeOK
    <3>6. PatchOK(r)' /\ PutOK(r)'
      BY <1>1, <2>2, <3>4, <3>5 DEF PatchOK, PutOK, SameRevision, Today
    <3> QED
      BY <1>1, <1>3, <2>2, <3>6, AcceptDiscipline DEF PutJudge
  <2> QED
    BY <1>3, <2>1, <2>2 DEF PutJudge
<1>4. CASE PutCommit(r)
  <2>1. HoldsRow(r, g) /\ goal[g] # NoGoal
    BY <1>1, <1>4 DEF PutCommit, HoldsRow, LockOK, Exists
  <2>2. Answer(r) /\ goal' = [goal EXCEPT ![g] = Marked(goal[g], req[r].status)]
        /\ log' = [log EXCEPT ![g][d] = req[r].status] /\ op' = op /\ origin' = origin
    BY <1>4 DEF PutCommit
  <2>3. \A h \in Goals \ {g} : goal'[h] = goal[h] /\ log'[h] = log[h]
    BY <2>2 DEF TypeOK
  <2> QED
    BY <1>1, <2>1, <2>2, <2>3, CommitDiscipline
<1> QED
  BY <1>2, <1>3, <1>4

LEMMA RemoveDiscipline ==
  ASSUME TypeOK, TypeOK', Discipline, NEW r \in Reqs, DeleteLock(r) \/ DeleteCommit(r)
  PROVE  Discipline'
<1> DEFINE g == req[r].goal
<1>1. req[r].kind = "delete" /\ g \in Goals /\ LockOK(r)
  BY KindFields DEF Discipline, DeleteLock, DeleteCommit
<1>2. CASE DeleteLock(r)
  BY <1>1, <1>2, LockRowDiscipline DEF DeleteLock
<1>3. CASE DeleteCommit(r)
  <2>1. HoldsRow(r, g) /\ goal[g] # NoGoal
    BY <1>1, <1>3 DEF DeleteCommit, HoldsRow, LockOK, Exists
  <2>2. Answer(r) /\ goal' = [goal EXCEPT ![g] = NoGoal] /\ log' = [log EXCEPT ![g] = NoLogs]
        /\ origin' = origin
    BY <1>3 DEF DeleteCommit
  <2>3. \A h \in Goals \ {g} : goal'[h] = goal[h] /\ log'[h] = log[h]
    BY <2>2 DEF TypeOK
  <2>4. ASSUME NEW u \in Users, NEW k \in Keys, op'[u][k] # op[u][k]
        PROVE  op[u][k] # NoOp /\ op'[u][k] = Tombstone(op[u][k])
    BY <1>3, <2>4 DEF DeleteCommit
  <2>5. ASSUME NEW u \in Users, NEW k \in Keys, op[u][k] # NoOp
        PROVE  Tombstone(op[u][k]) \in Ops /\ Tombstone(op[u][k]).body = op[u][k].body
    <3>1. op[u][k] \in Ops
      BY <2>5 DEF TypeOK
    <3> QED
      BY <3>1, TombstoneType
  <2>6. NoOp \notin Ops
    BY StoreAssumption DEF Ops
  <2> QED
    BY <1>1, <2>1, <2>2, <2>3, <2>4, <2>5, <2>6, CommitDiscipline
<1> QED
  BY <1>2, <1>3

(* The clock alone may move: what was judged stays true. *)
LEMMA ClockDiscipline ==
  ASSUME TypeOK, TypeOK', Discipline, now <= now',
         UNCHANGED <<goal, log, op, pc, req, cur, origin>>
  PROVE  Discipline'
<1>1. UNCHANGED <<goal, log, op, pc, req, cur, origin>> /\ now \in Instants /\ now' \in Instants
      /\ now <= now'
  BY DEF TypeOK
<1>2. ASSUME NEW r \in Reqs
      PROVE  (SlotOK(r) /\ LockOK(r) /\ PatchOK(r) /\ PutOK(r) /\ KeyOK(r))'
  <2>1. SlotOK(r) /\ LockOK(r) /\ PatchOK(r) /\ PutOK(r) /\ KeyOK(r)
    BY DEF Discipline
  <2>2. (SlotOK(r) /\ LockOK(r) /\ PatchOK(r) /\ KeyOK(r))'
    BY <1>1, <2>1 DEF SlotOK, LockOK, PatchOK, KeyOK, Exists, HasLogs
  <2>3. ASSUME pc[r] = "accepted", req[r].kind = "put"
        PROVE  Today(cur[r].set.tz) <= Today(cur[r].set.tz)'
               /\ Today(cur[r].set.tz) \in Days /\ Today(cur[r].set.tz)' \in Days
    <3>1. cur[r].set.tz \in Zones
      BY <2>1, <2>3 DEF SlotOK, Rows, Settings
    <3> QED
      BY <1>1, <3>1, CalendarAssumption DEF Today
  <2>4. PutOK(r)'
    BY <1>1, <2>1, <2>3, RulesAssumption DEF PutOK, Days
  <2> QED
    BY <2>2, <2>4
<1>3. OneHolder' /\ OneKeyHolder' /\ IdOK'
  BY <1>1 DEF Discipline, OneHolder, OneKeyHolder, IdOK, HoldsRow, HoldsKey, Exists
<1> QED
  BY <1>2, <1>3 DEF Discipline

LEMMA DisciplineStep ==
  ASSUME TypeOK, TypeOK', Discipline, [Next]_vars
  PROVE  Discipline'
<1>1. CASE UNCHANGED vars
  <2>1. now <= now'
    BY <1>1 DEF vars, TypeOK, Instants
  <2> QED
    BY <1>1, <2>1, ClockDiscipline DEF vars
<1>2. ASSUME NEW r \in Reqs, Arrive(r) \/ Work(r) \/ Abort(r)
      PROVE  Discipline'
  <2>1. CASE Abort(r)
    BY <2>1, RefuseDiscipline DEF Abort
  <2> QED
    BY <1>2, <2>1, ArriveDiscipline, CreateDiscipline, EditDiscipline, RecordDiscipline,
       RemoveDiscipline DEF Work
<1>3. CASE Tick
  <2>1. now <= now'
    BY <1>3 DEF Tick, TypeOK, Instants
  <2> QED
    BY <1>3, <2>1, ClockDiscipline DEF Tick, database, history
<1> QED
  BY <1>1, <1>2, <1>3 DEF Next

LEMMA InitDiscipline == Init => TypeOK /\ Discipline
<1> SUFFICES ASSUME Init PROVE TypeOK /\ Discipline
  OBVIOUS
<1>1. TypeOK
  BY RulesAssumption DEF Init, TypeOK, Instants, NoLogs
<1>2. Discipline
  BY DEF Init, Discipline, SlotOK, LockOK, PatchOK, PutOK, KeyOK, OneHolder, OneKeyHolder,
         IdOK, HoldsRow, HoldsKey, Exists, NoRequest
<1> QED
  BY <1>1, <1>2

(* In every reachable state the tables, the slots and the history have      *)
(* their types; in particular the revisions never pass their maximum and    *)
(* every record lies on a day of the calendar.                              *)
THEOREM TypeCorrect == Spec => []TypeOK
<1>1. TypeOK /\ Discipline /\ [Next]_vars => TypeOK' /\ Discipline'
  BY TypeStep, DisciplineStep
<1> QED
  BY <1>1, InitDiscipline, PTL DEF Spec

(* Whoever has passed SELECT ... FOR UPDATE works on the committed row, is  *)
(* alone with it, and what it checked there is true until it commits.       *)
THEOREM LocksHold == Spec => []Discipline
<1>1. TypeOK /\ Discipline /\ [Next]_vars => TypeOK' /\ Discipline'
  BY TypeStep, DisciplineStep
<1> QED
  BY <1>1, InitDiscipline, PTL DEF Spec

-----------------------------------------------------------------------------
(* What a commit does. *)

Quiet == UNCHANGED <<goal, log, op, origin, shown>> /\ now <= now'

Commit(r) == CreateCommit(r) \/ UpdateCommit(r) \/ PutCommit(r) \/ DeleteCommit(r)

LEMMA QuietOrCommit ==
  ASSUME TypeOK, TypeOK', [Next]_vars
  PROVE  Quiet \/ \E r \in Reqs : Commit(r)
<1>1. now \in Int /\ now <= now
  BY DEF TypeOK, Instants
<1>2. ASSUME NEW r \in Reqs, Refuse(r) PROVE Quiet
  BY <1>1, <1>2 DEF Refuse, Answer, Quiet, database, history
<1>3. ASSUME NEW r \in Reqs, NEW where, NEW row, Goto(r, where, row) PROVE Quiet
  BY <1>1, <1>3 DEF Goto, Quiet, database, history
<1>4. ASSUME NEW r \in Reqs, NEW kind, NEW g,
             Tell(r, kind, g), UNCHANGED <<database, origin, shown>>
      PROVE  Quiet
  BY <1>1, <1>4 DEF Tell, Answer, Quiet, database
<1>5. ASSUME NEW r \in Reqs, NEW request, Submit(r, request) PROVE Quiet
  BY <1>1, <1>5 DEF Submit, Quiet, database, history
<1>6. CASE UNCHANGED vars
  BY <1>1, <1>6 DEF vars, Quiet
<1>7. CASE Tick
  BY <1>7 DEF Tick, TypeOK, Instants, Quiet, database, history
<1>8. ASSUME NEW r \in Reqs, Arrive(r) PROVE Quiet
  BY <1>5, <1>8 DEF Arrive, SubmitCreate, SubmitPatch, SubmitPut, SubmitDelete
<1>9. ASSUME NEW r \in Reqs, Abort(r) PROVE Quiet
  BY <1>2, <1>9 DEF Abort
<1>10. ASSUME NEW r \in Reqs, Work(r) PROVE Quiet \/ Commit(r)
  <2>1. CASE CreateReserve(r) \/ CreateInsert(r)
    BY <1>2, <1>3, <2>1 DEF CreateReserve, CreateInsert
  <2>2. CASE ReplayAnswer(r)
    BY <1>2, <1>4, <2>2 DEF ReplayAnswer
  <2>3. CASE UpdateLock(r) \/ PutLock(r) \/ DeleteLock(r)
    BY <1>2, <1>3, <2>3 DEF UpdateLock, PutLock, DeleteLock, LockRow
  <2>4. CASE UpdateJudge(r) \/ PutJudge(r)
    BY <1>2, <1>3, <2>4 DEF UpdateJudge, PutJudge
  <2> QED
    BY <1>10, <2>1, <2>2, <2>3, <2>4 DEF Work, Commit
<1> QED
  BY <1>6, <1>7, <1>8, <1>9, <1>10 DEF Next

Still(s) == pc'[s] = pc[s] /\ req'[s] = req[s] /\ cur'[s] = cur[s]

LEMMA OneSlotMoves ==
  ASSUME TypeOK, [Next]_vars, NEW s \in Reqs
  PROVE  Still(s) \/ Arrive(s) \/ Work(s) \/ Abort(s)
<1>1. ASSUME NEW r \in Reqs \ {s}, Answer(r) PROVE Still(s)
  BY <1>1 DEF Answer, Still, TypeOK
<1>2. ASSUME NEW r \in Reqs \ {s}, NEW where, NEW row, Goto(r, where, row) PROVE Still(s)
  BY <1>2 DEF Goto, Still, TypeOK
<1>3. ASSUME NEW r \in Reqs \ {s}, NEW request, Submit(r, request) PROVE Still(s)
  BY <1>3 DEF Submit, Still, TypeOK
<1>4. CASE UNCHANGED vars \/ Tick
  BY <1>4 DEF vars, Tick, Still
<1>5. ASSUME NEW r \in Reqs \ {s}, Arrive(r) PROVE Still(s)
  BY <1>3, <1>5 DEF Arrive, SubmitCreate, SubmitPatch, SubmitPut, SubmitDelete
<1>6. ASSUME NEW r \in Reqs \ {s}, Abort(r) PROVE Still(s)
  BY <1>1, <1>6 DEF Abort, Refuse
<1>7. ASSUME NEW r \in Reqs \ {s}, Work(r) PROVE Still(s)
  <2>1. CASE CreateReserve(r) \/ CreateInsert(r)
    BY <1>1, <1>2, <2>1 DEF CreateReserve, CreateInsert, Refuse
  <2>2. CASE ReplayAnswer(r) \/ CreateCommit(r)
    BY <1>1, <2>2 DEF ReplayAnswer, CreateCommit, Tell, Refuse
  <2>3. CASE UpdateLock(r) \/ PutLock(r) \/ DeleteLock(r)
    BY <1>1, <1>2, <2>3 DEF UpdateLock, PutLock, DeleteLock, LockRow, Refuse
  <2>4. CASE UpdateJudge(r) \/ PutJudge(r)
    BY <1>1, <1>2, <2>4 DEF UpdateJudge, PutJudge, Refuse
  <2>5. CASE UpdateCommit(r) \/ PutCommit(r) \/ DeleteCommit(r)
    BY <1>1, <2>5 DEF UpdateCommit, PutCommit, DeleteCommit
  <2> QED
    BY <1>7, <2>1, <2>2, <2>3, <2>4, <2>5 DEF Work
<1> QED
  BY <1>4, <1>5, <1>6, <1>7 DEF Next

-----------------------------------------------------------------------------
(* What a commit does. *)

(* A creation fills a row nobody has asked for. *)
LEMMA CreateEffect ==
  ASSUME TypeOK, Discipline, NEW r \in Reqs, CreateCommit(r)
  PROVE  \E g \in Goals :
           /\ ~Exists(g) /\ origin[g] = NoRequest /\ goal'[g] = cur[r]
           /\ \A h \in Goals \ {g} : goal'[h] = goal[h]
           /\ \A h \in Goals : goal'[h] # goal[h] => ~Exists(h) /\ origin[h] = NoRequest
           /\ log' = log /\ shown' = shown /\ now' = now
<1>1. PICK g \in Goals :
        /\ origin[g] = NoRequest /\ goal' = [goal EXCEPT ![g] = cur[r]]
        /\ log' = log /\ shown' = shown /\ now' = now
  BY DEF CreateCommit, Tell, Answer
<1>2. ~Exists(g)
  BY <1>1 DEF Discipline, IdOK
<1>3. goal'[g] = cur[r] /\ \A h \in Goals \ {g} : goal'[h] = goal[h]
  BY <1>1 DEF TypeOK
<1> QED
  BY <1>1, <1>2, <1>3

(* A PATCH rewrites the row it holds, which still is as it was judged. *)
LEMMA EditEffect ==
  ASSUME TypeOK, Discipline, NEW r \in Reqs, UpdateCommit(r)
  PROVE  /\ req[r] \in Patches /\ req[r].goal \in Goals /\ goal[req[r].goal] \in Rows
         /\ Exists(req[r].goal) /\ cur[r] = goal[req[r].goal] /\ PatchOK(r)
         /\ goal'[req[r].goal] = PatchedRow(goal[req[r].goal], req[r].change)
         /\ goal'[req[r].goal] \in Rows
         /\ \A h \in Goals \ {req[r].goal} : goal'[h] = goal[h]
         /\ log' = log /\ op' = op /\ shown' = shown /\ origin' = origin /\ now' = now
<1>1. req[r].kind = "patch" /\ SlotOK(r) /\ LockOK(r) /\ PatchOK(r)
  BY DEF UpdateCommit, Discipline
<1>2. req[r] \in Patches
  BY <1>1, RequestKinds DEF TypeOK
<1>3. req[r].goal \in Goals
  BY <1>2 DEF Patches
<1>4. Exists(req[r].goal) /\ cur[r] = goal[req[r].goal] /\ goal[req[r].goal] \in Rows
  BY <1>1, <1>3 DEF LockOK, UpdateCommit, Exists, TypeOK
<1>5. PatchedRow(cur[r], req[r].change) \in Rows
  BY <1>1, <1>2, <1>4, PatchedRowType DEF Patches, PatchOK, UpdateCommit
<1> QED
  BY <1>1, <1>2, <1>3, <1>4, <1>5 DEF UpdateCommit, Answer, history, TypeOK

(* A PUT records a day of the row it holds and at most marks the row. *)
LEMMA RecordEffect ==
  ASSUME TypeOK, Discipline, NEW r \in Reqs, PutCommit(r)
  PROVE  /\ req[r] \in Puts /\ req[r].goal \in Goals /\ goal[req[r].goal] \in Rows
         /\ Exists(req[r].goal) /\ cur[r] = goal[req[r].goal] /\ PutOK(r)
         /\ goal'[req[r].goal] = Marked(goal[req[r].goal], req[r].status)
         /\ goal'[req[r].goal] \in Rows
         /\ \A h \in Goals \ {req[r].goal} : goal'[h] = goal[h]
         /\ \A h \in Goals, d \in Days : log'[h][d] # log[h][d] =>
              h = req[r].goal /\ d = req[r].date
         /\ op' = op /\ origin' = origin /\ now' = now
<1>1. req[r].kind = "put" /\ SlotOK(r) /\ LockOK(r) /\ PutOK(r)
  BY DEF PutCommit, Discipline
<1>2. req[r] \in Puts
  BY <1>1, RequestKinds DEF TypeOK
<1>3. req[r].goal \in Goals
  BY <1>2 DEF Puts
<1>4. Exists(req[r].goal) /\ cur[r] = goal[req[r].goal] /\ goal[req[r].goal] \in Rows
  BY <1>1, <1>3 DEF LockOK, PutCommit, Exists, TypeOK
<1>5. Marked(goal[req[r].goal], req[r].status) \in Rows
  BY <1>4, MarkedType
<1>6. log' = [log EXCEPT ![req[r].goal][req[r].date] = req[r].status]
  BY DEF PutCommit
<1>7. \A h \in Goals, d \in Days : log'[h][d] # log[h][d] =>
        h = req[r].goal /\ d = req[r].date
  BY <1>3, <1>6 DEF TypeOK
<1> QED
  BY <1>1, <1>2, <1>3, <1>4, <1>5, <1>7 DEF PutCommit, Answer, TypeOK

LEMMA RemoveEffect ==
  ASSUME TypeOK, Discipline, NEW r \in Reqs, DeleteCommit(r)
  PROVE  /\ req[r].goal \in Goals /\ goal'[req[r].goal] = NoGoal
         /\ \A h \in Goals \ {req[r].goal} :
              goal'[h] = goal[h] /\ log'[h] = log[h] /\ shown'[h] = shown[h]
         /\ log'[req[r].goal] = NoLogs
         /\ shown'[req[r].goal] = [d \in Days |-> NoUnit]
         /\ origin' = origin /\ now' = now
<1>1. req[r].goal \in Goals
  BY KindFields DEF DeleteCommit
<1>2. /\ goal' = [goal EXCEPT ![req[r].goal] = NoGoal]
      /\ log' = [log EXCEPT ![req[r].goal] = NoLogs]
      /\ shown' = [shown EXCEPT ![req[r].goal] = [d \in Days |-> NoUnit]]
      /\ origin' = origin /\ now' = now
  BY DEF DeleteCommit, Answer
<1>3. goal'[req[r].goal] = NoGoal /\ log'[req[r].goal] = NoLogs
      /\ shown'[req[r].goal] = [d \in Days |-> NoUnit]
  BY <1>1, <1>2 DEF TypeOK
<1>4. \A h \in Goals \ {req[r].goal} :
        goal'[h] = goal[h] /\ log'[h] = log[h] /\ shown'[h] = shown[h]
  BY <1>1, <1>2 DEF TypeOK
<1> QED
  BY <1>1, <1>2, <1>3, <1>4

LEMMA MarkedKeeps ==
  ASSUME NEW row \in Rows, NEW status
  PROVE  /\ Marked(row, status).set = row.set /\ Marked(row, status).start = row.start
         /\ Marked(row, status).rev = row.rev /\ Marked(row, status).answers = row.answers
         /\ Marked(row, status).arev = row.arev
         /\ Marked(row, status).snapshot = row.snapshot
         /\ (row.locked \/ status = "DONE") => Marked(row, status).locked
BY DEF Marked, Rows

-----------------------------------------------------------------------------
(* R-02. *)

(* A PATCH that was judged on a goal with a record keeps zone and amount. *)
LEMMA EditKeepsBasis ==
  ASSUME TypeOK, Discipline, NEW r \in Reqs, UpdateCommit(r), HasLogs(req[r].goal)
  PROVE  /\ goal'[req[r].goal].set.tz = goal[req[r].goal].set.tz
         /\ goal'[req[r].goal].set.initial = goal[req[r].goal].set.initial
         /\ goal'[req[r].goal].start = goal[req[r].goal].start
<1> DEFINE c == req[r].change
           row == goal[req[r].goal]
<1>1. PatchOK(r) /\ cur[r] = row /\ goal'[req[r].goal] = PatchedRow(row, c)
  BY EditEffect
<1>2. ~R02Violated(row, c, HasLogs(req[r].goal))
  BY <1>1 DEF PatchOK, UpdateCommit
<1>3. ~Touches(c.tz, row.set.tz) /\ ~Touches(c.initial, row.set.initial)
  BY <1>2 DEF R02Violated
<1> QED
  BY <1>1, <1>3 DEF PatchedRow, PatchedSettings, Patched, Touches

BasisStays(g) ==
  (\E d \in Days : log[g][d] # "UNRECORDED") /\ Exists(g) /\ Exists(g)' =>
    /\ goal'[g].set.tz = goal[g].set.tz
    /\ goal'[g].set.initial = goal[g].set.initial
    /\ goal'[g].start = goal[g].start

LEMMA BasisStep ==
  ASSUME TypeOK, TypeOK', Discipline, [Next]_vars, NEW g \in Goals
  PROVE  BasisStays(g)
<1>1. CASE Quiet
  BY <1>1 DEF Quiet, BasisStays
<1>2. ASSUME NEW r \in Reqs, Commit(r) PROVE BasisStays(g)
  <2>1. CASE CreateCommit(r)
    BY <2>1, CreateEffect DEF BasisStays
  <2>2. CASE UpdateCommit(r)
    <3>1. CASE g = req[r].goal
      BY <2>2, <3>1, EditKeepsBasis DEF BasisStays, HasLogs
    <3> QED
      BY <2>2, <3>1, EditEffect DEF BasisStays
  <2>3. CASE PutCommit(r)
    <3>1. CASE g = req[r].goal
      <4>1. goal[g] \in Rows /\ goal'[g] = Marked(goal[g], req[r].status)
        BY <2>3, <3>1, RecordEffect
      <4> QED
        BY <4>1, MarkedKeeps DEF BasisStays
    <3> QED
      BY <2>3, <3>1, RecordEffect DEF BasisStays
  <2>4. CASE DeleteCommit(r)
    <3>1. CASE g = req[r].goal
      BY <2>4, <3>1, RemoveEffect DEF BasisStays, Exists
    <3> QED
      BY <2>4, <3>1, RemoveEffect DEF BasisStays
  <2> QED
    BY <1>2, <2>1, <2>2, <2>3, <2>4 DEF Commit
<1> QED
  BY <1>1, <1>2, QuietOrCommit

(* R-02 for every number of clients: whatever PATCH and PUT race, a goal    *)
(* with a record keeps its zone, its initial amount and its start day,      *)
(* because hasLogs is read under the row lock a PUT needs, too.             *)
THEOREM BasisIsFrozen == Spec => RecordsFreezeTheirBasis
<1>1. TypeOK /\ TypeOK' /\ Discipline /\ [Next]_vars =>
        [\A g \in Goals : BasisStays(g)]_vars
  BY BasisStep
<1>2. Spec => [][\A g \in Goals : BasisStays(g)]_vars
  BY <1>1, TypeCorrect, LocksHold, PTL DEF Spec
<1> QED
  BY <1>2 DEF RecordsFreezeTheirBasis, BasisStays

-----------------------------------------------------------------------------
(* R-03, R-04. *)

InThePast(g, d) ==
  log[g][d] # "UNRECORDED" =>
    Exists(g) /\ goal[g].start <= d /\ d <= Today(goal[g].set.tz)

LEMMA PastStep ==
  ASSUME TypeOK, TypeOK', Discipline, [Next]_vars,
         NEW g \in Goals, NEW d \in Days, InThePast(g, d)
  PROVE  InThePast(g, d)'
<1> SUFFICES ASSUME log'[g][d] # "UNRECORDED"
             PROVE  goal'[g] # NoGoal /\ goal'[g].start <= d
                    /\ d <= LocalDateIn[now'][goal'[g].set.tz]
  BY DEF InThePast, Exists, Today
<1>1. CASE Quiet
  <2>1. goal'[g] = goal[g] /\ log'[g] = log[g] /\ now <= now' /\ Exists(g)
    BY <1>1 DEF Quiet, InThePast
  <2>2. goal[g].set.tz \in Zones
    BY <2>1 DEF TypeOK, Exists, Rows, Settings
  <2>3. Today(goal[g].set.tz) \in Days /\ LocalDateIn[now'][goal[g].set.tz] \in Days
        /\ Today(goal[g].set.tz) <= LocalDateIn[now'][goal[g].set.tz]
    BY <2>1, <2>2, CalendarAssumption DEF Today, TypeOK
  <2> QED
    BY <2>1, <2>3, RulesAssumption DEF InThePast, Exists, Days
<1>2. ASSUME NEW r \in Reqs, CreateCommit(r)
      PROVE  goal'[g] # NoGoal /\ goal'[g].start <= d
             /\ d <= LocalDateIn[now'][goal'[g].set.tz]
  <2>1. log' = log /\ now' = now /\ (goal'[g] # goal[g] => ~Exists(g))
    BY <1>2, CreateEffect
  <2> QED
    BY <2>1 DEF InThePast, Exists, Today
<1>3. ASSUME NEW r \in Reqs, UpdateCommit(r)
      PROVE  goal'[g] # NoGoal /\ goal'[g].start <= d
             /\ d <= LocalDateIn[now'][goal'[g].set.tz]
  <2>1. log' = log /\ now' = now /\ Exists(g) /\ HasLogs(g)
    BY <1>3, EditEffect DEF InThePast, HasLogs
  <2>2. goal'[g] # NoGoal
    BY <1>3, <2>1, EditEffect, StoreAssumption DEF Exists
  <2>3. BasisStays(g)
    BY BasisStep
  <2> QED
    BY <2>1, <2>2, <2>3 DEF BasisStays, HasLogs, InThePast, Exists, Today
<1>4. ASSUME NEW r \in Reqs, PutCommit(r)
      PROVE  goal'[g] # NoGoal /\ goal'[g].start <= d
             /\ d <= LocalDateIn[now'][goal'[g].set.tz]
  <2>1. CASE g = req[r].goal
    <3>1. goal[g] \in Rows /\ goal'[g] = Marked(goal[g], req[r].status) /\ goal'[g] \in Rows
          /\ now' = now
      BY <1>4, <2>1, RecordEffect
    <3>2. goal'[g].start = goal[g].start /\ goal'[g].set = goal[g].set
      BY <3>1, MarkedKeeps
    <3>3. goal'[g] # NoGoal
      BY <3>1, StoreAssumption
    <3>4. d = req[r].date \/ log'[g][d] = log[g][d]
      BY <1>4, RecordEffect
    <3>5. CASE d = req[r].date
      <4>1. PutOK(r) /\ cur[r] = goal[g] /\ pc[r] = "accepted" /\ req[r].kind = "put"
        BY <1>4, <2>1, RecordEffect DEF PutCommit
      <4> QED
        BY <3>1, <3>2, <3>3, <3>5, <4>1 DEF PutOK, Today
    <3> QED
      BY <3>1, <3>2, <3>3, <3>4, <3>5 DEF InThePast, Today
  <2>2. CASE g # req[r].goal
    <3>1. goal'[g] = goal[g] /\ log'[g][d] = log[g][d] /\ now' = now
      BY <1>4, <2>2, RecordEffect
    <3> QED
      BY <3>1 DEF InThePast, Exists, Today
  <2> QED
    BY <2>1, <2>2
<1>5. ASSUME NEW r \in Reqs, DeleteCommit(r)
      PROVE  goal'[g] # NoGoal /\ goal'[g].start <= d
             /\ d <= LocalDateIn[now'][goal'[g].set.tz]
  <2>1. g # req[r].goal
    BY <1>5, RemoveEffect DEF NoLogs
  <2>2. goal'[g] = goal[g] /\ log'[g] = log[g] /\ now' = now
    BY <1>5, <2>1, RemoveEffect
  <2> QED
    BY <2>2 DEF InThePast, Exists, Today
<1> QED
  BY <1>1, <1>2, <1>3, <1>4, <1>5, QuietOrCommit DEF Commit

(* R-03, R-04 for every calendar whose zones never go back: no record lies  *)
(* before the start of its goal or in the future of its goal's zone.        *)
THEOREM NoFutureRecords == Spec => []RecordsLieInThePast
<1> DEFINE Inv == \A g \in Goals, d \in Days : InThePast(g, d)
<1>1. Init => Inv
  BY DEF Init, InThePast, NoLogs
<1>2. TypeOK /\ TypeOK' /\ Discipline /\ Inv /\ [Next]_vars => Inv'
  BY PastStep
<1>3. Inv => RecordsLieInThePast
  BY DEF RecordsLieInThePast, InThePast
<1> HIDE DEF Inv
<1> QED
  BY <1>1, <1>2, <1>3, TypeCorrect, LocksHold, PTL DEF Spec

-----------------------------------------------------------------------------
(* The saved answers and their prior. *)

LEMMA NewRowReadable ==
  ASSUME NEW user, NEW body, NEW today
  PROVE  ValidSavedQuestion(NewRow(user, body, today))
BY DEF ValidSavedQuestion, NewRow

LEMMA PatchedRowReadable ==
  ASSUME NEW row \in Rows, NEW c \in Changes, ValidSavedQuestion(row)
  PROVE  ValidSavedQuestion(PatchedRow(row, c))
<1> DEFINE new == PatchedRow(row, c)
<1>1. new.answers = NextAnswers(row, c) /\ new.snapshot = NextSnapshot(row, c)
      /\ new.start = row.start /\ new.set = PatchedSettings(row.set, c)
  BY DEF PatchedRow
<1>2. CASE QuestionContextChanged(row.set, c)
  BY <1>1, <1>2 DEF NextAnswers, NextSnapshot, ValidSavedQuestion, MakeQuestionSnapshot
<1>3. CASE ~QuestionContextChanged(row.set, c)
  <2>1. ContextOf(new.set, new.start) = ContextOf(row.set, row.start)
    BY <1>1, <1>3 DEF QuestionContextChanged, Touches, PatchedSettings, Patched, ContextOf
  <2> QED
    BY <1>1, <1>3, <2>1 DEF NextSnapshot, ValidSavedQuestion
<1> QED
  BY <1>2, <1>3

LEMMA MarkedReadable ==
  ASSUME NEW row \in Rows, NEW status, ValidSavedQuestion(row)
  PROVE  ValidSavedQuestion(Marked(row, status))
BY MarkedKeeps DEF ValidSavedQuestion

(* The rows in the table and the rows about to enter it. *)
Readable ==
  /\ \A g \in Goals : Exists(g) => ValidSavedQuestion(goal[g])
  /\ \A r \in Reqs : pc[r] = "accepted" /\ req[r].kind = "create" =>
       ValidSavedQuestion(cur[r])

(* The row an accepted POST carries was built by CreateInsert. *)
LEMMA AcceptedReadable ==
  ASSUME TypeOK, Discipline, Readable, [Next]_vars, NEW s \in Reqs,
         pc'[s] = "accepted", req'[s].kind = "create"
  PROVE  ValidSavedQuestion(cur'[s])
<1>1. CASE Still(s)
  BY <1>1 DEF Still, Readable
<1>2. CASE Arrive(s)
  <2>1. pc'[s] = "begin"
    BY <1>2 DEF Arrive, SubmitCreate, SubmitPatch, SubmitPut, SubmitDelete, Submit, TypeOK
  <2> QED
    BY <2>1
<1>3. ASSUME Answer(s) PROVE FALSE
  BY <1>3 DEF Answer, TypeOK
<1>4. CASE Abort(s)
  BY <1>3, <1>4 DEF Abort, Refuse
<1>5. CASE CreateInsert(s)
  <2>1. CASE Refuse(s)
    BY <1>3, <2>1 DEF Refuse
  <2>2. CASE ~Refuse(s)
    <3>1. PICK user, body, today : cur'[s] = NewRow(user, body, today)
      BY <1>5, <2>2 DEF CreateInsert, Goto, TypeOK
    <3> QED
      BY <3>1, NewRowReadable
  <2> QED
    BY <2>1, <2>2
<1>6. CASE CreateReserve(s) \/ UpdateLock(s) \/ PutLock(s) \/ DeleteLock(s)
  <2>1. pc'[s] \in {"reserved", "found", "locked", "idle"}
    BY <1>6 DEF CreateReserve, UpdateLock, PutLock, DeleteLock, LockRow, Goto, Refuse, Answer,
               TypeOK
  <2> QED
    BY <2>1
<1>7. CASE UpdateJudge(s) \/ PutJudge(s)
  <2>1. req[s].kind \in {"patch", "put"} /\ (req' = req \/ Answer(s))
    BY <1>7 DEF UpdateJudge, PutJudge, Goto, Refuse
  <2> QED
    BY <1>3, <2>1
<1>8. CASE ReplayAnswer(s) \/ Commit(s)
  BY <1>3, <1>8 DEF ReplayAnswer, Commit, CreateCommit, UpdateCommit, PutCommit, DeleteCommit,
                    Tell, Refuse
<1> QED
  BY <1>1, <1>2, <1>4, <1>5, <1>6, <1>7, <1>8, OneSlotMoves DEF Work, Commit

LEMMA ReadableStep ==
  ASSUME TypeOK, TypeOK', Discipline, Readable, [Next]_vars
  PROVE  Readable'
<1>1. ASSUME NEW g \in Goals, goal'[g] # NoGoal PROVE ValidSavedQuestion(goal'[g])
  <2>1. goal[g] # NoGoal => goal[g] \in Rows /\ ValidSavedQuestion(goal[g])
    BY DEF Readable, Exists, TypeOK
  <2>2. CASE Quiet
    BY <1>1, <2>1, <2>2 DEF Quiet
  <2>3. ASSUME NEW r \in Reqs, CreateCommit(r) PROVE ValidSavedQuestion(goal'[g])
    <3>1. ValidSavedQuestion(cur[r])
      BY <2>3 DEF CreateCommit, Readable
    <3>2. goal'[g] \in {goal[g], cur[r]}
      BY <2>3, CreateEffect
    <3> QED
      BY <1>1, <2>1, <3>1, <3>2
  <2>4. ASSUME NEW r \in Reqs, UpdateCommit(r) PROVE ValidSavedQuestion(goal'[g])
    <3>1. CASE g = req[r].goal
      <4>1. req[r].change \in Changes /\ goal[g] # NoGoal
            /\ goal'[g] = PatchedRow(goal[g], req[r].change)
        BY <2>4, <3>1, EditEffect DEF Patches, Exists
      <4> QED
        BY <2>1, <4>1, PatchedRowReadable
    <3> QED
      BY <1>1, <2>1, <2>4, <3>1, EditEffect
  <2>5. ASSUME NEW r \in Reqs, PutCommit(r) PROVE ValidSavedQuestion(goal'[g])
    <3>1. CASE g = req[r].goal
      <4>1. goal[g] # NoGoal /\ goal'[g] = Marked(goal[g], req[r].status)
        BY <2>5, <3>1, RecordEffect DEF Exists
      <4> QED
        BY <2>1, <4>1, MarkedReadable
    <3> QED
      BY <1>1, <2>1, <2>5, <3>1, RecordEffect
  <2>6. ASSUME NEW r \in Reqs, DeleteCommit(r) PROVE ValidSavedQuestion(goal'[g])
    BY <1>1, <2>1, <2>6, RemoveEffect
  <2> QED
    BY <2>2, <2>3, <2>4, <2>5, <2>6, QuietOrCommit DEF Commit
<1> QED
  BY <1>1, AcceptedReadable DEF Readable, Exists

(* R-11 for every set of answers, units, amounts and days: the prior in the *)
(* row always belongs to the answers and the settings in the row, so that   *)
(* validateSavedQuestion accepts every row the API writes.                  *)
THEOREM SavedQuestionsStayReadable == Spec => []SavedQuestionReadable
<1>1. Init => Readable
  BY DEF Init, Readable, Exists
<1>2. TypeOK /\ TypeOK' /\ Discipline /\ Readable /\ [Next]_vars => Readable'
  BY ReadableStep
<1>3. Readable => SavedQuestionReadable
  BY DEF Readable, SavedQuestionReadable
<1> QED
  BY <1>1, <1>2, <1>3, TypeCorrect, LocksHold, PTL DEF Spec

-----------------------------------------------------------------------------
(* What a page knows. *)

(* Revisions only grow, and nothing changes under the same revision. *)
Grown(old, new) ==
  /\ old.rev <= new.rev /\ old.arev <= new.arev
  /\ old.rev = new.rev => old.set = new.set
  /\ old.arev = new.arev => old.answers = new.answers

LEMMA PatchedRowGrown ==
  ASSUME NEW row \in Rows, NEW c \in Changes
  PROVE  Grown(row, PatchedRow(row, c))
<1> DEFINE new == PatchedRow(row, c)
<1>1. row.rev \in Int /\ row.arev \in Int
  BY RulesAssumption DEF Rows
<1>2. row.rev <= new.rev /\ row.arev <= new.arev
  BY <1>1 DEF PatchedRow
<1>3. ASSUME new.rev = row.rev PROVE new.set = row.set
  <2>1. SameGoalSettings(row.set, c)
    BY <1>1, <1>3 DEF PatchedRow
  <2>2. row.set \in Settings
    BY DEF Rows
  <2> QED
    BY <2>1, <2>2 DEF SameGoalSettings, Touches, PatchedRow, PatchedSettings, Patched, Settings
<1>4. ASSUME new.arev = row.arev PROVE new.answers = row.answers
  <2>1. ~QuestionAnswersChanged(row, c)
    BY <1>1, <1>4 DEF PatchedRow
  <2> QED
    BY <2>1 DEF QuestionAnswersChanged, PatchedRow
<1> QED
  BY <1>2, <1>3, <1>4 DEF Grown

LEMMA MarkedGrown ==
  ASSUME NEW row \in Rows, NEW status
  PROVE  Grown(row, Marked(row, status))
<1>1. row.rev \in Int /\ row.arev \in Int
  BY RulesAssumption DEF Rows
<1> QED
  BY <1>1, MarkedKeeps DEF Grown

LEMMA RowsGrow ==
  ASSUME TypeOK, TypeOK', Discipline, [Next]_vars, NEW g \in Goals,
         goal'[g] # NoGoal, origin[g] # NoRequest
  PROVE  goal[g] # NoGoal /\ goal[g] \in Rows /\ Grown(goal[g], goal'[g])
<1>1. goal[g] # NoGoal => goal[g] \in Rows /\ Grown(goal[g], goal[g])
  <2>1. ASSUME goal[g] # NoGoal PROVE goal[g] \in Rows
    BY <2>1 DEF TypeOK
  <2>2. ASSUME goal[g] # NoGoal PROVE goal[g].rev \in Int /\ goal[g].arev \in Int
    BY <2>1, <2>2, RulesAssumption DEF Rows
  <2> QED
    BY <2>1, <2>2 DEF Grown
<1>2. CASE Quiet
  BY <1>1, <1>2 DEF Quiet
<1>3. ASSUME NEW r \in Reqs, CreateCommit(r) PROVE goal'[g] = goal[g]
  BY <1>3, CreateEffect
<1>4. ASSUME NEW r \in Reqs, UpdateCommit(r), g = req[r].goal
      PROVE  goal[g] # NoGoal /\ goal[g] \in Rows /\ Grown(goal[g], goal'[g])
  <2>1. /\ goal[g] # NoGoal /\ goal[g] \in Rows /\ req[r].change \in Changes
        /\ goal'[g] = PatchedRow(goal[g], req[r].change)
    BY <1>4, EditEffect DEF Patches, Exists
  <2> QED
    BY <2>1, PatchedRowGrown
<1>5. ASSUME NEW r \in Reqs, PutCommit(r), g = req[r].goal
      PROVE  goal[g] # NoGoal /\ goal[g] \in Rows /\ Grown(goal[g], goal'[g])
  <2>1. /\ goal[g] # NoGoal /\ goal[g] \in Rows
        /\ goal'[g] = Marked(goal[g], req[r].status)
    BY <1>5, RecordEffect DEF Exists
  <2> QED
    BY <2>1, MarkedGrown
<1>6. ASSUME NEW r \in Reqs, DeleteCommit(r) PROVE goal'[g] = goal[g]
  BY <1>6, RemoveEffect
<1>7. ASSUME NEW r \in Reqs, UpdateCommit(r) \/ PutCommit(r), g # req[r].goal
      PROVE  goal'[g] = goal[g]
  BY <1>7, EditEffect, RecordEffect
<1> QED
  BY <1>1, <1>2, <1>3, <1>4, <1>5, <1>6, <1>7, QuietOrCommit DEF Commit

(* A page shows the settings and the answers of its revisions, or older     *)
(* ones.                                                                    *)
PageOK(q, row) ==
  q.kind \in {"patch", "put"} /\ row # NoGoal =>
    /\ q.rev <= row.rev
    /\ q.rev = row.rev => row.set = q.seen.set
    /\ q.kind = "patch" /\ q.arev # Keep =>
         q.arev <= row.arev /\ (q.arev = row.arev => row.answers = q.seen.answers)

PagesOK == \A s \in Reqs : PageOK(req[s], goal[req[s].goal])

LEMMA FreshPage ==
  ASSUME TypeOK, NEW s \in Reqs, Arrive(s)
  PROVE  goal' = goal /\ PageOK(req'[s], goal[req'[s].goal])
<1>1. goal' = goal
  BY DEF Arrive, SubmitCreate, SubmitPatch, SubmitPut, SubmitDelete, Submit, database
<1>2. ASSUME NEW request, Submit(s, request) PROVE req'[s] = request
  BY <1>2 DEF Submit, TypeOK
<1>3. CASE SubmitCreate(s)
  <2>1. req'[s].kind = "create"
    BY <1>2, <1>3 DEF SubmitCreate
  <2> QED
    BY <1>1, <2>1 DEF PageOK
<1>4. CASE SubmitDelete(s)
  <2>1. req'[s].kind = "delete"
    BY <1>2, <1>4 DEF SubmitDelete
  <2> QED
    BY <1>1, <2>1 DEF PageOK
<1>5. CASE SubmitPatch(s) \/ SubmitPut(s)
  <2>1. PICK g \in Goals :
          /\ goal[g] # NoGoal
          /\ req'[s].goal = g /\ req'[s].rev = goal[g].rev /\ req'[s].seen = Page(goal[g])
          /\ req'[s].kind = "put" \/ req'[s].arev \in {Keep, goal[g].arev}
    <3>1. CASE SubmitPatch(s)
      <4>1. PICK u, g, c, token :
              /\ g \in Goals /\ Exists(g) /\ token \in {Keep, goal[g].arev}
              /\ Submit(s, [kind |-> "patch", user |-> u, goal |-> g, rev |-> goal[g].rev,
                            arev |-> token, change |-> c, seen |-> Page(goal[g])])
        BY <3>1 DEF SubmitPatch
      <4> QED
        BY <1>2, <4>1 DEF Exists
    <3>2. CASE SubmitPut(s)
      <4>1. PICK u \in Users, g \in Goals, status \in {"DONE", "SKIPPED"}, shift \in -1 .. 1 :
              /\ Exists(g)
              /\ Submit(s, [kind |-> "put", user |-> u, goal |-> g, rev |-> goal[g].rev,
                            date |-> Today(goal[g].set.tz) + shift, status |-> status,
                            seen |-> Page(goal[g])])
        BY <3>2 DEF SubmitPut
      <4> QED
        BY <1>2, <4>1 DEF Exists
    <3> QED
      BY <1>5, <3>1, <3>2
  <2>2. goal[g] \in Rows
    BY <2>1 DEF TypeOK
  <2>3. goal[g].rev \in Int /\ goal[g].arev \in Int
    BY <2>2, RulesAssumption DEF Rows
  <2> QED
    BY <1>1, <2>1, <2>3 DEF PageOK, Page
<1> QED
  BY <1>3, <1>4, <1>5 DEF Arrive

LEMMA RequestsStay ==
  ASSUME TypeOK, NEW s \in Reqs, Still(s) \/ Work(s) \/ Abort(s)
  PROVE  req'[s] \in {req[s], NoRequest}
<1>1. ASSUME Answer(s) PROVE req'[s] = NoRequest
  BY <1>1 DEF Answer, TypeOK
<1>2. ASSUME NEW where, NEW row, Goto(s, where, row) PROVE req'[s] = req[s]
  BY <1>2 DEF Goto
<1>3. CASE Still(s) \/ Abort(s)
  BY <1>1, <1>3 DEF Still, Abort, Refuse
<1>4. CASE CreateReserve(s) \/ CreateInsert(s) \/ ReplayAnswer(s) \/ CreateCommit(s)
  BY <1>1, <1>2, <1>4
  DEF CreateReserve, CreateInsert, ReplayAnswer, CreateCommit, Tell, Refuse
<1>5. CASE UpdateLock(s) \/ PutLock(s) \/ DeleteLock(s)
  BY <1>1, <1>2, <1>5 DEF UpdateLock, PutLock, DeleteLock, LockRow, Refuse
<1>6. CASE UpdateJudge(s) \/ PutJudge(s)
  BY <1>1, <1>2, <1>6 DEF UpdateJudge, PutJudge, Refuse
<1>7. CASE UpdateCommit(s) \/ PutCommit(s) \/ DeleteCommit(s)
  BY <1>1, <1>7 DEF UpdateCommit, PutCommit, DeleteCommit
<1> QED
  BY <1>3, <1>4, <1>5, <1>6, <1>7 DEF Work

LEMMA PagesStep ==
  ASSUME TypeOK, TypeOK', Discipline, PagesOK, [Next]_vars
  PROVE  PagesOK'
<1> SUFFICES ASSUME NEW s \in Reqs PROVE PageOK(req'[s], goal'[req'[s].goal])
  BY DEF PagesOK
<1>1. CASE Arrive(s)
  BY <1>1, FreshPage
<1>2. CASE req'[s] = NoRequest
  BY <1>2 DEF PageOK, NoRequest
<1>3. CASE req'[s] = req[s] /\ req[s].kind \in {"patch", "put"}
  <2> DEFINE g == req[s].goal
  <2>1. g \in Goals /\ origin[g] # NoRequest
    BY <1>3, KindFields DEF Discipline, IdOK
  <2>2. CASE goal'[g] = NoGoal
    BY <1>3, <2>2 DEF PageOK
  <2>3. CASE goal'[g] # NoGoal
    <3>1. goal[g] # NoGoal /\ goal[g] \in Rows /\ Grown(goal[g], goal'[g])
      BY <2>1, <2>3, RowsGrow
    <3>2. goal'[g] \in Rows
      BY <2>1, <2>3 DEF TypeOK
    <3>3. goal[g].rev \in Int /\ goal[g].arev \in Int
          /\ goal'[g].rev \in Int /\ goal'[g].arev \in Int
      BY <3>1, <3>2, RulesAssumption DEF Rows
    <3>4. req[s].rev \in Int /\ (req[s].kind = "patch" => req[s].arev \in Int \cup {Keep})
      <4>1. req[s] \in Requests \cup {NoRequest}
        BY DEF TypeOK
      <4> QED
        BY <1>3, <4>1, RequestKinds, RulesAssumption DEF Patches, Puts
    <3>5. PageOK(req[s], goal[g])
      BY DEF PagesOK
    <3> QED
      BY <1>3, <3>1, <3>3, <3>4, <3>5 DEF PageOK, Grown
  <2> QED
    BY <2>2, <2>3
<1>4. CASE req'[s] = req[s] /\ req[s].kind \notin {"patch", "put"}
  BY <1>4 DEF PageOK
<1> QED
  BY <1>1, <1>2, <1>3, <1>4, OneSlotMoves, RequestsStay

LEMMA PagesHold == Spec => []PagesOK
<1>1. Init => PagesOK
  BY DEF Init, PagesOK, PageOK, NoRequest
<1>2. TypeOK /\ TypeOK' /\ Discipline /\ PagesOK /\ [Next]_vars => PagesOK'
  BY PagesStep
<1> QED
  BY <1>1, <1>2, TypeCorrect, LocksHold, PTL DEF Spec

LEMMA EditOnItsPage ==
  ASSUME TypeOK, Discipline, PagesOK, NEW r \in Reqs, UpdateCommit(r)
  PROVE  /\ goal[req[r].goal].set = req[r].seen.set
         /\ req[r].change.answers # Keep =>
              goal[req[r].goal].answers = req[r].seen.answers
<1> DEFINE row == goal[req[r].goal]
<1>1. req[r].kind = "patch" /\ row # NoGoal /\ cur[r] = row /\ PatchOK(r) /\ pc[r] = "accepted"
  BY EditEffect DEF UpdateCommit, Exists
<1>2. req[r].rev = row.rev /\ req[r].arev \in {Keep, row.arev} /\ ~QuestionTokenMisused(req[r])
  BY <1>1 DEF PatchOK
<1>3. PageOK(req[r], row)
  BY DEF PagesOK
<1> QED
  BY <1>1, <1>2, <1>3 DEF PageOK, QuestionTokenMisused

LEMMA RecordOnItsPage ==
  ASSUME TypeOK, Discipline, PagesOK, NEW r \in Reqs, PutCommit(r)
  PROVE  goal[req[r].goal].set = req[r].seen.set
<1> DEFINE row == goal[req[r].goal]
<1>1. req[r].kind = "put" /\ row # NoGoal /\ cur[r] = row /\ PutOK(r) /\ pc[r] = "accepted"
  BY RecordEffect DEF PutCommit, Exists
<1>2. req[r].rev = row.rev
  BY <1>1 DEF PutOK
<1>3. PageOK(req[r], row)
  BY DEF PagesOK
<1> QED
  BY <1>1, <1>2, <1>3 DEF PageOK

(* D-29 and R-11 for every number of clients, goals and revisions: the      *)
(* revisions in the request are enough to know that the settings, and the   *)
(* answers that are replaced, are those of its page.                        *)
THEOREM UpdatesAreNotLost == Spec => NoLostUpdates
<1> DEFINE A == \A r \in Reqs :
                  /\ UpdateCommit(r) \/ PutCommit(r) => goal[req[r].goal].set = req[r].seen.set
                  /\ UpdateCommit(r) /\ req[r].change.answers # Keep =>
                       goal[req[r].goal].answers = req[r].seen.answers
<1>1. TypeOK /\ Discipline /\ PagesOK /\ [Next]_vars => [A]_vars
  BY EditOnItsPage, RecordOnItsPage
<1>2. Spec => [][A]_vars
  BY <1>1, TypeCorrect, LocksHold, PagesHold, PTL DEF Spec
<1> QED
  BY <1>2 DEF NoLostUpdates

-----------------------------------------------------------------------------
(* The unit of the amounts. *)

(* A DONE amount has set the marker and has its unit. *)
MarkOK(g, d) ==
  shown[g][d] # NoUnit =>
    Exists(g) /\ goal[g].locked /\ goal[g].set.unit = shown[g][d]

LEMMA MarkStep ==
  ASSUME TypeOK, TypeOK', Discipline, PagesOK, [Next]_vars,
         NEW g \in Goals, NEW d \in Days, MarkOK(g, d)
  PROVE  MarkOK(g, d)'
<1> DEFINE Kept == shown'[g][d] = shown[g][d] /\ goal'[g] = goal[g]
<1>1. ASSUME Kept PROVE MarkOK(g, d)'
  BY <1>1 DEF MarkOK, Exists
<1>2. CASE Quiet
  BY <1>1, <1>2 DEF Quiet
<1>3. ASSUME NEW r \in Reqs, CreateCommit(r) PROVE MarkOK(g, d)'
  <2>1. shown' = shown /\ (goal'[g] # goal[g] => ~Exists(g))
    BY <1>3, CreateEffect
  <2> QED
    BY <1>1, <2>1 DEF MarkOK, Exists
<1>4. ASSUME NEW r \in Reqs, UpdateCommit(r) PROVE MarkOK(g, d)'
  <2>1. shown' = shown
    BY <1>4, EditEffect
  <2>2. CASE g = req[r].goal
    <3> DEFINE c == req[r].change
    <3>1. /\ goal[g] \in Rows /\ goal'[g] = PatchedRow(goal[g], c) /\ goal'[g] \in Rows
          /\ PatchOK(r) /\ cur[r] = goal[g] /\ pc[r] = "accepted" /\ req[r].kind = "patch"
      BY <1>4, <2>2, EditEffect DEF UpdateCommit
    <3>2. goal'[g].locked = goal[g].locked
      BY <3>1 DEF PatchedRow
    <3>3. goal[g].locked => goal'[g].set.unit = goal[g].set.unit
      BY <3>1 DEF PatchOK, UnitLocked, Touches, PatchedRow, PatchedSettings, Patched
    <3> QED
      BY <2>1, <3>1, <3>2, <3>3, StoreAssumption DEF MarkOK, Exists
  <2> QED
    BY <1>1, <1>4, <2>1, <2>2, EditEffect
<1>5. ASSUME NEW r \in Reqs, PutCommit(r) PROVE MarkOK(g, d)'
  <2> DEFINE unit == req[r].seen.set.unit
  <2>1. shown' = IF req[r].status = "DONE"
                 THEN [shown EXCEPT ![req[r].goal][req[r].date] = unit] ELSE shown
    BY <1>5 DEF PutCommit
  <2>2. shown'[g][d] # shown[g][d] =>
          g = req[r].goal /\ req[r].status = "DONE" /\ shown'[g][d] = unit
    BY <2>1 DEF TypeOK
  <2>3. CASE g = req[r].goal
    <3>1. /\ goal[g] \in Rows /\ goal'[g] = Marked(goal[g], req[r].status)
          /\ goal'[g] \in Rows
      BY <1>5, <2>3, RecordEffect
    <3>2. goal'[g].set = goal[g].set /\ goal'[g] # NoGoal
          /\ (goal[g].locked \/ req[r].status = "DONE" => goal'[g].locked)
      BY <3>1, MarkedKeeps, StoreAssumption
    <3>3. goal[g].set.unit = unit
      BY <1>5, <2>3, RecordOnItsPage
    <3> QED
      BY <2>2, <3>2, <3>3 DEF MarkOK, Exists
  <2> QED
    BY <1>1, <1>5, <2>2, <2>3, RecordEffect
<1>6. ASSUME NEW r \in Reqs, DeleteCommit(r) PROVE MarkOK(g, d)'
  BY <1>1, <1>6, RemoveEffect DEF MarkOK
<1> QED
  BY <1>2, <1>3, <1>4, <1>5, <1>6, QuietOrCommit DEF Commit

(* P-20 for every number of units, clients and edits: the marker, set in    *)
(* the transaction of the first DONE and never cleared, carries the proof;  *)
(* the records alone would not, because DONE may become SKIPPED.            *)
THEOREM UnitsAreNotReinterpreted == Spec => []DoneKeepsItsUnit
<1> DEFINE Inv == \A g \in Goals, d \in Days : MarkOK(g, d)
<1>1. Init => Inv
  BY DEF Init, MarkOK
<1>2. TypeOK /\ TypeOK' /\ Discipline /\ PagesOK /\ Inv /\ [Next]_vars => Inv'
  BY MarkStep
<1>3. Inv => DoneKeepsItsUnit
  BY DEF DoneKeepsItsUnit, MarkOK
<1> HIDE DEF Inv
<1> QED
  BY <1>1, <1>2, <1>3, TypeCorrect, LocksHold, PagesHold, PTL DEF Spec

(* What the run goal_record checks of both, for any number of clients.      *)
THEOREM MeaningIsKept == Spec => []RowsKeepTheirMeaning
<1>1. DoneKeepsItsUnit /\ SavedQuestionReadable => RowsKeepTheirMeaning
  BY DEF RowsKeepTheirMeaning
<1> QED
  BY <1>1, UnitsAreNotReinterpreted, SavedQuestionsStayReadable, PTL

-----------------------------------------------------------------------------
(* One goal per key. *)

(* The key of a goal that was made stays used. *)
KeysUsed ==
  \A g \in Goals : origin[g] # NoRequest => op[origin[g].user][origin[g].key] # NoOp

LEMMA KeyStep ==
  ASSUME TypeOK, TypeOK', Discipline, KeysUsed, OneGoalPerKey, [Next]_vars
  PROVE  KeysUsed' /\ OneGoalPerKey'
<1>1. CASE origin' = origin /\ \A u \in Users, k \in Keys : op[u][k] # NoOp => op'[u][k] # NoOp
  <2>1. \A g \in Goals : origin[g] # NoRequest => origin[g] \in Creates
    BY DEF TypeOK
  <2> QED
    BY <1>1, <2>1 DEF KeysUsed, OneGoalPerKey, Creates
<1>2. CASE Quiet
  BY <1>1, <1>2 DEF Quiet
<1>3. ASSUME NEW r \in Reqs, UpdateCommit(r) \/ PutCommit(r)
      PROVE  KeysUsed' /\ OneGoalPerKey'
  BY <1>1, <1>3, EditEffect, RecordEffect
<1>4. ASSUME NEW r \in Reqs, DeleteCommit(r) PROVE KeysUsed' /\ OneGoalPerKey'
  <2>1. ASSUME NEW u \in Users, NEW k \in Keys, op[u][k] # NoOp PROVE op'[u][k] # NoOp
    <3>1. op[u][k] \in Ops /\ NoOp \notin Ops
      BY <2>1, StoreAssumption DEF TypeOK, Ops
    <3>2. op'[u][k] \in {op[u][k], Tombstone(op[u][k])}
      BY <1>4 DEF DeleteCommit
    <3> QED
      BY <3>1, <3>2, TombstoneType
  <2>2. origin' = origin
    BY <1>4 DEF DeleteCommit
  <2> QED
    BY <1>1, <2>1, <2>2
<1>5. ASSUME NEW r \in Reqs, CreateCommit(r) PROVE KeysUsed' /\ OneGoalPerKey'
  <2> DEFINE u == req[r].user
             k == req[r].key
  <2>1. req[r] \in Creates /\ u \in Users /\ k \in Keys /\ op[u][k] = NoOp
    <3>1. req[r].kind = "create" /\ req[r] \in Requests \cup {NoRequest}
      BY <1>5 DEF CreateCommit, TypeOK
    <3>2. req[r] \in Creates
      BY <3>1, RequestKinds
    <3>3. op[u][k] = NoOp
      BY <1>5 DEF CreateCommit, Discipline, KeyOK
    <3> QED
      BY <3>2, <3>3 DEF Creates
  <2>2. PICK g \in Goals :
          /\ origin[g] = NoRequest /\ origin' = [origin EXCEPT ![g] = req[r]]
          /\ op' = [op EXCEPT ![u][k] = [body |-> req[r].body, goal |-> g]]
    BY <1>5 DEF CreateCommit
  <2>3. op'[u][k] \in Ops /\ op'[u][k] # NoOp
    BY <2>1, <2>2, StoreAssumption DEF Creates, Ops, TypeOK
  <2>4. \A v \in Users, l \in Keys : op[v][l] # NoOp => op'[v][l] = op[v][l] \/ op'[v][l] # NoOp
    BY <2>1, <2>2 DEF TypeOK
  <2>5. origin'[g] = req[r] /\ \A h \in Goals \ {g} : origin'[h] = origin[h]
    BY <2>2 DEF TypeOK
  <2>6. ASSUME NEW h \in Goals \ {g}, origin[h] # NoRequest
        PROVE  /\ origin[h].user \in Users /\ origin[h].key \in Keys
               /\ ~(origin[h].user = u /\ origin[h].key = k)
    <3>1. origin[h] \in Creates
      BY <2>6 DEF TypeOK
    <3> QED
      BY <2>1, <2>6, <3>1 DEF KeysUsed, Creates
  <2>7. KeysUsed'
    BY <2>3, <2>4, <2>5, <2>6 DEF KeysUsed
  <2>8. OneGoalPerKey'
    BY <2>5, <2>6 DEF OneGoalPerKey
  <2> QED
    BY <2>7, <2>8
<1> QED
  BY <1>2, <1>3, <1>4, <1>5, QuietOrCommit DEF Commit

(* D-29 for every number of clients, keys and retries: the reserved key is  *)
(* free until its commit, and neither an edit nor a deletion frees it.      *)
THEOREM KeysMakeOneGoal == Spec => []OneGoalPerKey
<1>1. Init => KeysUsed /\ OneGoalPerKey
  BY DEF Init, KeysUsed, OneGoalPerKey
<1>2. TypeOK /\ TypeOK' /\ Discipline /\ KeysUsed /\ OneGoalPerKey /\ [Next]_vars =>
        KeysUsed' /\ OneGoalPerKey'
  BY KeyStep
<1> QED
  BY <1>1, <1>2, TypeCorrect, LocksHold, PTL DEF Spec
LEMMA ClockMoves ==
  ASSUME [Next]_vars
  PROVE  now' = now \/ (now < MaxNow /\ now' = now + 1)
<1>1. CASE UNCHANGED vars \/ Tick
  BY <1>1 DEF vars, Tick
<1>2. ASSUME NEW r \in Reqs, Refuse(r) PROVE now' = now
  BY <1>2 DEF Refuse, Answer
<1>3. ASSUME NEW r \in Reqs, Arrive(r) PROVE now' = now
  BY <1>3 DEF Arrive, SubmitCreate, SubmitPatch, SubmitPut, SubmitDelete, Submit
<1>4. ASSUME NEW r \in Reqs, Abort(r) PROVE now' = now
  BY <1>2, <1>4 DEF Abort
<1>5. ASSUME NEW r \in Reqs, Work(r) PROVE now' = now
  <2>1. CASE CreateReserve(r) \/ CreateInsert(r)
    BY <1>2, <2>1 DEF CreateReserve, CreateInsert, Goto
  <2>2. CASE ReplayAnswer(r) \/ CreateCommit(r)
    BY <1>2, <2>2 DEF ReplayAnswer, CreateCommit, Tell, Answer
  <2>3. CASE UpdateLock(r) \/ PutLock(r) \/ DeleteLock(r)
    BY <1>2, <2>3 DEF UpdateLock, PutLock, DeleteLock, LockRow, Goto
  <2>4. CASE UpdateJudge(r) \/ PutJudge(r)
    BY <1>2, <2>4 DEF UpdateJudge, PutJudge, Goto
  <2>5. CASE UpdateCommit(r) \/ PutCommit(r) \/ DeleteCommit(r)
    BY <2>5 DEF UpdateCommit, PutCommit, DeleteCommit, Answer
  <2> QED
    BY <1>5, <2>1, <2>2, <2>3, <2>4, <2>5 DEF Work
<1> QED
  BY <1>1, <1>3, <1>4, <1>5 DEF Next

-----------------------------------------------------------------------------
(* Answers to POST. *)

(* The ledger and the goals name each other, until the goal is deleted. *)
Linked ==
  /\ \A u \in Users, k \in Keys : op[u][k] # NoOp /\ op[u][k].goal # NoGoal =>
       /\ Exists(op[u][k].goal)
       /\ origin[op[u][k].goal] =
            [kind |-> "create", user |-> u, key |-> k, body |-> op[u][k].body]
  /\ \A g \in Goals : Exists(g) =>
       /\ op[origin[g].user][origin[g].key] # NoOp
       /\ op[origin[g].user][origin[g].key].goal = g

(* What was answered is still so: nothing takes a goal from its request, or *)
(* makes a goal under a key whose goal is gone.                             *)
StillTrue(t) ==
  IF t.kind = "deleted"
  THEN op[t.to.user][t.to.key] # NoOp /\ op[t.to.user][t.to.key].goal = NoGoal
  ELSE t.goal \in Goals /\ origin[t.goal] = t.to

AnswersOK == Linked /\ \A t \in told : StillTrue(t)

LEMMA LedgerTypes ==
  ASSUME TypeOK
  PROVE  /\ \A u \in Users, k \in Keys : op[u][k] # NoOp => op[u][k] \in Ops
         /\ \A u \in Users, k \in Keys : op[u][k] # NoOp /\ op[u][k].goal # NoGoal =>
              op[u][k].goal \in Goals
         /\ \A t \in told : t.to \in Creates /\ t.to.user \in Users /\ t.to.key \in Keys
         /\ \A g \in Goals : origin[g] # NoRequest =>
              origin[g] \in Creates /\ origin[g].user \in Users /\ origin[g].key \in Keys
         /\ NoRequest \notin Creates
BY DEF TypeOK, Ops, Told, Creates, NoRequest

(* Who tells something new. *)
LEMMA WhoTells ==
  ASSUME TypeOK, [Next]_vars
  PROVE  told' = told \/ \E r \in Reqs : ReplayAnswer(r) \/ CreateCommit(r)
<1>1. ASSUME NEW r \in Reqs, Refuse(r) PROVE told' = told
  BY <1>1 DEF Refuse, history
<1>2. ASSUME NEW r \in Reqs, NEW where, NEW row, Goto(r, where, row) PROVE told' = told
  BY <1>2 DEF Goto, history
<1>3. ASSUME NEW r \in Reqs, Arrive(r) PROVE told' = told
  BY <1>3 DEF Arrive, SubmitCreate, SubmitPatch, SubmitPut, SubmitDelete, Submit, history
<1>4. ASSUME NEW r \in Reqs, CreateReserve(r) \/ CreateInsert(r) PROVE told' = told
  BY <1>1, <1>2, <1>4 DEF CreateReserve, CreateInsert
<1>5. ASSUME NEW r \in Reqs, UpdateLock(r) \/ PutLock(r) \/ DeleteLock(r) PROVE told' = told
  BY <1>1, <1>2, <1>5 DEF UpdateLock, PutLock, DeleteLock, LockRow
<1>6. ASSUME NEW r \in Reqs, UpdateJudge(r) \/ PutJudge(r) PROVE told' = told
  BY <1>1, <1>2, <1>6 DEF UpdateJudge, PutJudge
<1>7. ASSUME NEW r \in Reqs, UpdateCommit(r) \/ PutCommit(r) \/ DeleteCommit(r)
      PROVE  told' = told
  BY <1>7 DEF UpdateCommit, PutCommit, DeleteCommit, history
<1>8. ASSUME UNCHANGED vars \/ Tick PROVE told' = told
  BY <1>8 DEF vars, Tick, history
<1> QED
  BY <1>1, <1>3, <1>4, <1>5, <1>6, <1>7, <1>8 DEF Next, Work, Abort

LEMMA LinkedStep ==
  ASSUME TypeOK, TypeOK', Discipline, Linked, [Next]_vars
  PROVE  Linked'
<1>1. ASSUME op' = op, origin' = origin, \A g \in Goals : Exists(g)' <=> Exists(g)
      PROVE  Linked'
  <2>1. \A u \in Users, k \in Keys : op[u][k] # NoOp /\ op[u][k].goal # NoGoal =>
          op[u][k].goal \in Goals
    BY LedgerTypes
  <2> QED
    BY <1>1, <2>1 DEF Linked
<1>2. CASE Quiet
  BY <1>1, <1>2 DEF Quiet, Exists
<1>3. ASSUME NEW r \in Reqs, UpdateCommit(r) PROVE Linked'
  <2>1. \A g \in Goals : Exists(g)' <=> Exists(g)
    BY <1>3, EditEffect, StoreAssumption DEF Exists
  <2> QED
    BY <1>1, <1>3, <2>1, EditEffect
<1>4. ASSUME NEW r \in Reqs, PutCommit(r) PROVE Linked'
  <2>1. \A g \in Goals : Exists(g)' <=> Exists(g)
    BY <1>4, RecordEffect, StoreAssumption DEF Exists
  <2> QED
    BY <1>1, <1>4, <2>1, RecordEffect
<1>5. ASSUME NEW r \in Reqs, DeleteCommit(r) PROVE Linked'
  <2> DEFINE g == req[r].goal
  <2>1. /\ g \in Goals /\ goal'[g] = NoGoal /\ origin' = origin
        /\ \A h \in Goals \ {g} : goal'[h] = goal[h]
    BY <1>5, RemoveEffect
  <2>2. \A u \in Users, k \in Keys :
          op'[u][k] = IF op[u][k] # NoOp /\ op[u][k].goal = g THEN Tombstone(op[u][k]) ELSE op[u][k]
    BY <1>5 DEF DeleteCommit
  <2>3. \A u \in Users, k \in Keys : op[u][k] # NoOp => Tombstone(op[u][k]).goal = NoGoal
    BY LedgerTypes DEF Tombstone, Ops
  <2>4. ASSUME NEW u \in Users, NEW k \in Keys, op'[u][k] # NoOp, op'[u][k].goal # NoGoal
        PROVE  /\ goal'[op'[u][k].goal] # NoGoal
               /\ origin'[op'[u][k].goal] =
                    [kind |-> "create", user |-> u, key |-> k, body |-> op'[u][k].body]
    <3>1. op'[u][k] = op[u][k] /\ op[u][k].goal # g
      BY <2>2, <2>3, <2>4
    <3>2. op[u][k].goal \in Goals
      BY <2>4, <3>1, LedgerTypes
    <3> QED
      BY <2>1, <2>4, <3>1, <3>2 DEF Linked, Exists
  <2>5. ASSUME NEW h \in Goals, goal'[h] # NoGoal
        PROVE  /\ op'[origin'[h].user][origin'[h].key] # NoOp
               /\ op'[origin'[h].user][origin'[h].key].goal = h
    <3>1. h # g /\ Exists(h) /\ origin'[h] = origin[h]
      BY <2>1, <2>5 DEF Exists
    <3>2. origin[h].user \in Users /\ origin[h].key \in Keys
      BY <3>1, LedgerTypes DEF Discipline, IdOK
    <3> QED
      BY <2>2, <3>1, <3>2 DEF Linked
  <2> QED
    BY <2>4, <2>5 DEF Linked, Exists
<1>6. ASSUME NEW r \in Reqs, CreateCommit(r) PROVE Linked'
  <2> DEFINE u == req[r].user
             k == req[r].key
  <2>1. PICK g \in Goals :
          /\ origin[g] = NoRequest /\ origin' = [origin EXCEPT ![g] = req[r]]
          /\ goal' = [goal EXCEPT ![g] = cur[r]]
          /\ op' = [op EXCEPT ![u][k] = [body |-> req[r].body, goal |-> g]]
    BY <1>6 DEF CreateCommit
  <2>2. /\ req[r] \in Creates /\ u \in Users /\ k \in Keys /\ op[u][k] = NoOp
        /\ cur[r] \in Rows
    <3>1. req[r].kind = "create" /\ req[r] \in Requests \cup {NoRequest}
      BY <1>6 DEF CreateCommit, TypeOK
    <3>2. req[r] \in Creates
      BY <3>1, RequestKinds
    <3>3. op[u][k] = NoOp /\ cur[r] \in Rows
      BY <1>6 DEF CreateCommit, Discipline, KeyOK, SlotOK
    <3> QED
      BY <3>2, <3>3 DEF Creates
  <2>3. /\ origin'[g] = req[r] /\ \A h \in Goals \ {g} : origin'[h] = origin[h]
        /\ goal'[g] # NoGoal /\ \A h \in Goals \ {g} : goal'[h] = goal[h]
    BY <2>1, <2>2, StoreAssumption DEF TypeOK
  <2>4. /\ op'[u][k] = [body |-> req[r].body, goal |-> g]
        /\ \A v \in Users, l \in Keys : v # u \/ l # k => op'[v][l] = op[v][l]
    BY <2>1, <2>2 DEF TypeOK
  <2>5. op'[u][k] # NoOp /\ op'[u][k].goal = g /\ op'[u][k].body = req[r].body
    BY <2>2, <2>4, StoreAssumption DEF Creates
  <2>6. req[r] = [kind |-> "create", user |-> u, key |-> k, body |-> req[r].body]
    BY <2>2 DEF Creates
  <2>7. ASSUME NEW v \in Users, NEW l \in Keys, op'[v][l] # NoOp, op'[v][l].goal # NoGoal
        PROVE  /\ goal'[op'[v][l].goal] # NoGoal
               /\ origin'[op'[v][l].goal] =
                    [kind |-> "create", user |-> v, key |-> l, body |-> op'[v][l].body]
    <3>1. CASE v = u /\ l = k
      BY <2>3, <2>5, <2>6, <3>1
    <3>2. CASE ~(v = u /\ l = k)
      <4>1. op'[v][l] = op[v][l]
        BY <2>4, <3>2
      <4>2. /\ op[v][l].goal \in Goals /\ goal[op[v][l].goal] # NoGoal
            /\ origin[op[v][l].goal] =
                 [kind |-> "create", user |-> v, key |-> l, body |-> op[v][l].body]
        BY <2>7, <4>1, LedgerTypes DEF Linked, Exists
      <4>3. op[v][l].goal # g
        BY <2>1, <4>2 DEF Discipline, IdOK, Exists
      <4> QED
        BY <2>3, <4>1, <4>2, <4>3
    <3> QED
      BY <3>1, <3>2
  <2>8. ASSUME NEW h \in Goals, goal'[h] # NoGoal
        PROVE  /\ op'[origin'[h].user][origin'[h].key] # NoOp
               /\ op'[origin'[h].user][origin'[h].key].goal = h
    <3>1. CASE h = g
      BY <2>3, <2>5, <3>1
    <3>2. CASE h # g
      <4>1. Exists(h) /\ origin'[h] = origin[h]
        BY <2>3, <2>8, <3>2 DEF Exists
      <4>2. origin[h].user \in Users /\ origin[h].key \in Keys
        BY <4>1, LedgerTypes DEF Discipline, IdOK
      <4>3. /\ op[origin[h].user][origin[h].key] # NoOp
            /\ op[origin[h].user][origin[h].key].goal = h
        BY <4>1 DEF Linked
      <4> QED
        BY <2>2, <2>4, <4>1, <4>2, <4>3
    <3> QED
      BY <3>1, <3>2
  <2> QED
    BY <2>7, <2>8 DEF Linked, Exists
<1> QED
  BY <1>2, <1>3, <1>4, <1>5, <1>6, QuietOrCommit DEF Commit

(* What was told before stays true. *)
LEMMA StillTrueStep ==
  ASSUME TypeOK, TypeOK', Discipline, [Next]_vars, NEW t \in told, StillTrue(t)
  PROVE  StillTrue(t)'
<1>0. t.to \in Creates /\ t.to.user \in Users /\ t.to.key \in Keys
  BY LedgerTypes
<1>1. ASSUME op' = op, origin' = origin PROVE StillTrue(t)'
  BY <1>1 DEF StillTrue
<1>2. CASE Quiet
  BY <1>1, <1>2 DEF Quiet
<1>3. ASSUME NEW r \in Reqs, UpdateCommit(r) \/ PutCommit(r) PROVE StillTrue(t)'
  BY <1>1, <1>3, EditEffect, RecordEffect
<1>4. ASSUME NEW r \in Reqs, DeleteCommit(r) PROVE StillTrue(t)'
  <2>1. req[r].goal \in Goals /\ origin' = origin
    BY <1>4, RemoveEffect
  <2>2. \A u \in Users, k \in Keys :
          op[u][k] # NoOp /\ op[u][k].goal = NoGoal => op'[u][k] = op[u][k]
    BY <1>4, <2>1, StoreAssumption DEF DeleteCommit
  <2> QED
    BY <1>0, <2>1, <2>2 DEF StillTrue
<1>5. ASSUME NEW r \in Reqs, CreateCommit(r) PROVE StillTrue(t)'
  <2>1. PICK g \in Goals :
          /\ origin[g] = NoRequest /\ origin' = [origin EXCEPT ![g] = req[r]]
          /\ op' = [op EXCEPT ![req[r].user][req[r].key] = [body |-> req[r].body, goal |-> g]]
    BY <1>5 DEF CreateCommit
  <2>2. op[req[r].user][req[r].key] = NoOp
    BY <1>5 DEF CreateCommit, Discipline, KeyOK
  <2>3. CASE t.kind = "deleted"
    BY <1>0, <2>1, <2>2, <2>3 DEF StillTrue, TypeOK
  <2>4. CASE t.kind # "deleted"
    <3>1. t.goal \in Goals /\ origin[t.goal] = t.to /\ t.goal # g
      BY <1>0, <2>1, <2>4, LedgerTypes DEF StillTrue
    <3> QED
      BY <2>1, <2>4, <3>1 DEF StillTrue, TypeOK
  <2> QED
    BY <2>3, <2>4
<1> QED
  BY <1>2, <1>3, <1>4, <1>5, QuietOrCommit DEF Commit

LEMMA NewAnswer ==
  ASSUME TypeOK, Discipline, Linked, [Next]_vars, NEW t \in told' \ told
  PROVE  StillTrue(t)'
<1>1. ASSUME NEW r \in Reqs, CreateCommit(r) PROVE StillTrue(t)'
  <2>1. PICK g \in Goals :
          /\ origin' = [origin EXCEPT ![g] = req[r]]
          /\ told' = told \cup {[kind |-> "created", to |-> req[r], goal |-> g]}
    BY <1>1 DEF CreateCommit, Tell
  <2> QED
    BY <2>1 DEF StillTrue, TypeOK
<1>2. ASSUME NEW r \in Reqs, ReplayAnswer(r) PROVE StillTrue(t)'
  <2> DEFINE u == req[r].user
             k == req[r].key
             g == op[u][k].goal
             deleted == g = NoGoal \/ goal[g] = NoGoal
  <2>1. pc[r] = "found" /\ op' = op /\ origin' = origin
    BY <1>2 DEF ReplayAnswer, Refuse, history, database
  <2>2. /\ req[r].kind = "create" /\ op[u][k] # NoOp /\ op[u][k].body = req[r].body
        /\ req[r] \in Requests \cup {NoRequest}
    BY <2>1 DEF Discipline, SlotOK, KeyOK, TypeOK
  <2>3. req[r] \in Creates
    BY <2>2, RequestKinds
  <2>4. u \in Users /\ k \in Keys
    BY <2>3 DEF Creates
  <2>5. req[r] = [kind |-> "create", user |-> u, key |-> k, body |-> req[r].body]
    BY <2>3 DEF Creates
  <2>6. g # NoGoal => g \in Goals /\ goal[g] # NoGoal /\ origin[g] = req[r]
    BY <2>2, <2>4, <2>5, LedgerTypes, SMTT(30) DEF Linked, Exists
  <2>7. CASE deleted
    <3>1. g = NoGoal /\ t = [kind |-> "deleted", to |-> req[r], goal |-> NoGoal]
      BY <1>2, <2>6, <2>7 DEF ReplayAnswer, Tell
    <3> QED
      BY <2>1, <2>2, <3>1 DEF StillTrue
  <2>8. CASE ~deleted
    <3>1. t = [kind |-> "replayed", to |-> req[r], goal |-> g]
      BY <1>2, <2>8 DEF ReplayAnswer, Tell, Refuse, history
    <3> QED
      BY <2>1, <2>6, <2>8, <3>1 DEF StillTrue
  <2> QED
    BY <2>7, <2>8
<1> QED
  BY <1>1, <1>2, WhoTells

(* D-29 for every number of clients, keys and retries: what POST has        *)
(* answered stays true, whatever is edited, deleted or created afterwards.  *)
THEOREM AnswersStand == Spec => []AnswerStandsForTheKey
<1>1. Init => AnswersOK
  BY DEF Init, AnswersOK, Linked, Exists
<1>2. TypeOK /\ TypeOK' /\ Discipline /\ AnswersOK /\ [Next]_vars => AnswersOK'
  BY LinkedStep, StillTrueStep, NewAnswer DEF AnswersOK
<1>3. TypeOK /\ AnswersOK => AnswerStandsForTheKey
  <2> SUFFICES ASSUME TypeOK, AnswersOK, NEW t \in told
               PROVE  IF t.kind = "deleted"
                      THEN \A g \in Goals : Exists(g) =>
                             <<origin[g].user, origin[g].key>> # <<t.to.user, t.to.key>>
                      ELSE origin[t.goal] = t.to
    BY DEF AnswerStandsForTheKey
  <2>1. StillTrue(t)
    BY DEF AnswersOK
  <2>2. ASSUME t.kind = "deleted", NEW g \in Goals, Exists(g)
        PROVE  <<origin[g].user, origin[g].key>> # <<t.to.user, t.to.key>>
    <3>1. op[origin[g].user][origin[g].key].goal = g
      BY <2>2 DEF AnswersOK, Linked
    <3> QED
      BY <2>1, <2>2, <3>1, StoreAssumption DEF StillTrue
  <2> QED
    BY <2>1, <2>2 DEF StillTrue
<1> QED
  BY <1>1, <1>2, <1>3, TypeCorrect, LocksHold, PTL DEF Spec

-----------------------------------------------------------------------------
(* The refinement of GoalLedger. *)

(* The row an accepted POST is about to insert: as its request wanted it,   *)
(* started on a day that has come in its zone.                              *)
FreshRow(row, request, moment) ==
  /\ row.owner = request.user /\ row.set = request.body.set
  /\ row.answers = request.body.answers
  /\ row.locked = FALSE /\ row.rev = 0 /\ row.arev = 0
  /\ row.start <= LocalDateIn[moment][row.set.tz]
  /\ row.set.target \in Days => row.set.target > row.start

NewOK ==
  \A r \in Reqs : pc[r] = "accepted" /\ req[r].kind = "create" =>
    FreshRow(cur[r], req[r], now)

LEMMA NewRowFresh ==
  ASSUME NEW request, NEW moment,
         TargetDateAccepted(request.body.set.target, LocalDateIn[moment][request.body.set.tz]),
         LocalDateIn[moment][request.body.set.tz] \in Days
  PROVE  FreshRow(NewRow(request.user, request.body, LocalDateIn[moment][request.body.set.tz]),
                  request, moment)
<1>1. LocalDateIn[moment][request.body.set.tz] \in Int
  BY RulesAssumption DEF Days
<1> QED
  BY <1>1 DEF FreshRow, NewRow, TargetDateAccepted

(* A row stays fresh while the clock goes on. *)
LEMMA FreshStays ==
  ASSUME NEW row \in Rows, NEW request, NEW m \in Instants, NEW n \in Instants, m <= n,
         FreshRow(row, request, m)
  PROVE  FreshRow(row, request, n)
<1>1. row.set.tz \in Zones /\ row.start \in Days
  BY DEF Rows, Settings
<1>2. LocalDateIn[m][row.set.tz] <= LocalDateIn[n][row.set.tz]
      /\ LocalDateIn[m][row.set.tz] \in Days /\ LocalDateIn[n][row.set.tz] \in Days
  BY <1>1, CalendarAssumption
<1>3. row.start <= LocalDateIn[n][row.set.tz]
  BY <1>1, <1>2, RulesAssumption DEF FreshRow, Days
<1> QED
  BY <1>3 DEF FreshRow

LEMMA NewStep ==
  ASSUME TypeOK, TypeOK', Discipline, NewOK, [Next]_vars
  PROVE  NewOK'
<1> SUFFICES ASSUME NEW s \in Reqs, pc'[s] = "accepted", req'[s].kind = "create"
             PROVE  FreshRow(cur'[s], req'[s], now')
  BY DEF NewOK
<1>1. CASE Still(s)
  <2>1. FreshRow(cur[s], req[s], now) /\ cur[s] \in Rows
    BY <1>1 DEF Still, NewOK, Discipline, SlotOK
  <2>2. now \in Instants /\ now' \in Instants
    BY DEF TypeOK
  <2>3. now <= now'
    BY <2>2, ClockMoves DEF Instants
  <2> QED
    BY <1>1, <2>1, <2>2, <2>3, FreshStays DEF Still
<1>2. CASE Arrive(s)
  <2>1. pc'[s] = "begin"
    BY <1>2 DEF Arrive, SubmitCreate, SubmitPatch, SubmitPut, SubmitDelete, Submit, TypeOK
  <2> QED
    BY <2>1
<1>3. ASSUME Answer(s) PROVE FALSE
  BY <1>3 DEF Answer, TypeOK
<1>4. CASE Abort(s)
  BY <1>3, <1>4 DEF Abort, Refuse
<1>5. CASE CreateInsert(s)
  <2>1. CASE Refuse(s)
    BY <1>3, <2>1 DEF Refuse
  <2>2. CASE ~Refuse(s)
    <3>1. /\ TargetDateAccepted(req[s].body.set.target, Today(req[s].body.set.tz))
          /\ Goto(s, "accepted", NewRow(req[s].user, req[s].body, Today(req[s].body.set.tz)))
      BY <1>5, <2>2 DEF CreateInsert
    <3>2. cur'[s] = NewRow(req[s].user, req[s].body, Today(req[s].body.set.tz))
          /\ req'[s] = req[s] /\ now' = now
      BY <3>1 DEF Goto, TypeOK
    <3>3. req[s] \in Creates
      BY <3>2, RequestKinds DEF TypeOK
    <3>4. Today(req[s].body.set.tz) \in Days
      BY <3>3, TodayType DEF TypeOK, Creates, Bodies, Settings
    <3> QED
      BY <3>1, <3>2, <3>4, NewRowFresh DEF Today
  <2> QED
    BY <2>1, <2>2
<1>6. CASE CreateReserve(s) \/ UpdateLock(s) \/ PutLock(s) \/ DeleteLock(s)
  <2>1. pc'[s] \in {"reserved", "found", "locked", "idle"}
    BY <1>6 DEF CreateReserve, UpdateLock, PutLock, DeleteLock, LockRow, Goto, Refuse, Answer,
               TypeOK
  <2> QED
    BY <2>1
<1>7. CASE UpdateJudge(s) \/ PutJudge(s)
  <2>1. req[s].kind \in {"patch", "put"} /\ (req' = req \/ Answer(s))
    BY <1>7 DEF UpdateJudge, PutJudge, Goto, Refuse
  <2> QED
    BY <1>3, <2>1
<1>8. CASE ReplayAnswer(s) \/ Commit(s)
  BY <1>3, <1>8 DEF ReplayAnswer, Commit, CreateCommit, UpdateCommit, PutCommit, DeleteCommit,
                    Tell, Refuse
<1> QED
  BY <1>1, <1>2, <1>4, <1>5, <1>6, <1>7, <1>8, OneSlotMoves DEF Work, Commit

LEMMA NewHolds == Spec => []NewOK
<1>1. Init => NewOK
  BY DEF Init, NewOK
<1>2. TypeOK /\ TypeOK' /\ Discipline /\ NewOK /\ [Next]_vars => NewOK'
  BY NewStep
<1> QED
  BY <1>1, <1>2, TypeCorrect, LocksHold, PTL DEF Spec

-----------------------------------------------------------------------------
(* Every commit is a step of the ledger, which has the rules of the store. *)

LEMMA SameRules ==
  /\ Ledger!Days = Days
  /\ \A row : Ledger!ValidSavedQuestion(row) = ValidSavedQuestion(row)
<1>1. Ledger!Days = Days
  BY DEF Ledger!Days, Days
<1>2. \A row : Ledger!ValidSavedQuestion(row) = ValidSavedQuestion(row)
  BY DEF Ledger!ValidSavedQuestion, ValidSavedQuestion,
         Ledger!MakeQuestionSnapshot, MakeQuestionSnapshot, Ledger!ContextOf, ContextOf
<1> QED
  BY <1>1, <1>2

LEMMA CreateIsCreate ==
  ASSUME TypeOK, TypeOK', Discipline, NewOK, RecordsLieInThePast, SavedQuestionReadable',
         NEW r \in Reqs, CreateCommit(r)
  PROVE  \E g \in Goals, u \in Users, k \in Keys : Ledger!Create(u, k, g)
<1>1. PICK g \in Goals :
        /\ origin[g] = NoRequest /\ goal' = [goal EXCEPT ![g] = cur[r]]
        /\ op' = [op EXCEPT ![req[r].user][req[r].key] = [body |-> req[r].body, goal |-> g]]
        /\ log' = log /\ now' = now /\ pc[r] = "accepted" /\ req[r].kind = "create"
  BY DEF CreateCommit, Tell, Answer
<1>2. req[r] \in Creates
  BY <1>1, RequestKinds DEF TypeOK
<1>3. req[r].user \in Users /\ req[r].key \in Keys /\ req[r].body \in Bodies
  BY <1>2 DEF Creates
<1>4. goal[g] = NoGoal
  BY <1>1 DEF Discipline, IdOK, Exists
<1>5. cur[r] \in Rows /\ FreshRow(cur[r], req[r], now)
  BY <1>1 DEF Discipline, SlotOK, NewOK
<1>6. goal'[g] = cur[r]
  BY <1>1 DEF TypeOK
<1>7. goal'[g] # NoGoal
  BY <1>5, <1>6, StoreAssumption
<1>8. \A d \in Days : log[g][d] = "UNRECORDED"
  BY <1>4 DEF RecordsLieInThePast, Exists
<1>9. Ledger!Recorded(g) = {}
  BY <1>8, SameRules DEF Ledger!Recorded
<1>10. op[req[r].user][req[r].key] = NoOp
  BY <1>1 DEF Discipline, KeyOK
<1>11. ValidSavedQuestion(goal'[g])
  BY <1>7 DEF SavedQuestionReadable, Exists
<1>12. [body |-> req[r].body, goal |-> g]
         = [body |-> [set |-> goal'[g].set, answers |-> goal'[g].answers], goal |-> g]
  BY <1>3, <1>5, <1>6 DEF FreshRow, Bodies
<1>13. Ledger!TodayOf(goal'[g]) = LocalDateIn[now][cur[r].set.tz]
  BY <1>6 DEF Ledger!TodayOf
<1>14. ~goal'[g].locked
  BY <1>5, <1>6, Zenon DEF FreshRow
<1>15. /\ goal'[g].owner = req[r].user /\ goal'[g].rev = 0 /\ goal'[g].arev = 0
       /\ goal'[g].start <= Ledger!TodayOf(goal'[g])
       /\ goal'[g].set.target \in Ledger!Days => goal'[g].set.target > goal'[g].start
  BY <1>5, <1>6, <1>13, SameRules, Zenon DEF FreshRow
<1>16. Ledger!Replace(g, goal'[g])
  BY <1>1, <1>6, <1>7 DEF Ledger!Replace
<1>17. op' = [op EXCEPT ![req[r].user][req[r].key] =
                [body |-> [set |-> goal'[g].set, answers |-> goal'[g].answers], goal |-> g]]
  BY <1>1, <1>12, Zenon
<1>18. Ledger!ValidSavedQuestion(goal'[g])
  BY <1>11, SameRules, Zenon
<1>19. Ledger!Create(req[r].user, req[r].key, g)
  BY <1>1, <1>4, <1>9, <1>10, <1>14, <1>15, <1>16, <1>17, <1>18, Zenon DEF Ledger!Create
<1> QED
  BY <1>3, <1>19

LEMMA PatchedSteps ==
  ASSUME NEW row \in Rows, NEW c \in Changes, ValidSavedQuestion(row),
         UnitLocked(row) => ~Touches(c.unit, row.set.unit)
  PROVE  LET new == PatchedRow(row, c) IN
         /\ new.owner = row.owner /\ new.start = row.start /\ new.locked = row.locked
         /\ Ledger!SettingsStep(row, new) /\ Ledger!AnswerStep(row, new)
         /\ row.locked \/ row.set.initial > 0 => new.set.unit = row.set.unit
<1> DEFINE new == PatchedRow(row, c)
<1>1. new.owner = row.owner /\ new.start = row.start /\ new.locked = row.locked
  BY DEF PatchedRow
<1>2. row.set \in Settings /\ new.set = PatchedSettings(row.set, c)
  BY DEF PatchedRow, Rows
<1>3. new.set = row.set <=> SameGoalSettings(row.set, c)
  BY <1>2 DEF SameGoalSettings, Touches, PatchedSettings, Patched, Settings
<1>4. Ledger!SettingsStep(row, new)
  BY <1>3 DEF Ledger!SettingsStep, PatchedRow
<1>5. (new.set.unit # row.set.unit \/ new.set.session # row.set.session)
        <=> QuestionContextChanged(row.set, c)
  BY <1>2 DEF QuestionContextChanged, Touches, PatchedSettings, Patched
<1>6. new.answers = NextAnswers(row, c)
      /\ new.arev = row.arev + (IF QuestionAnswersChanged(row, c) THEN 1 ELSE 0)
  BY DEF PatchedRow
<1>7. ValidSavedQuestion(new)
  BY PatchedRowReadable
<1>8. Ledger!AnswerStep(row, new)
  BY <1>5, <1>6, <1>7, SameRules DEF Ledger!AnswerStep, QuestionAnswersChanged, NextAnswers
<1>9. row.locked \/ row.set.initial > 0 => new.set.unit = row.set.unit
  BY <1>2 DEF UnitLocked, Touches, PatchedSettings, Patched
<1> QED
  BY <1>1, <1>4, <1>8, <1>9

LEMMA UpdateIsEdit ==
  ASSUME TypeOK, TypeOK', Discipline, SavedQuestionReadable, NEW r \in Reqs, UpdateCommit(r)
  PROVE  \E g \in Goals : Ledger!Edit(g)
<1> DEFINE g == req[r].goal
           c == req[r].change
<1>1. /\ g \in Goals /\ goal[g] \in Rows /\ c \in Changes /\ goal[g] # NoGoal
      /\ cur[r] = goal[g] /\ goal'[g] = PatchedRow(goal[g], c) /\ goal'[g] \in Rows
      /\ log' = log /\ op' = op /\ now' = now /\ PatchOK(r)
  BY EditEffect DEF Exists, Patches
<1>2. goal' = [goal EXCEPT ![g] = goal'[g]]
  BY <1>1 DEF UpdateCommit, TypeOK
<1>3. goal'[g] # NoGoal
  BY <1>1, StoreAssumption
<1>4. ValidSavedQuestion(goal[g])
  BY <1>1 DEF SavedQuestionReadable, Exists
<1>5. UnitLocked(goal[g]) => ~Touches(c.unit, goal[g].set.unit)
  BY <1>1 DEF PatchOK, UpdateCommit
<1>6. /\ goal'[g].owner = goal[g].owner /\ goal'[g].start = goal[g].start
      /\ goal'[g].locked = goal[g].locked
      /\ Ledger!SettingsStep(goal[g], goal'[g]) /\ Ledger!AnswerStep(goal[g], goal'[g])
      /\ goal[g].locked \/ goal[g].set.initial > 0 => goal'[g].set.unit = goal[g].set.unit
  BY <1>1, <1>4, <1>5, PatchedSteps
<1>7. Ledger!Recorded(g) # {} => HasLogs(g)
  BY SameRules DEF Ledger!Recorded, HasLogs
<1>8. HasLogs(g) => goal'[g].set.tz = goal[g].set.tz /\ goal'[g].set.initial = goal[g].set.initial
  BY EditKeepsBasis
<1>9. Ledger!BasisStep(g, goal[g], goal'[g])
  BY <1>6, <1>7, <1>8 DEF Ledger!BasisStep
<1>10. Ledger!CountersFit(goal'[g])
  BY <1>1, RulesAssumption DEF Ledger!CountersFit, Rows
<1> QED
  BY <1>1, <1>2, <1>3, <1>6, <1>9, <1>10 DEF Ledger!Edit, Ledger!Replace

LEMMA PutIsRecord ==
  ASSUME TypeOK, TypeOK', Discipline, NEW r \in Reqs, PutCommit(r)
  PROVE  \E g \in Goals, d \in Days, status \in {"DONE", "SKIPPED"} :
           Ledger!Record(g, d, status)
<1> DEFINE g == req[r].goal
           d == req[r].date
           status == req[r].status
<1>1. /\ g \in Goals /\ goal[g] # NoGoal /\ cur[r] = goal[g] /\ PutOK(r) /\ req[r] \in Puts
      /\ goal'[g] = Marked(goal[g], status) /\ goal'[g] \in Rows
      /\ op' = op /\ now' = now
  BY RecordEffect DEF Exists
<1>2. /\ log' = [log EXCEPT ![g][d] = status]
      /\ goal' = [goal EXCEPT ![g] = Marked(goal[g], status)]
      /\ pc[r] = "accepted" /\ req[r].kind = "put"
  BY DEF PutCommit
<1>3. status \in {"DONE", "SKIPPED"}
  BY <1>1 DEF Puts
<1>4. d \in Days /\ goal[g].start <= d /\ d <= Ledger!TodayOf(goal[g])
  BY <1>1, <1>2 DEF PutOK, Today, Ledger!TodayOf
<1>5. Marked(goal[g], status) # NoGoal
  BY <1>1, StoreAssumption
<1>6. Ledger!Replace(g, Marked(goal[g], status))
  BY <1>2, <1>5 DEF Ledger!Replace
<1> QED
  BY <1>1, <1>2, <1>3, <1>4, <1>6 DEF Ledger!Record, Marked

LEMMA DeleteIsRemove ==
  ASSUME TypeOK, TypeOK', Discipline, NEW r \in Reqs, DeleteCommit(r)
  PROVE  \E g \in Goals : Ledger!Remove(g)
<1> DEFINE g == req[r].goal
<1>1. g \in Goals /\ now' = now
  BY RemoveEffect
<1>2. goal[g] # NoGoal
  BY DEF DeleteCommit, Discipline, LockOK, Exists
<1> QED
  BY <1>1, <1>2, SameRules DEF DeleteCommit, Ledger!Remove, NoLogs, Tombstone

LEMMA QuietIsPass ==
  ASSUME [Next]_vars, Quiet
  PROVE  Ledger!Pass \/ UNCHANGED Ledger!ledger
BY ClockMoves DEF Quiet, Ledger!Pass, Ledger!ledger

LEMMA StepIsLedgerStep ==
  ASSUME TypeOK, TypeOK', Discipline, NewOK, RecordsLieInThePast, SavedQuestionReadable,
         SavedQuestionReadable', [Next]_vars
  PROVE  [Ledger!Next]_(Ledger!ledger)
<1>1. CASE Quiet
  BY <1>1, QuietIsPass DEF Ledger!Next
<1>2. ASSUME NEW r \in Reqs, Commit(r) PROVE Ledger!Next
  <2>1. ASSUME CreateCommit(r) PROVE Ledger!Next
    BY <2>1, CreateIsCreate DEF Ledger!Next
  <2>2. ASSUME UpdateCommit(r) PROVE Ledger!Next
    BY <2>2, UpdateIsEdit DEF Ledger!Next
  <2>3. ASSUME PutCommit(r) PROVE Ledger!Next
    BY <2>3, PutIsRecord, SameRules DEF Ledger!Next
  <2>4. ASSUME DeleteCommit(r) PROVE Ledger!Next
    BY <2>4, DeleteIsRemove DEF Ledger!Next
  <2> QED
    BY <1>2, <2>1, <2>2, <2>3, <2>4 DEF Commit
<1> QED
  BY <1>1, <1>2, QuietOrCommit

(* For any number of slots, users, keys, goals and values: the committed    *)
(* tables move as if createGoalOnce, updateGoal, putLog and deleteGoal      *)
(* happened one at a time, each at its commit.                              *)
THEOREM StoreImplementsLedger == Spec => TransactionsAreAtomic
<1>1. Init => Ledger!Init
  BY SameRules DEF Init, Ledger!Init, NoLogs
<1>2. TypeOK /\ TypeOK' /\ Discipline /\ NewOK /\ RecordsLieInThePast
        /\ SavedQuestionReadable /\ SavedQuestionReadable' /\ [Next]_vars
        => [Ledger!Next]_(Ledger!ledger)
  BY StepIsLedgerStep
<1>3. Spec => Ledger!Spec
  BY <1>1, <1>2, TypeCorrect, LocksHold, NewHolds, NoFutureRecords,
     SavedQuestionsStayReadable, PTL DEF Spec, Ledger!Spec
<1> QED
  BY <1>3 DEF TransactionsAreAtomic

-----------------------------------------------------------------------------
(* Readers. *)

LEMMA StoreBehaves == ReadSpec => Spec
<1>1. ReadInit => Init
  BY DEF ReadInit
<1>2. [ReadNext]_<<vars, readVars>> => [Next]_vars
  BY DEF ReadNext, vars
<1> QED
  BY <1>1, <1>2, PTL DEF ReadSpec, Spec

-----------------------------------------------------------------------------
(* A record that says DONE has marked its goal. *)

DoneIsMarked(g, d) == log[g][d] = "DONE" => Exists(g) /\ goal[g].locked

DonesAreMarked == \A g \in Goals, d \in Days : DoneIsMarked(g, d)

LEMMA DoneStep ==
  ASSUME TypeOK, TypeOK', Discipline, [Next]_vars,
         NEW g \in Goals, NEW d \in Days, DoneIsMarked(g, d)
  PROVE  DoneIsMarked(g, d)'
<1>1. ASSUME log'[g][d] = log[g][d], goal'[g] = goal[g] PROVE DoneIsMarked(g, d)'
  BY <1>1 DEF DoneIsMarked, Exists
<1>2. CASE Quiet
  BY <1>1, <1>2 DEF Quiet
<1>3. ASSUME NEW r \in Reqs, CreateCommit(r) PROVE DoneIsMarked(g, d)'
  <2>1. log' = log /\ (goal'[g] # goal[g] => ~Exists(g))
    BY <1>3, CreateEffect
  <2> QED
    BY <1>1, <2>1 DEF DoneIsMarked
<1>4. ASSUME NEW r \in Reqs, UpdateCommit(r) PROVE DoneIsMarked(g, d)'
  <2>1. log' = log
    BY <1>4, EditEffect
  <2>2. CASE g = req[r].goal
    <3>1. goal'[g] = PatchedRow(goal[g], req[r].change) /\ goal'[g] \in Rows
      BY <1>4, <2>2, EditEffect
    <3>2. goal'[g].locked = goal[g].locked
      BY <3>1 DEF PatchedRow
    <3> QED
      BY <2>1, <3>1, <3>2, StoreAssumption DEF DoneIsMarked, Exists
  <2> QED
    BY <1>1, <1>4, <2>1, <2>2, EditEffect
<1>5. ASSUME NEW r \in Reqs, PutCommit(r) PROVE DoneIsMarked(g, d)'
  <2>1. log' = [log EXCEPT ![req[r].goal][req[r].date] = req[r].status]
    BY <1>5 DEF PutCommit
  <2>2. log'[g][d] # log[g][d] => g = req[r].goal /\ log'[g][d] = req[r].status
    BY <2>1 DEF TypeOK
  <2>3. CASE g = req[r].goal
    <3>1. /\ goal[g] \in Rows /\ goal'[g] = Marked(goal[g], req[r].status)
          /\ goal'[g] \in Rows
      BY <1>5, <2>3, RecordEffect
    <3>2. goal'[g] # NoGoal /\ (goal[g].locked \/ req[r].status = "DONE" => goal'[g].locked)
      BY <3>1, MarkedKeeps, StoreAssumption
    <3> QED
      BY <2>2, <3>2 DEF DoneIsMarked, Exists
  <2> QED
    BY <1>1, <1>5, <2>2, <2>3, RecordEffect
<1>6. ASSUME NEW r \in Reqs, DeleteCommit(r) PROVE DoneIsMarked(g, d)'
  <2>1. CASE g = req[r].goal
    BY <1>6, <2>1, RemoveEffect DEF DoneIsMarked, NoLogs
  <2> QED
    BY <1>1, <1>6, <2>1, RemoveEffect
<1> QED
  BY <1>2, <1>3, <1>4, <1>5, <1>6, QuietOrCommit DEF Commit

LEMMA MarksHold == Spec => []DonesAreMarked
<1>1. Init => DonesAreMarked
  BY DEF Init, DonesAreMarked, DoneIsMarked, NoLogs
<1>2. TypeOK /\ TypeOK' /\ Discipline /\ DonesAreMarked /\ [Next]_vars => DonesAreMarked'
  BY DoneStep DEF DonesAreMarked
<1> QED
  BY <1>1, <1>2, TypeCorrect, LocksHold, PTL DEF Spec

(* What the readers need of the store. *)
StoreOK == TypeOK /\ SavedQuestionReadable /\ RecordsLieInThePast /\ DonesAreMarked

LEMMA StoreHolds == ReadSpec => []StoreOK
<1>1. TypeOK /\ SavedQuestionReadable /\ RecordsLieInThePast /\ DonesAreMarked => StoreOK
  BY DEF StoreOK
<1> QED
  BY <1>1, StoreBehaves, TypeCorrect, SavedQuestionsStayReadable, NoFutureRecords, MarksHold, PTL

-----------------------------------------------------------------------------
(* The readers. *)

Logs == [Days -> {"UNRECORDED", "DONE", "SKIPPED"}]

ReadTypes ==
  /\ rpc \in [Readers -> {"idle", "begun", "selected", "clocked"}]
  /\ ask \in [Readers -> Asks \cup {NoReply}]
  /\ snap \in [Readers -> [row : Rows \cup {NoGoal}, log : Logs]]
  /\ at \in [Readers -> Instants]
  /\ reply = [q \in Readers |-> reply[q]]

(* A row and its records as they were together at one moment before moment. *)
Together(row, logs, moment) ==
  /\ row \in Rows /\ logs \in Logs /\ ValidSavedQuestion(row)
  /\ DoneDays(logs) # {} => UnitLocked(row)
  /\ \A d \in Days : logs[d] # "UNRECORDED" => d <= LocalDateIn[moment][row.set.tz]

SnapOK(q) ==
  /\ rpc[q] \in {"begun", "selected", "clocked"} => ask[q] \in Asks
  /\ rpc[q] \in {"selected", "clocked"} => Together(snap[q].row, snap[q].log, now)
  /\ rpc[q] = "clocked" => Together(snap[q].row, snap[q].log, at[q])

(* What a page may rely on. *)
Sound(a) ==
  a # NoReply =>
    /\ a.view \in {"goal", "today"}
    /\ a.view = "goal" =>
         /\ (a.status # "UNRECORDED" \/ a.done # {}) => a.hasLogs
         /\ a.status = "DONE" <=> a.today \in a.done
    /\ a.done # {} => a.unitLocked
    /\ a.view = "today" /\ a.missing =>
         LogVerdict([start |-> a.start], a.today - 1, a.today) = "saved"

ReadInv == ReadTypes /\ \A q \in Readers : SnapOK(q) /\ Sound(reply[q])

(* What is committed is together. *)
LEMMA CommittedTogether ==
  ASSUME StoreOK, NEW g \in Goals, Exists(g)
  PROVE  Together(goal[g], log[g], now)
<1>1. goal[g] \in Rows /\ log[g] \in Logs /\ ValidSavedQuestion(goal[g])
  BY DEF StoreOK, TypeOK, Exists, SavedQuestionReadable, Logs
<1>2. DoneDays(log[g]) # {} => UnitLocked(goal[g])
  <2>1. DOMAIN log[g] = Days
    BY <1>1 DEF Logs
  <2> QED
    BY <2>1 DEF DoneDays, StoreOK, DonesAreMarked, DoneIsMarked, UnitLocked
<1>3. \A d \in Days : log[g][d] # "UNRECORDED" => d <= LocalDateIn[now][goal[g].set.tz]
  BY DEF StoreOK, RecordsLieInThePast, Today
<1> QED
  BY <1>1, <1>2, <1>3 DEF Together

LEMMA TogetherStays ==
  ASSUME NEW m \in Instants, NEW n \in Instants, m <= n, NEW row, NEW logs,
         Together(row, logs, m)
  PROVE  Together(row, logs, n)
<1>1. row.set.tz \in Zones
  BY DEF Together, Rows, Settings
<1>2. /\ LocalDateIn[m][row.set.tz] \in Int /\ LocalDateIn[n][row.set.tz] \in Int
      /\ LocalDateIn[m][row.set.tz] <= LocalDateIn[n][row.set.tz]
  BY <1>1, CalendarAssumption DEF Days
<1>3. \A d \in Days : d \in Int
  BY DEF Days
<1> QED
  BY <1>2, <1>3 DEF Together

LEMMA ClockForward ==
  ASSUME TypeOK, TypeOK', [Next]_vars
  PROVE  now <= now'
<1>1. now \in Int /\ now' \in Int
  BY DEF TypeOK, Instants
<1> QED
  BY <1>1, ClockMoves

(* The model of a goal in the list and in its own page. *)
LEMMA GoalModelSound ==
  ASSUME NEW q \in Readers, NEW today \in Days, Together(snap[q].row, snap[q].log, at[q])
  PROVE  Sound(GoalModel(q, snap[q].row, today))
<1> DEFINE logs == snap[q].log
           a == GoalModel(q, snap[q].row, today)
           done == {d \in DoneDays(logs) : d <= today}
<1>1. /\ a.view = "goal" /\ a.today = today /\ a.status = logs[today] /\ a.done = done
      /\ a.hasLogs = (RecordedDays(logs) # {}) /\ a.unitLocked = UnitLocked(snap[q].row)
  BY DEF GoalModel, SeenLogs
<1>2. logs \in Logs /\ DOMAIN logs = Days
  BY DEF Together, Logs
<1>3. logs[today] # "UNRECORDED" \/ done # {} => RecordedDays(logs) # {}
  BY <1>2 DEF DoneDays, RecordedDays
<1>4. logs[today] = "DONE" <=> today \in done
  <2>1. today <= today
    BY DEF Days
  <2> QED
    BY <1>2, <2>1 DEF DoneDays
<1>5. done # {} => UnitLocked(snap[q].row)
  BY DEF Together
<1> HIDE DEF a, done, logs
<1>6. Sound(a)
  BY <1>1, <1>3, <1>4, <1>5 DEF Sound
<1> QED
  BY <1>6 DEF a

LEMMA TodayModelSound ==
  ASSUME NEW q \in Readers, NEW today \in Days, Together(snap[q].row, snap[q].log, at[q])
  PROVE  Sound(TodayModel(q, snap[q].row, today))
<1> DEFINE logs == snap[q].log
           row == snap[q].row
           a == TodayModel(q, row, today)
<1>1. /\ a.view = "today" /\ a.today = today /\ a.start = row.start /\ a.done = DoneDays(logs)
      /\ a.missing = YesterdayMissing(row, logs, today) /\ a.unitLocked = UnitLocked(row)
  BY DEF TodayModel, SeenLogs
<1>2. DoneDays(logs) # {} => UnitLocked(row)
  BY DEF Together
<1>3. YesterdayMissing(row, logs, today) =>
        LogVerdict([start |-> row.start], today - 1, today) = "saved"
  <2>1. row.start \in Int /\ today \in Int
    BY DEF Together, Rows, Days
  <2> QED
    BY <2>1 DEF YesterdayMissing, LogVerdict
<1> HIDE DEF a, logs, row
<1>4. Sound(a)
  BY <1>1, <1>2, <1>3 DEF Sound
<1> QED
  BY <1>4 DEF a, row

-----------------------------------------------------------------------------
(* A reader that does not move keeps what it knows. *)
LEMMA WritersDisturbNobody ==
  ASSUME ReadInv, StoreOK, StoreOK', [Next]_vars, UNCHANGED readVars
  PROVE  ReadInv'
<1>1. now \in Instants /\ now' \in Instants /\ now <= now'
  BY ClockForward DEF StoreOK, TypeOK
<1>2. UNCHANGED <<rpc, ask, snap, at, reply>>
  BY DEF readVars
<1>3. ASSUME NEW q \in Readers PROVE SnapOK(q)' /\ Sound(reply[q])'
  <2>1. SnapOK(q) /\ Sound(reply[q])
    BY DEF ReadInv
  <2>2. rpc[q] \in {"selected", "clocked"} => Together(snap[q].row, snap[q].log, now')
    BY <1>1, <2>1, TogetherStays DEF SnapOK
  <2>3. Together(snap[q].row, snap[q].log, now') = Together(snap[q].row, snap[q].log, now)'
    BY <1>2 DEF Together, ValidSavedQuestion, UnitLocked
  <2>4. Together(snap[q].row, snap[q].log, at[q])' = Together(snap[q].row, snap[q].log, at[q])
    BY <1>2 DEF Together
  <2> QED
    BY <1>2, <2>1, <2>2, <2>3, <2>4 DEF SnapOK, Sound
<1>4. ReadTypes'
  BY <1>2 DEF ReadInv, ReadTypes
<1> QED
  BY <1>3, <1>4 DEF ReadInv

(* Readers do not disturb each other. *)
Apart(q) ==
  \A p \in Readers : p # q =>
    /\ rpc'[p] = rpc[p] /\ ask'[p] = ask[p] /\ snap'[p] = snap[p] /\ at'[p] = at[p]
    /\ reply'[p] = reply[p]

LEMMA OneReaderMoves ==
  ASSUME ReadInv, UNCHANGED vars, ReadTypes', NEW q \in Readers, Apart(q), SnapOK(q)', Sound(reply'[q])
  PROVE  ReadInv'
<1>1. ASSUME NEW p \in Readers, p # q PROVE SnapOK(p)' /\ Sound(reply'[p])
  <2>1. SnapOK(p) /\ Sound(reply[p])
    BY DEF ReadInv
  <2>2. now' = now /\ rpc'[p] = rpc[p] /\ ask'[p] = ask[p] /\ snap'[p] = snap[p]
        /\ at'[p] = at[p] /\ reply'[p] = reply[p]
    BY <1>1 DEF Apart, vars
  <2> QED
    BY <2>1, <2>2 DEF SnapOK
<1> QED
  BY <1>1 DEF ReadInv, Sound

LEMMA DoneKeeps ==
  ASSUME ReadInv, StoreOK, UNCHANGED vars, NEW q \in Readers, NEW a, ReadDone(q, a), Sound(a)
  PROVE  ReadInv'
<1>1. NoSnap \in [row : Rows \cup {NoGoal}, log : Logs] /\ 0 \in Instants
  BY RulesAssumption DEF NoSnap, NoLogs, Logs, Instants
<1>2. ReadTypes' /\ Apart(q) /\ rpc'[q] = "idle" /\ reply'[q] = a
  <2>1. /\ rpc' = [rpc EXCEPT ![q] = "idle"] /\ snap' = [snap EXCEPT ![q] = NoSnap]
        /\ at' = [at EXCEPT ![q] = 0] /\ ask' = [ask EXCEPT ![q] = NoReply]
        /\ reply' = [reply EXCEPT ![q] = a]
    BY DEF ReadDone
  <2> HIDE DEF NoSnap
  <2> QED
    BY <1>1, <2>1 DEF ReadInv, ReadTypes, Apart
<1>3. SnapOK(q)'
  BY <1>2 DEF SnapOK
<1> QED
  BY <1>2, <1>3, OneReaderMoves

LEMMA BeginKeeps ==
  ASSUME ReadInv, UNCHANGED vars, NEW q \in Readers, ReadBegin(q)
  PROVE  ReadInv'
<1>1. PICK a \in Asks :
        /\ rpc' = [rpc EXCEPT ![q] = "begun"] /\ ask' = [ask EXCEPT ![q] = a]
        /\ reply' = [reply EXCEPT ![q] = NoReply] /\ snap' = snap /\ at' = at
  BY DEF ReadBegin
<1>2. ReadTypes' /\ Apart(q) /\ rpc'[q] = "begun" /\ ask'[q] = a /\ reply'[q] = NoReply
  BY <1>1 DEF ReadInv, ReadTypes, Apart
<1>3. SnapOK(q)' /\ Sound(reply'[q])
  BY <1>2 DEF SnapOK, Sound
<1> QED
  BY <1>2, <1>3, OneReaderMoves

LEMMA SelectKeeps ==
  ASSUME ReadInv, StoreOK, UNCHANGED vars, NEW q \in Readers, ReadSelect(q)
  PROVE  ReadInv'
<1> DEFINE g == ask[q].goal
           taken == [row |-> goal[g], log |-> log[g]]
<1>1. CASE ~Owned(ask[q].user, g)
  BY <1>1, DoneKeeps DEF ReadSelect, Sound
<1>2. CASE Owned(ask[q].user, g)
  <2>1. /\ rpc[q] = "begun" /\ snap' = [snap EXCEPT ![q] = taken]
        /\ rpc' = [rpc EXCEPT ![q] = "selected"] /\ UNCHANGED <<ask, at, reply>>
    BY <1>2 DEF ReadSelect
  <2>2. ask[q] \in Asks /\ g \in Goals /\ Exists(g)
    BY <1>2, <2>1 DEF ReadInv, SnapOK, Asks, Owned
  <2>3. Together(goal[g], log[g], now)
    BY <2>2, CommittedTogether
  <2>4. taken \in [row : Rows \cup {NoGoal}, log : Logs]
    BY <2>3 DEF Together
  <2>5. taken.row = goal[g] /\ taken.log = log[g]
    OBVIOUS
  <2> HIDE DEF taken
  <2>6. /\ ReadTypes' /\ Apart(q) /\ rpc'[q] = "selected" /\ ask'[q] = ask[q]
        /\ snap'[q] = taken /\ reply'[q] = reply[q]
    BY <2>1, <2>4 DEF ReadInv, ReadTypes, Apart
  <2>7. now' = now
    BY DEF vars
  <2>8. SnapOK(q)' /\ Sound(reply'[q])
    BY <2>2, <2>3, <2>5, <2>6, <2>7 DEF SnapOK, ReadInv
  <2> QED
    BY <2>6, <2>8, OneReaderMoves
<1> QED
  BY <1>1, <1>2

LEMMA ClockKeeps ==
  ASSUME ReadInv, StoreOK, UNCHANGED vars, NEW q \in Readers, ReadClock(q)
  PROVE  ReadInv'
<1>1. /\ rpc[q] = "selected" /\ at' = [at EXCEPT ![q] = now]
      /\ rpc' = [rpc EXCEPT ![q] = "clocked"] /\ UNCHANGED <<ask, snap, reply>>
  BY DEF ReadClock, ClockAfterSelect
<1>2. now \in Instants /\ now' = now
  BY DEF StoreOK, TypeOK, vars
<1>3. /\ ReadTypes' /\ Apart(q) /\ rpc'[q] = "clocked" /\ ask'[q] = ask[q]
      /\ snap'[q] = snap[q] /\ at'[q] = now /\ reply'[q] = reply[q]
  BY <1>1, <1>2 DEF ReadInv, ReadTypes, Apart
<1>4. SnapOK(q)' /\ Sound(reply'[q])
  BY <1>1, <1>2, <1>3 DEF SnapOK, ReadInv
<1> QED
  BY <1>3, <1>4, OneReaderMoves

LEMMA AnswerKeeps ==
  ASSUME ReadInv, StoreOK, UNCHANGED vars, NEW q \in Readers, ReadAnswer(q)
  PROVE  ReadInv'
<1> DEFINE row == snap[q].row
           logs == snap[q].log
           today == LocalDateIn[at[q]][row.set.tz]
<1>1. rpc[q] = "clocked" /\ ask[q] \in Asks /\ Together(row, logs, at[q]) /\ at[q] \in Instants
  BY DEF ReadAnswer, ReadInv, SnapOK, ReadTypes
<1>2. today \in Days
  <2>1. row.set.tz \in Zones
    BY <1>1 DEF Together, Rows, Settings
  <2> QED
    BY <1>1, <2>1, CalendarAssumption
<1>3. ValidSavedQuestion(row) /\ ~FutureLogDate(SeenLogs(q), today)
  <2>1. logs \in Logs /\ DOMAIN logs = Days
    BY <1>1 DEF Together, Logs
  <2>2. \A d \in Days : logs[d] # "UNRECORDED" => ~(d > today)
    <3>1. \A d \in Days : logs[d] # "UNRECORDED" => d <= today
      BY <1>1 DEF Together
    <3> QED
      BY <1>2, <3>1 DEF Days
  <2> QED
    BY <1>1, <2>1, <2>2 DEF Together, FutureLogDate, RecordedDays, SeenLogs
<1>4. ReadDone(q, IF ask[q].view = "goal" THEN GoalModel(q, row, today)
                  ELSE TodayModel(q, row, today))
  BY <1>3 DEF ReadAnswer
<1>5. Sound(GoalModel(q, row, today)) /\ Sound(TodayModel(q, row, today))
  BY <1>1, <1>2, GoalModelSound, TodayModelSound
<1> HIDE DEF row, today
<1>6. CASE ask[q].view = "goal"
  BY <1>4, <1>5, <1>6, DoneKeeps
<1>7. CASE ask[q].view # "goal"
  BY <1>4, <1>5, <1>7, DoneKeeps
<1> QED
  BY <1>6, <1>7

LEMMA ReadStep ==
  ASSUME ReadInv, StoreOK, StoreOK', [ReadNext]_<<vars, readVars>>
  PROVE  ReadInv'
<1>1. CASE [Next]_vars /\ UNCHANGED readVars
  BY <1>1, WritersDisturbNobody
<1>2. ASSUME NEW q \in Readers, UNCHANGED vars,
             ReadBegin(q) \/ ReadSelect(q) \/ ReadClock(q) \/ ReadAnswer(q) \/ ReadAbort(q)
      PROVE  ReadInv'
  <2>1. CASE ReadAbort(q)
    BY <1>2, <2>1, DoneKeeps DEF ReadAbort, Sound
  <2> QED
    BY <1>2, <2>1, BeginKeeps, SelectKeeps, ClockKeeps, AnswerKeeps
<1> QED
  BY <1>1, <1>2 DEF ReadNext, vars

LEMMA ReadersHold == ReadSpec => []ReadInv
<1>1. ReadInit => ReadInv
  <2> SUFFICES ASSUME ReadInit PROVE ReadInv
    OBVIOUS
  <2>1. NoSnap \in [row : Rows \cup {NoGoal}, log : Logs] /\ 0 \in Instants
    BY RulesAssumption DEF NoSnap, NoLogs, Logs, Instants
  <2> HIDE DEF NoSnap
  <2> QED
    BY <2>1 DEF ReadInit, ReadInv, ReadTypes, SnapOK, Sound
<1>2. ReadInv /\ StoreOK /\ StoreOK' /\ [ReadNext]_<<vars, readVars>> => ReadInv'
  BY ReadStep
<1> QED
  BY <1>1, <1>2, StoreHolds, PTL DEF ReadSpec

(* No reader is ever answered 500 for what the API itself has stored, and   *)
(* no page asks for a yesterday that PUT would refuse: for every calendar   *)
(* whose zones never go back, every number of readers and every            *)
(* interleaving with the writers.                                           *)
THEOREM ReadersAreServed == ReadSpec => []AnswersAreUsable
<1>1. ReadInv => AnswersAreUsable
  BY DEF ReadInv, Sound, AnswersAreUsable, ReadsNeverFail, PromptCanBeAnswered, Answered
<1> QED
  BY <1>1, ReadersHold, PTL

(* A reader with its clock holds no record of a later day, so the sum up to *)
(* today and the sum of all records are one.                                *)
LEMMA ProgressAgrees ==
  ASSUME ReadInv, NEW q \in Readers, rpc[q] = "clocked",
         NEW today, today = LocalDateIn[at[q]][snap[q].row.set.tz]
  PROVE  GoalModel(q, snap[q].row, today).done = TodayModel(q, snap[q].row, today).done
<1> DEFINE logs == snap[q].log
<1>1. logs \in Logs /\ \A d \in Days : logs[d] # "UNRECORDED" => d <= today
  BY DEF ReadInv, SnapOK, Together
<1>2. DoneDays(logs) = {d \in DoneDays(logs) : d <= today}
  BY <1>1 DEF DoneDays, Logs
<1> QED
  BY <1>2 DEF GoalModel, TodayModel, SeenLogs

(* An answer never mixes two moments of the database, and both pages would  *)
(* tell the same progress of the moment a reader holds.                     *)
THEOREM ReadersSeeOneMoment == ReadSpec => []AnswersAreOneMoment
<1>1. ReadInv => AnswersAreOneMoment
  BY ProgressAgrees DEF ReadInv, Sound, AnswersAreOneMoment, Answered
<1> QED
  BY <1>1, ReadersHold, PTL
=============================================================================
