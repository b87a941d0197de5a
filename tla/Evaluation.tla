----------------------------- MODULE Evaluation -----------------------------
(***************************************************************************)
(* The participation in the prediction evaluation and the forecast cards   *)
(* of apps/api/src/evaluation: join, withdraw, capture and the operator's  *)
(* purge.  A write transaction locks the row of the user, then the row of  *)
(* the goal, and reads the state it works on.  A capture is three          *)
(* transactions: it looks for today's card, reads the goal without locks   *)
(* (the prediction is computed between), and stores the card if nothing    *)
(* it rests on has changed.                                                *)
(*                                                                         *)
(* The goals live in GoalStore; here its accepted requests are single      *)
(* steps (TransactionsAreAtomic) that wait for the row lock: Record, Edit, *)
(* Delete.  A time zone and a start date do not move once a day is         *)
(* recorded, and a card needs a record: the calendar is one function.      *)
(*                                                                         *)
(* asked and told are history: no guard reads them.                        *)
(***************************************************************************)
EXTENDS Integers, FiniteSets

CONSTANTS
  Users,        \* accounts
  Goals,        \* goals, each with its owner
  OwnerOf,      \* [Goals -> Users]
  Reqs,         \* request slots of the API
  Kinds,        \* which operations the requests ask for
  Retention,    \* policy.retentionDays, in instants
  MaxSnapshots, \* policy.maxSnapshots
  Required,     \* totalRequired; every DONE counts for one
  DayOf,        \* [0..MaxNow -> Days], the calendar of the goals
  LastDay,      \* bound of the model: last calendar day
  MaxNow,       \* bound of the model: last instant of the clock
  MaxJoins,     \* bound of the model: participations ever made
  MaxEdits,     \* bound of the model: records and edits of all goals
  Gone,         \* no such row of goal
  Nobody,       \* no (valid) participation
  Nothing       \* the transaction has read nothing

Instants == 0 .. MaxNow
Days == 0 .. LastDay
Tickets == 1 .. MaxJoins

ASSUME EvaluationAssumption ==
  /\ OwnerOf \in [Goals -> Users]
  /\ Retention \in Nat \ {0} /\ MaxSnapshots \in Nat \ {0} /\ Required \in Nat
  /\ MaxNow \in Nat /\ LastDay \in Nat /\ MaxJoins \in Nat /\ MaxEdits \in Nat
  /\ DayOf \in [Instants -> Days]
  /\ \A m, n \in Instants : m <= n => DayOf[m] <= DayOf[n]

Records == [Days -> {"UNRECORDED", "DONE", "SKIPPED"}]

(* rev: goal_settings_revision; arev: answer_revision. *)
Rows == [rev : Nat, arev : Nat, recs : Records]

(* check (expires_at > joined_at) *)
Participations ==
  {p \in [id : Tickets, goal : Goals, joined : Instants, expires : Nat] : p.expires > p.joined}

(* One row of evaluation_forecast, check (expires_at > issued_at); prefix   *)
(* stands for payload.prefixHash.  asked, the participation the capture     *)
(* found first, is history.                                                 *)
Cards ==
  {c \in [goal : Goals, anchor : Days, issued : Instants, expires : Nat,
          rev : Nat, arev : Nat, prefix : Records, asked : Tickets] : c.expires > c.issued}

ASSUME NoneAssumption ==
  /\ Gone \notin Rows /\ Nobody \notin Participations

VARIABLES
  now,    \* the clock of the server
  goal,   \* table goal with its records: id -> row
  part,   \* table evaluation_participation: user -> row
  cards,  \* table evaluation_forecast
  joins,  \* how many participations were ever made: ids are fresh
  edits,  \* how many records and edits were made
  pc,     \* how far a slot is
  req,    \* the request of a slot
  seen,   \* what the write transaction of a slot has read
  memo,   \* what a capture keeps from one transaction to the next
  told    \* history: the cards that captures answered

vars == <<now, goal, part, cards, joins, edits, pc, req, seen, memo, told>>

tables == <<goal, part, cards>>
bounds == <<joins, edits>>

Requests == [kind : {"join", "withdraw"}, user : Users, goal : Goals]
       \cup [kind : {"capture", "store"}, user : Users, goal : Goals, rev : Nat]

NoRequest == [kind |-> "none"]

Views == [at : Instants, part : Participations \cup {Nobody}, cards : SUBSET Cards]

Memos == [ticket : Tickets, row : Rows \cup {Gone}, at : Instants]

TypeOK ==
  /\ now \in Instants
  /\ goal \in [Goals -> Rows \cup {Gone}]
  /\ part \in [Users -> Participations \cup {Nobody}]
  /\ cards \subseteq Cards
  /\ joins \in 0 .. MaxJoins /\ edits \in 0 .. MaxEdits
  /\ pc \in [Reqs -> {"idle", "begin", "row", "locked", "read", "snapshot", "clock"}]
  /\ req \in [Reqs -> Requests \cup {NoRequest}]
  /\ seen \in [Reqs -> Views \cup {Nothing}]
  /\ memo \in [Reqs -> Memos \cup {Nothing}]
  /\ told \subseteq Cards

NoRecords == [d \in Days |-> "UNRECORDED"]

Init ==
  /\ now = 0
  /\ goal = [g \in Goals |-> [rev |-> 0, arev |-> 0, recs |-> NoRecords]]
  /\ part = [u \in Users |-> Nobody]
  /\ cards = {}
  /\ joins = 0 /\ edits = 0
  /\ pc = [r \in Reqs |-> "idle"]
  /\ req = [r \in Reqs |-> NoRequest]
  /\ seen = [r \in Reqs |-> Nothing]
  /\ memo = [r \in Reqs |-> Nothing]
  /\ told = {}

-----------------------------------------------------------------------------
(* Retention (readState): what has run out is not seen, purged or not. *)

Live(p, at) == p.expires > at /\ p.joined > at - Retention

Visible(c, at) == c.expires > at /\ c.issued > at - Retention

(* order by issued_at desc limit n *)
Latest(S, n) == {c \in S : Cardinality({d \in S : d.issued > c.issued}) < n}

CardsOf(g) == {c \in cards : c.goal = g}

ReadPart(u, at) == IF part[u] # Nobody /\ Live(part[u], at) THEN part[u] ELSE Nobody

ReadCards(u, g, at) ==
  IF ReadPart(u, at) # Nobody /\ part[u].goal = g
  THEN Latest({c \in CardsOf(g) : Visible(c, at)}, MaxSnapshots)
  ELSE {}

-----------------------------------------------------------------------------
(* The life of a slot. *)

HoldsUser(s, u) == pc[s] \in {"row", "locked", "read"} /\ req[s].user = u

(* The row of the user not locked. *)
UserNeverWaits(u) == u \in Users

UserFree(u) == \A s \in Reqs : ~HoldsUser(s, u)

HoldsRow(s, g) == pc[s] \in {"locked", "read"} /\ req[s].goal = g

RowFree(g) == \A s \in Reqs : ~HoldsRow(s, g)

Submit(r, request) ==
  /\ pc[r] = "idle" /\ request.kind \in Kinds
  /\ pc' = [pc EXCEPT ![r] = "begin"]
  /\ req' = [req EXCEPT ![r] = request]
  /\ UNCHANGED <<now, tables, bounds, seen, memo, told>>

(* COMMIT or ROLLBACK and the HTTP answer. *)
Answer(r) ==
  /\ pc' = [pc EXCEPT ![r] = "idle"]
  /\ req' = [req EXCEPT ![r] = NoRequest]
  /\ seen' = [seen EXCEPT ![r] = Nothing]
  /\ memo' = [memo EXCEPT ![r] = Nothing]
  /\ UNCHANGED <<now, edits>>

Refuse(r) == Answer(r) /\ UNCHANGED <<tables, joins, told>>

(* An error of the driver, of the network or of the pool, or a deadlock     *)
(* that PostgreSQL breaks: rollback.                                        *)
Abort(r) == pc[r] # "idle" /\ Refuse(r)

(* ownedTransaction: the user's row, the goal's row, then the state. *)
LockUser(r) ==
  /\ pc[r] = "begin" /\ UserFree(req[r].user)
  /\ pc' = [pc EXCEPT ![r] = "row"]
  /\ UNCHANGED <<now, tables, bounds, req, seen, memo, told>>

Owned(u, g) == OwnerOf[g] = u /\ goal[g] # Gone

LockRow(r) ==
  /\ pc[r] = "row" /\ RowFree(req[r].goal)
  /\ IF Owned(req[r].user, req[r].goal)
     THEN /\ pc' = [pc EXCEPT ![r] = "locked"]
          /\ UNCHANGED <<now, tables, bounds, req, seen, memo, told>>
     ELSE Refuse(r)

(* The clock, then participation and cards at that time. *)
ReadState(r) ==
  LET u == req[r].user  g == req[r].goal IN
  /\ pc[r] = "locked"
  /\ seen' = [seen EXCEPT ![r] =
        [at |-> now, part |-> ReadPart(u, now), cards |-> ReadCards(u, g, now)]]
  /\ pc' = [pc EXCEPT ![r] = "read"]
  /\ UNCHANGED <<now, tables, bounds, req, memo, told>>

-----------------------------------------------------------------------------
(* PUT and DELETE /api/goals/:goalId/evaluation/participation *)

SubmitConsent(r) ==
  \E k \in {"join", "withdraw"}, u \in Users, g \in Goals :
    Submit(r, [kind |-> k, user |-> u, goal |-> g])

(* ON DELETE CASCADE from evaluation_participation. *)
WithoutCardsOf(gs) == {c \in cards : c.goal \notin gs}

GoalOf(u) == IF part[u] = Nobody THEN {} ELSE {part[u].goal}

NewParticipation(g, at) ==
  [id |-> joins + 1, goal |-> g, joined |-> at, expires |-> at + Retention]

(* A valid participation stays, for this goal (204) or another (409); one    *)
(* that has run out gives way to the new one.                               *)
JoinCommit(r) ==
  LET u == req[r].user  g == req[r].goal IN
  /\ pc[r] = "read" /\ req[r].kind = "join"
  /\ IF seen[r].part # Nobody
     THEN Refuse(r)
     ELSE /\ joins < MaxJoins
          /\ part' = [part EXCEPT ![u] = NewParticipation(g, seen[r].at)]
          /\ cards' = WithoutCardsOf(GoalOf(u))
          /\ joins' = joins + 1
          /\ Answer(r) /\ UNCHANGED <<goal, told>>

(* delete ... where user_id and goal_id, run out or not. *)
WithdrawCommit(r) ==
  LET u == req[r].user  g == req[r].goal IN
  /\ pc[r] = "read" /\ req[r].kind = "withdraw"
  /\ IF g \in GoalOf(u)
     THEN part' = [part EXCEPT ![u] = Nobody] /\ cards' = WithoutCardsOf({g})
     ELSE UNCHANGED <<part, cards>>
  /\ Answer(r) /\ UNCHANGED <<goal, joins, told>>

-----------------------------------------------------------------------------
(* POST /api/goals/:goalId/evaluation/forecasts *)

SubmitCapture(r) ==
  \E u \in Users, g \in Goals :
    /\ goal[g] # Gone
    /\ Submit(r, [kind |-> "capture", user |-> u, goal |-> g, rev |-> goal[g].rev])

(* captureReady: the participation is for this goal, the settings are those *)
(* of the page.                                                             *)
Ready(r) ==
  /\ seen[r].part # Nobody /\ seen[r].part.goal = req[r].goal
  /\ goal[req[r].goal].rev = req[r].rev

(* The card of the day looked up by the records it was computed from. *)
OfTheseRecords(r, anchor) ==
  {c \in seen[r].cards : c.anchor = anchor /\ c.prefix = goal[req[r].goal].recs}

OfTheDay(r, anchor) == {c \in seen[r].cards : c.anchor = anchor}

(* A repeated request gets the first card of the day again. *)
Replay(r, anchor) ==
  /\ told' = told \cup OfTheDay(r, anchor)
  /\ Answer(r) /\ UNCHANGED <<tables, joins>>

CapturePreflight(r) ==
  LET anchor == DayOf[seen[r].at] IN
  /\ pc[r] = "read" /\ req[r].kind = "capture"
  /\ IF ~Ready(r) THEN Refuse(r)
     ELSE IF OfTheDay(r, anchor) # {} THEN Replay(r, anchor)
     ELSE /\ memo' = [memo EXCEPT ![r] = [ticket |-> seen[r].part.id, row |-> Gone, at |-> 0]]
          /\ seen' = [seen EXCEPT ![r] = Nothing]
          /\ pc' = [pc EXCEPT ![r] = "snapshot"]
          /\ UNCHANGED <<now, tables, bounds, req, told>>

(* loadTodaySnapshot: one snapshot of the goal and its records, *)
CaptureSelect(r) ==
  LET u == req[r].user  g == req[r].goal IN
  /\ pc[r] = "snapshot"
  /\ IF Owned(u, g)
     THEN /\ memo' = [memo EXCEPT ![r].row = goal[g]]
          /\ pc' = [pc EXCEPT ![r] = "clock"]
          /\ UNCHANGED <<now, tables, bounds, req, seen, told>>
     ELSE Refuse(r)

Done(recs) == Cardinality({d \in Days : recs[d] = "DONE"})

(* today is recorded, the goal is not yet reached *)
Capturable(recs, anchor) == recs[anchor] # "UNRECORDED" /\ Done(recs) < Required

(* and the clock after it; then the prediction, without a connection. *)
CaptureClock(r) ==
  LET row == memo[r].row IN
  /\ pc[r] = "clock"
  /\ IF row.rev = req[r].rev /\ Capturable(row.recs, DayOf[now])
     THEN /\ memo' = [memo EXCEPT ![r].at = now]
          /\ req' = [req EXCEPT ![r].kind = "store"]
          /\ pc' = [pc EXCEPT ![r] = "begin"]
          /\ UNCHANGED <<now, tables, bounds, seen, told>>
     ELSE Refuse(r)

Prefix(recs, anchor) ==
  [d \in Days |-> IF d <= anchor THEN recs[d] ELSE "UNRECORDED"]

(* Any valid participation will do. *)
AnyTicket(r) == seen[r].part # Nobody /\ memo[r] # Nothing

SameTicket(r) == seen[r].part.id = memo[r].ticket

(* A comparison that leaves the records out. *)
SameDayAndAnswers(r) ==
  /\ DayOf[seen[r].at] = DayOf[memo[r].at]
  /\ goal[req[r].goal].arev = memo[r].row.arev

(* EVALUATION_INPUT_CHANGED otherwise *)
SameInput(r) ==
  LET anchor == DayOf[memo[r].at] IN
  /\ DayOf[seen[r].at] = anchor
  /\ goal[req[r].goal].arev = memo[r].row.arev
  /\ Prefix(goal[req[r].goal].recs, anchor) = Prefix(memo[r].row.recs, anchor)

Least(a, b) == IF a <= b THEN a ELSE b

NewCard(r) ==
  LET anchor == DayOf[memo[r].at] IN
  [goal |-> req[r].goal, anchor |-> anchor, issued |-> memo[r].at,
   expires |-> Least(memo[r].at + Retention, seen[r].part.expires),
   rev |-> req[r].rev, arev |-> memo[r].row.arev,
   prefix |-> Prefix(memo[r].row.recs, anchor), asked |-> memo[r].ticket]

(* What has run out goes, and room is made for the new card. *)
Kept(g, at) == Latest({c \in CardsOf(g) : Visible(c, at)}, MaxSnapshots - 1)

(* unique (goal_id, anchor_date) *)
Collides(r) == \E c \in Kept(req[r].goal, seen[r].at) : c.anchor = DayOf[memo[r].at]

(* The foreign key refuses a card whose participation has been purged. *)
CaptureStore(r) ==
  LET g == req[r].goal  anchor == DayOf[memo[r].at] IN
  /\ pc[r] = "read" /\ req[r].kind = "store"
  /\ IF ~Ready(r) \/ ~SameTicket(r) \/ ~SameInput(r) THEN Refuse(r)
     ELSE IF OfTheDay(r, anchor) # {} THEN Replay(r, anchor)
     ELSE IF g \notin GoalOf(req[r].user) \/ Collides(r) THEN Refuse(r)
     ELSE /\ cards' = WithoutCardsOf({g}) \cup Kept(g, seen[r].at) \cup {NewCard(r)}
          /\ told' = told \cup {NewCard(r)}
          /\ Answer(r) /\ UNCHANGED <<goal, part, joins>>

-----------------------------------------------------------------------------
(* purge-cli.ts: the clock is read before the connection is made.  Its two  *)
(* DELETEs are one step: it locks no user and no goal, and a card stored    *)
(* between them goes with its participation.                                *)

(* A cutoff one instant too late. *)
RunsOutSoon(expires, start, at) == expires <= at + 1 \/ start <= at - Retention

RunOut(expires, start, at) == expires <= at \/ start <= at - Retention

PurgedUsers(at) ==
  {u \in Users : part[u] # Nobody /\ RunOut(part[u].expires, part[u].joined, at)}

Purge ==
  \E at \in 0 .. now :
    /\ cards' = {c \in cards : /\ ~RunOut(c.expires, c.issued, at)
                               /\ \A u \in PurgedUsers(at) : c.goal # part[u].goal}
    /\ part' = [u \in Users |-> IF u \in PurgedUsers(at) THEN Nobody ELSE part[u]]
    /\ UNCHANGED <<now, goal, bounds, pc, req, seen, memo, told>>

-----------------------------------------------------------------------------
(* The accepted requests of GoalStore, which hold the row lock. *)

Change(g, row) ==
  /\ goal[g] # Gone /\ RowFree(g) /\ edits < MaxEdits
  /\ goal' = [goal EXCEPT ![g] = row]
  /\ edits' = edits + 1
  /\ UNCHANGED <<now, part, cards, joins, pc, req, seen, memo, told>>

Record(g) ==
  \E d \in {DayOf[now], DayOf[now] - 1} \cap Days, status \in {"DONE", "SKIPPED"} :
    Change(g, [goal[g] EXCEPT !.recs[d] = status])

Edit(g) ==
  \/ Change(g, [goal[g] EXCEPT !.rev = goal[g].rev + 1])
  \/ Change(g, [goal[g] EXCEPT !.arev = goal[g].arev + 1])

(* ON DELETE CASCADE to the participation and its cards. *)
Delete(g) ==
  /\ goal[g] # Gone /\ RowFree(g)
  /\ goal' = [goal EXCEPT ![g] = Gone]
  /\ part' = [u \in Users |-> IF g \in GoalOf(u) THEN Nobody ELSE part[u]]
  /\ cards' = WithoutCardsOf({g})
  /\ UNCHANGED <<now, bounds, pc, req, seen, memo, told>>

-----------------------------------------------------------------------------
Tick ==
  /\ now < MaxNow /\ now' = now + 1
  /\ UNCHANGED <<tables, bounds, pc, req, seen, memo, told>>

Work(r) ==
  \/ LockUser(r) \/ LockRow(r) \/ ReadState(r)
  \/ JoinCommit(r) \/ WithdrawCommit(r)
  \/ CapturePreflight(r) \/ CaptureSelect(r) \/ CaptureClock(r) \/ CaptureStore(r)

Next ==
  \/ Tick \/ Purge
  \/ \E g \in Goals : Record(g) \/ Edit(g) \/ Delete(g)
  \/ \E r \in Reqs : SubmitConsent(r) \/ SubmitCapture(r) \/ Work(r) \/ Abort(r)

Spec == Init /\ [][Next]_vars

-----------------------------------------------------------------------------
(* Safety. *)

(* Consent: every card belongs to the participation whose owner asked for   *)
(* it, was issued during that participation and runs out no later; a        *)
(* withdrawal in the middle of a capture, also when the user joins again at *)
(* once, leaves no card behind (EVALUATION_PARTICIPATION_CHANGED).          *)
ConsentCoversCards ==
  \A c \in cards :
    LET p == part[OwnerOf[c.goal]] IN
    /\ p # Nobody /\ p.goal = c.goal /\ p.id = c.asked
    /\ p.joined <= c.issued /\ c.issued < c.expires /\ c.expires <= p.expires

(* A capture sent again, at once from two tabs or after a correction of the *)
(* records, is answered with the first card of the day and no other.        *)
FirstCardStands ==
  \A c, d \in told : c.asked = d.asked /\ c.anchor = d.anchor => c = d

(* A capture is never refused by unique (goal_id, anchor_date): the check   *)
(* for today's card and the rows left after trimming agree.                 *)
CaptureNeverCollides ==
  \A r \in Reqs :
    pc[r] = "read" /\ req[r].kind = "store" /\ Ready(r) /\ SameTicket(r) /\ SameInput(r)
    /\ OfTheDay(r, DayOf[memo[r].at]) = {} => ~Collides(r)

-----------------------------------------------------------------------------
(* What a step may never do. *)

(* A card that is stored describes the goal as it is at that moment: its    *)
(* settings, its answers, its records up to a recorded today, not reached.  *)
(* Nothing slips in between the prediction and the card.                    *)
CardsDescribeTheGoal ==
  [][\A c \in cards' \ cards :
       /\ goal[c.goal] # Gone
       /\ c.rev = goal[c.goal].rev /\ c.arev = goal[c.goal].arev
       /\ c.prefix = Prefix(goal[c.goal].recs, c.anchor)
       /\ Capturable(c.prefix, c.anchor)]_vars

(* A participation that has not run out ends only when its user withdraws   *)
(* or its goal is deleted: no join, for whichever goal, and no purge, with  *)
(* whichever clock, takes it away or replaces it.                           *)
LiveConsentStands ==
  [][\A u \in Users : part[u] # Nobody /\ Live(part[u], now) =>
       \/ part'[u] = part[u]
       \/ part'[u] = Nobody /\ \E r \in Reqs : WithdrawCommit(r) /\ req[r].user = u
       \/ part'[u] = Nobody /\ Delete(part[u].goal)]_vars

(* A card its owner can still see goes only by withdrawal, with its goal,   *)
(* or to make room for a newer one; neither a purge nor a new participation *)
(* takes anything that can be seen.                                         *)
VisibleCardsStand ==
  [][\A c \in cards \ cards' : Visible(c, now) =>
       \/ \E r \in Reqs : WithdrawCommit(r) /\ req[r].goal = c.goal
       \/ Delete(c.goal)
       \/ \E d \in cards' \ cards : d.goal = c.goal /\ d.issued > c.issued]_vars

(* What the API has accepted it keeps: both of these.                       *)
AcceptedStands == LiveConsentStands /\ VisibleCardsStand
=============================================================================
