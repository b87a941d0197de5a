----------------------------- MODULE Milestone ------------------------------
(***************************************************************************)
(* The personal correction of the prediction at intermediate milestones,   *)
(* apps/api/src/milestone: consent with a revision, episodes (a forecast   *)
(* frozen on its day of origin and observed for Horizon days), fits of a   *)
(* coefficient to the latest episodes, and the operator's purge.           *)
(*                                                                         *)
(* Every write is a transaction that locks the user and then the goal and  *)
(* reads what it works on (owned, state).  Those locks are taken without a *)
(* step between: no other holder of the goal's row waits for the user's.   *)
(* A capture and a fit are two transactions with the computation between.  *)
(*                                                                         *)
(* The goals live in GoalStore; here its accepted requests are single      *)
(* steps that wait for the row lock.  Every DONE counts for one.           *)
(* spent is history: no guard reads it.                                    *)
(***************************************************************************)
EXTENDS Integers, FiniteSets

CONSTANTS
  Users, Goals,  \* accounts, and goals with their owner
  OwnerOf,       \* [Goals -> Users]
  Reqs,          \* request slots of the API
  Kinds,         \* which operations the requests ask for
  Retention,     \* 90 days, in instants
  Horizon,       \* days an episode is observed: 30
  Episodes,      \* episodes a fit rests on: 3
  Step,          \* q, what the milestone asks for
  Required,      \* totalRequired of the goals
  DayOf,         \* [0..MaxNow -> Days], the calendar of the goals
  LastDay,       \* bound of the model: last calendar day
  MaxNow,        \* bound of the model: last instant of the clock
  MaxJoins,      \* bound of the model: participations ever made
  MaxConsent,    \* bound of the model: consent revisions of a goal
  MaxFits,       \* bound of the model: fit generations of a participation
  MaxEdits,      \* bound of the model: records and edits of all goals
  Gone,          \* no such row of goal
  Nobody,        \* no (valid) participation
  None,          \* no artifact
  Nothing        \* the transaction has read nothing

CorrectionDays == 2

Instants == 0 .. MaxNow
Days == 0 .. LastDay
Tickets == 1 .. MaxJoins
Statuses == {"UNRECORDED", "DONE", "SKIPPED"}
Records == [Days -> Statuses]

ASSUME MilestoneAssumption ==
  /\ OwnerOf \in [Goals -> Users]
  /\ Retention \in Nat \ {0} /\ Horizon \in Nat \ {0}
  /\ Episodes \in Nat /\ Step \in Nat \ {0} /\ Required \in Nat
  /\ MaxNow \in Nat /\ LastDay \in Nat /\ MaxJoins \in Nat
  /\ MaxConsent \in Nat /\ MaxFits \in Nat /\ MaxEdits \in Nat
  /\ DayOf \in [Instants -> Days]
  /\ \A m, n \in Instants : m <= n => DayOf[m] <= DayOf[n]

(* rev: goal_settings_revision; arev: answer_revision; consent:              *)
(* milestone_consent_revision.                                              *)
Rows == [rev : Nat, arev : Nat, consent : Nat, recs : Records]

(* check (expires_at > joined_at) *)
Participations ==
  {p \in [id : Tickets, goal : Goals, joined : Instants, expires : Nat, gen : Nat] :
     p.expires > p.joined}

ASSUME NobodyAssumption == Nobody \notin Participations

(* An artifact is known by its participation and its generation. *)
Names == [ticket : Tickets, gen : Nat]

(* One row of milestone_forecast; art is the coefficient compared with. *)
Forecasts ==
  {e \in [goal : Goals, ticket : Tickets, origin : Days, issued : Instants, expires : Nat,
          rev : Nat, arev : Nat, prefix : Records, art : Names \cup {None}] :
     e.expires > e.issued}

States == {"EXPIRED", "INVALID", "PENDING", "EVENT", "INTERVAL", "CENSOR", "UNKNOWN"}

(* What the hash of a label stands for: the verdict, the day it was reached *)
(* on and the records it rests on.                                          *)
Labels == [state : States, through : Int, days : UNION {[S -> Statuses] : S \in SUBSET Days}]

Receipts == [from : Forecasts, through : Int, label : Labels]

Artifacts ==
  {a \in [goal : Goals, name : Names, created : Instants, expires : Nat, rev : Nat, arev : Nat,
          cutoff : Days, fit : {"COMPUTED", "IDENTITY"}, receipts : SUBSET Receipts] :
     a.expires > a.created}

VARIABLES
  now,       \* the clock of the server
  goal,      \* table goal with its records: id -> row
  part,      \* table milestone_participation: user -> row
  forecasts, \* table milestone_forecast
  artifact,  \* table milestone_artifact: goal -> its one row
  joins,     \* how many participations were ever made: ids are fresh
  edits,     \* how many records and edits were made
  pc,        \* how far a slot is
  req,       \* the request of a slot
  seen,      \* what the transaction of a slot has read
  memo,      \* what a capture or a fit keeps from its first transaction
  spent      \* history: the consent revisions used, by what

vars == <<now, goal, part, forecasts, artifact, joins, edits, pc, req, seen, memo, spent>>

derived == <<part, forecasts, artifact>>
bounds == <<joins, edits>>

Requests ==
       [kind : {"join"}, user : Users, goal : Goals, rev : Nat, consent : Nat]
  \cup [kind : {"withdraw"}, user : Users, goal : Goals, ticket : Tickets]
  \cup [kind : {"capture", "store"}, user : Users, goal : Goals, rev : Nat, arev : Nat,
        ticket : Tickets, art : Names \cup {None}]
  \cup [kind : {"fit", "fitted"}, user : Users, goal : Goals, rev : Nat, arev : Nat,
        ticket : Tickets, gen : Nat]

NoRequest == [kind |-> "none"]

Views == [at : Instants, part : Participations \cup {Nobody}, forecasts : SUBSET Forecasts,
          art : Artifacts \cup {None}]

Memos == [at : Instants, recs : Records, latest : SUBSET Forecasts, receipts : SUBSET Receipts]

TypeOK ==
  /\ now \in Instants
  /\ goal \in [Goals -> Rows \cup {Gone}]
  /\ part \in [Users -> Participations \cup {Nobody}]
  /\ forecasts \subseteq Forecasts
  /\ artifact \in [Goals -> Artifacts \cup {None}]
  /\ joins \in 0 .. MaxJoins /\ edits \in 0 .. MaxEdits
  /\ pc \in [Reqs -> {"idle", "held", "computing"}]
  /\ req \in [Reqs -> Requests \cup {NoRequest}]
  /\ seen \in [Reqs -> Views \cup {Nothing}]
  /\ memo \in [Reqs -> Memos \cup {Nothing}]
  /\ spent \subseteq [goal : Goals, consent : Nat, by : {"join", "withdraw"}, ticket : Nat]

NoRecords == [d \in Days |-> "UNRECORDED"]

Init ==
  /\ now = 0
  /\ goal = [g \in Goals |-> [rev |-> 0, arev |-> 0, consent |-> 0, recs |-> NoRecords]]
  /\ part = [u \in Users |-> Nobody]
  /\ forecasts = {} /\ artifact = [g \in Goals |-> None]
  /\ joins = 0 /\ edits = 0
  /\ pc = [r \in Reqs |-> "idle"]
  /\ req = [r \in Reqs |-> NoRequest]
  /\ seen = [r \in Reqs |-> Nothing]
  /\ memo = [r \in Reqs |-> Nothing]
  /\ spent = {}

-----------------------------------------------------------------------------
(* assessEpisode: what the records say of an episode. *)

Least(a, b) == IF a <= b THEN a ELSE b

(* A record can still be corrected on the day after its own. *)
LastMatureTooSoon(at) == DayOf[at] - 1

LastMature(at) == DayOf[at] - CorrectionDays

End(e) == e.origin + Horizon

Prefix(recs, d) == [n \in Days |-> IF n <= d THEN recs[n] ELSE "UNRECORDED"]

SameContext(e, row) == e.rev = row.rev /\ e.arev = row.arev

DoneBy(e, recs, d) == Cardinality({n \in e.origin + 1 .. d : recs[n] = "DONE"})

Reached(e, recs, d) == DoneBy(e, recs, d) >= Step

(* Every day after the origin is recorded. *)
Complete(e, recs, d) == \A n \in e.origin + 1 .. d : recs[n] # "UNRECORDED"

DaysFrom(e, through) == {d \in Days : e.origin < d /\ d <= through}

(* The days that are known not to have reached the milestone. *)
AtRisk(e, recs, through) ==
  {d \in DaysFrom(e, through) : Complete(e, recs, d) /\ ~Reached(e, recs, d)}

Observed(e, recs, through) ==
  LET hits == {d \in DaysFrom(e, through) : Reached(e, recs, d)}
      last == IF hits = {} THEN through ELSE CHOOSE d \in hits : \A n \in hits : d <= n
      days == [d \in DaysFrom(e, last) |-> recs[d]]
      state == IF hits # {} THEN (IF Complete(e, recs, last) THEN "EVENT" ELSE "INTERVAL")
               ELSE IF AtRisk(e, recs, through) # {} THEN "CENSOR" ELSE "UNKNOWN"
  IN [state |-> state, through |-> last, days |-> days]

Blank(state, through) == [state |-> state, through |-> through, days |-> [d \in {} |-> "UNRECORDED"]]

Assess(e, row, at, through) ==
  IF e.expires <= at THEN Blank("EXPIRED", through)
  ELSE IF ~SameContext(e, row) \/ Prefix(row.recs, e.origin) # e.prefix
       THEN Blank("INVALID", through)
  ELSE IF through <= e.origin THEN Blank("PENDING", through)
  ELSE Observed(e, row.recs, through)

(* The day up to which an assessment looks when none is given. *)
Through(e, at) == Least(LastMature(at), End(e))

AssessNow(e, row, at) == Assess(e, row, at, Through(e, at))

(* Closed: reached, no longer valid, or observed to its end. *)
Closed(e, row, at) ==
  LET state == AssessNow(e, row, at).state IN
  \/ state \in {"EXPIRED", "INVALID", "EVENT", "INTERVAL"}
  \/ state \in {"CENSOR", "UNKNOWN"} /\ DayOf[at] >= End(e) + CorrectionDays

Usable == {"EVENT", "INTERVAL", "CENSOR"}

ReceiptOf(e, row, at) ==
  LET label == AssessNow(e, row, at) IN [from |-> e, through |-> label.through, label |-> label]

(* receiptsMatch: every source is still there and says what it said. *)
ReceiptsMatch(receipts, visible, row, at) ==
  \A c \in receipts : c.from \in visible /\ Assess(c.from, row, at, c.through) = c.label

-----------------------------------------------------------------------------
(* state: what has run out is not seen, purged or not. *)

Live(p, at) == p.expires > at /\ p.joined > at - Retention

Visible(e, at) == e.expires > at /\ e.issued > at - Retention

ReadPart(u, at) == IF part[u] # Nobody /\ Live(part[u], at) THEN part[u] ELSE Nobody

Takes(u, g, at) == ReadPart(u, at) # Nobody /\ part[u].goal = g

View(u, g, at) ==
  [at |-> at, part |-> ReadPart(u, at),
   forecasts |-> IF Takes(u, g, at) THEN {e \in forecasts : e.goal = g /\ Visible(e, at)} ELSE {},
   art |-> IF Takes(u, g, at) THEN artifact[g] ELSE None]

(* order by origin_date desc limit n *)
Latest(S, n) == {e \in S : Cardinality({f \in S : f.origin > e.origin}) < n}

-----------------------------------------------------------------------------
(* The life of a slot: owned. *)

(* The row of the user not locked. *)
UserNeverWaits(u) == u \in Users

UserFree(u) == \A s \in Reqs : ~(pc[s] = "held" /\ req[s].user = u)

RowFree(g) == \A s \in Reqs : ~(pc[s] = "held" /\ req[s].goal = g)

(* COMMIT or ROLLBACK and the HTTP answer. *)
Answer(r) ==
  /\ pc' = [pc EXCEPT ![r] = "idle"]
  /\ req' = [req EXCEPT ![r] = NoRequest]
  /\ seen' = [seen EXCEPT ![r] = Nothing]
  /\ memo' = [memo EXCEPT ![r] = Nothing]
  /\ UNCHANGED <<now, edits>>

Refuse(r) == Answer(r) /\ UNCHANGED <<goal, derived, joins, spent>>

(* An error of the driver, of the network or of the pool: rollback. *)
Abort(r) == pc[r] # "idle" /\ Refuse(r)

Owned(u, g) == OwnerOf[g] = u /\ goal[g] # Gone

(* The user's row, the goal's row, the clock, then the state at that time.  *)
(* No row (404): nothing happens.                                           *)
Read(r, u, g) ==
  /\ UserFree(u) /\ RowFree(g) /\ Owned(u, g)
  /\ seen' = [seen EXCEPT ![r] = View(u, g, now)]
  /\ pc' = [pc EXCEPT ![r] = "held"]
  /\ UNCHANGED <<now, goal, derived, bounds, memo, spent>>

Enter(r, request) ==
  /\ pc[r] = "idle" /\ request.kind \in Kinds
  /\ Read(r, request.user, request.goal)
  /\ req' = [req EXCEPT ![r] = request]

(* The first transaction commits; the computation holds no connection. *)
Compute(r, kind, kept) ==
  /\ memo' = [memo EXCEPT ![r] = kept]
  /\ seen' = [seen EXCEPT ![r] = Nothing]
  /\ req' = [req EXCEPT ![r].kind = kind]
  /\ pc' = [pc EXCEPT ![r] = "computing"]
  /\ UNCHANGED <<now, goal, forecasts, artifact, bounds, spent>>

(* The second transaction. *)
Reenter(r) ==
  /\ pc[r] = "computing"
  /\ IF Owned(req[r].user, req[r].goal)
     THEN Read(r, req[r].user, req[r].goal) /\ UNCHANGED req
     ELSE Refuse(r)

Holds(r, kind) == pc[r] = "held" /\ req[r].kind = kind

-----------------------------------------------------------------------------
(* PUT and DELETE .../milestone-calibration/participation *)

(* A join rests on a report of any age, a withdrawal on any participation   *)
(* there ever was.                                                          *)
Join(r) ==
  \E u \in Users, g \in Goals :
    /\ goal[g] # Gone
    /\ \E c \in 0 .. goal[g].consent :
         Enter(r, [kind |-> "join", user |-> u, goal |-> g, rev |-> goal[g].rev, consent |-> c])

Withdraw(r) ==
  \E u \in Users, g \in Goals, t \in 1 .. joins :
    Enter(r, [kind |-> "withdraw", user |-> u, goal |-> g, ticket |-> t])

(* ON DELETE CASCADE from milestone_participation. *)
DropDerived(gs) ==
  /\ forecasts' = {e \in forecasts : e.goal \notin gs}
  /\ artifact' = [g \in Goals |-> IF g \in gs THEN None ELSE artifact[g]]

GoalOf(u) == IF part[u] = Nobody THEN {} ELSE {part[u].goal}

Spend(g, consent, by, ticket) ==
  spent' = spent \cup {[goal |-> g, consent |-> consent, by |-> by, ticket |-> ticket]}

Consent(g) == goal' = [goal EXCEPT ![g].consent = goal[g].consent + 1]

(* The revision of consent is not compared. *)
AnyConsent(r) == goal[req[r].goal] # Gone

(* CONSENT_CHANGED: the report the user agreed to is the latest one, *)
ConsentIsCurrent(r) == req[r].consent = goal[req[r].goal].consent

(* Whoever takes part may send any join again. *)
AnyResend(r) == req[r].consent <= goal[req[r].goal].consent

(* and only the request that made the participation may be sent again. *)
ConsentIsResent(r) == req[r].consent = goal[req[r].goal].consent - 1

JoinCommit(r) ==
  LET u == req[r].user  g == req[r].goal IN
  /\ Holds(r, "join")
  /\ IF goal[g].rev # req[r].rev THEN Refuse(r)
     ELSE IF seen[r].part # Nobody
     THEN IF seen[r].part.goal = g /\ ConsentIsResent(r)
          THEN /\ Spend(g, req[r].consent, "join", seen[r].part.id)
               /\ Answer(r) /\ UNCHANGED <<goal, derived, joins>>
          ELSE Refuse(r)
     ELSE IF ~ConsentIsCurrent(r) THEN Refuse(r)
     ELSE /\ joins < MaxJoins /\ goal[g].consent < MaxConsent
          /\ Consent(g)
          /\ part' = [part EXCEPT ![u] =
                [id |-> joins + 1, goal |-> g, joined |-> seen[r].at,
                 expires |-> seen[r].at + Retention, gen |-> 0]]
          /\ DropDerived(GoalOf(u))
          /\ joins' = joins + 1
          /\ Spend(g, req[r].consent, "join", joins + 1)
          /\ Answer(r)

(* The revision is spent whether or not there was something to withdraw. *)
WithdrawCommit(r) ==
  LET u == req[r].user  g == req[r].goal IN
  /\ Holds(r, "withdraw")
  /\ IF seen[r].part # Nobody /\ seen[r].part.goal = g /\ seen[r].part.id # req[r].ticket
     THEN Refuse(r)
     ELSE /\ goal[g].consent < MaxConsent
          /\ Consent(g)
          /\ IF part[u] # Nobody /\ part[u].goal = g /\ part[u].id = req[r].ticket
             THEN part' = [part EXCEPT ![u] = Nobody] /\ DropDerived({g})
             ELSE UNCHANGED derived
          /\ Spend(g, goal[g].consent, "withdraw", 0)
          /\ Answer(r) /\ UNCHANGED joins

-----------------------------------------------------------------------------
(* candidate: whether the stored artifact may be compared with. *)

FreshArtifact(a, at) == a.created <= at /\ a.expires > at /\ a.created > at - Retention

(* The training of the coefficient is not assessed again. *)
CandidateAsTrained(r) ==
  LET a == seen[r].art IN
  /\ a # None
  /\ FreshArtifact(a, seen[r].at) /\ SameContext(a, goal[req[r].goal])
  /\ a.name = [ticket |-> seen[r].part.id, gen |-> seen[r].part.gen]

Candidate(r) ==
  LET a == seen[r].art  row == goal[req[r].goal] IN
  /\ a # None
  /\ FreshArtifact(a, seen[r].at) /\ SameContext(a, row)
  /\ a.name = [ticket |-> seen[r].part.id, gen |-> seen[r].part.gen]
  /\ ReceiptsMatch(a.receipts, seen[r].forecasts, row, seen[r].at)

(* ARTIFACT_CHANGED unless the one the request names is the candidate. *)
CandidateIs(r) == Candidate(r) /\ seen[r].art.name = req[r].art

-----------------------------------------------------------------------------
(* POST .../milestone-calibration/forecasts *)

PartOf(u, g) == part[u] # Nobody /\ part[u].goal = g

Capture(r) ==
  \E u \in Users, g \in Goals :
    /\ goal[g] # Gone /\ PartOf(u, g)
    /\ \E art \in {None} \cup (IF artifact[g] = None THEN {} ELSE {artifact[g].name}) :
         Enter(r, [kind |-> "capture", user |-> u, goal |-> g, rev |-> goal[g].rev,
                   arev |-> goal[g].arev, ticket |-> part[u].id, art |-> art])

(* Any valid participation will do. *)
AnyTicket(r) == seen[r].part # Nobody

(* ready: NOT_PARTICIPATING, PARTICIPATION_CHANGED, CONTEXT_CHANGED *)
SameTicket(r) == seen[r].part.id = req[r].ticket

Ready(r) ==
  /\ seen[r].part # Nobody /\ seen[r].part.goal = req[r].goal /\ SameTicket(r)
  /\ SameContext(req[r], goal[req[r].goal])

OfTheDay(r, origin) == {e \in seen[r].forecasts : e.origin = origin}

(* ACTIVE_EPISODE: the latest episode is still being observed. *)
NothingOpen(r) ==
  \A e \in Latest(seen[r].forecasts, 1) : Closed(e, goal[req[r].goal], seen[r].at)

Done(recs) == Cardinality({d \in Days : recs[d] = "DONE"})

(* makeReadyEpisode: today is recorded and the milestone lies before the goal. *)
Capturable(recs, origin) == recs[origin] # "UNRECORDED" /\ Required - Done(recs) >= Step

CapturePrepare(r) ==
  LET origin == DayOf[seen[r].at]  row == goal[req[r].goal] IN
  /\ Holds(r, "capture")
  /\ IF /\ Ready(r) /\ OfTheDay(r, origin) = {} /\ NothingOpen(r)
        /\ req[r].art = None \/ CandidateIs(r)
        /\ Capturable(row.recs, origin)
     THEN /\ Compute(r, "store", [at |-> seen[r].at, recs |-> row.recs,
                                          latest |-> {}, receipts |-> {}])
          /\ UNCHANGED part
     ELSE Refuse(r)

(* A comparison that leaves the records out. *)
SameDay(r) == DayOf[seen[r].at] = DayOf[memo[r].at]

(* CAPTURE_INPUT_CHANGED otherwise *)
SameInput(r) ==
  /\ DayOf[seen[r].at] = DayOf[memo[r].at]
  /\ goal[req[r].goal].recs = memo[r].recs

NewForecast(r) ==
  LET origin == DayOf[memo[r].at] IN
  [goal |-> req[r].goal, ticket |-> seen[r].part.id, origin |-> origin, issued |-> memo[r].at,
   expires |-> Least(memo[r].at + Retention, seen[r].part.expires),
   rev |-> req[r].rev, arev |-> req[r].arev, prefix |-> Prefix(memo[r].recs, origin),
   art |-> req[r].art]

(* What has run out goes first. *)
Kept(g, at) == {e \in forecasts : e.goal = g => e.expires > at}

(* unique (goal_id, origin_date) *)
Collides(r) ==
  \E e \in Kept(req[r].goal, seen[r].at) : e.goal = req[r].goal /\ e.origin = DayOf[memo[r].at]

Storable(r) == Ready(r) /\ SameInput(r) /\ (req[r].art = None \/ CandidateIs(r))

(* The foreign key refuses an episode whose participation has been purged. *)
CaptureStore(r) ==
  LET g == req[r].goal  origin == DayOf[memo[r].at] IN
  /\ Holds(r, "store")
  /\ IF /\ Storable(r) /\ OfTheDay(r, origin) = {} /\ NothingOpen(r)
        /\ PartOf(req[r].user, g) /\ ~Collides(r)
     THEN /\ forecasts' = Kept(g, seen[r].at) \cup {NewForecast(r)}
          /\ Answer(r) /\ UNCHANGED <<goal, part, artifact, joins, spent>>
     ELSE Refuse(r)

-----------------------------------------------------------------------------
(* POST .../milestone-calibration/fits *)

Fit(r) ==
  \E u \in Users, g \in Goals :
    /\ goal[g] # Gone /\ PartOf(u, g)
    /\ Enter(r, [kind |-> "fit", user |-> u, goal |-> g, rev |-> goal[g].rev,
                 arev |-> goal[g].arev, ticket |-> part[u].id, gen |-> part[u].gen])

(* The generation is reserved before the fit is computed. *)
FitReserve(r) ==
  LET u == req[r].user  row == goal[req[r].goal]
      latest == Latest(seen[r].forecasts, Episodes) IN
  /\ Holds(r, "fit")
  /\ IF Ready(r) /\ seen[r].part.gen = req[r].gen
     THEN /\ req[r].gen < MaxFits
          /\ part' = IF PartOf(u, req[r].goal) THEN [part EXCEPT ![u].gen = @ + 1] ELSE part
          /\ Compute(r, "fitted",
               [at |-> seen[r].at, recs |-> row.recs, latest |-> latest,
                receipts |-> {ReceiptOf(e, row, seen[r].at) : e \in latest}])
     ELSE Refuse(r)

Generation(r) == req[r].gen + 1

(* fitMilestoneOffset runs only on enough usable episodes; its number, and  *)
(* whether it converges, are data.                                          *)
FitOf(r) ==
  IF /\ Cardinality(memo[r].receipts) = Episodes
     /\ \A c \in memo[r].receipts : c.label.state \in Usable
  THEN "COMPUTED" ELSE "IDENTITY"

(* The lowest of a non-empty set of instants. *)
Earliest(S) == CHOOSE x \in S : \A y \in S : x <= y

NewArtifact(r) ==
  [goal |-> req[r].goal, name |-> [ticket |-> seen[r].part.id, gen |-> Generation(r)],
   created |-> memo[r].at,
   expires |-> Earliest({seen[r].part.expires} \cup {e.expires : e \in memo[r].latest}),
   rev |-> req[r].rev, arev |-> req[r].arev,
   cutoff |-> DayOf[memo[r].at], fit |-> FitOf(r), receipts |-> memo[r].receipts]

(* A fit is stored in the order of its answer, not of its reservation. *)
AnyGeneration(r) == seen[r].part.gen >= Generation(r)

LatestGeneration(r) == seen[r].part.gen = Generation(r)

(* FIT_INPUT_CHANGED otherwise *)
SameTraining(r) ==
  /\ DayOf[seen[r].at] = DayOf[memo[r].at]
  /\ Latest(seen[r].forecasts, Episodes) = memo[r].latest
  /\ ReceiptsMatch(memo[r].receipts, seen[r].forecasts, goal[req[r].goal], seen[r].at)

FitStore(r) ==
  LET g == req[r].goal IN
  /\ Holds(r, "fitted")
  /\ IF Ready(r) /\ LatestGeneration(r) /\ SameTraining(r) /\ PartOf(req[r].user, g)
     THEN /\ artifact' = [artifact EXCEPT ![g] = NewArtifact(r)]
          /\ Answer(r) /\ UNCHANGED <<goal, part, forecasts, joins, spent>>
     ELSE Refuse(r)

-----------------------------------------------------------------------------
(* purge-cli.ts: the clock is read before the connection is made.  The      *)
(* DELETEs of the three tables are one step.                                *)

RunOut(expires, start, at) == expires <= at \/ start <= at - Retention

PurgedUsers(at) ==
  {u \in Users : part[u] # Nobody /\ RunOut(part[u].expires, part[u].joined, at)}

PurgedGoals(at) == {part[u].goal : u \in PurgedUsers(at)}

Purge ==
  \E at \in 0 .. now :
    /\ part' = [u \in Users |-> IF u \in PurgedUsers(at) THEN Nobody ELSE part[u]]
    /\ forecasts' = {e \in forecasts :
                       e.goal \notin PurgedGoals(at) /\ ~RunOut(e.expires, e.issued, at)}
    /\ artifact' = [g \in Goals |->
         IF artifact[g] # None /\ \/ g \in PurgedGoals(at)
                                  \/ RunOut(artifact[g].expires, artifact[g].created, at)
         THEN None ELSE artifact[g]]
    /\ UNCHANGED <<now, goal, bounds, pc, req, seen, memo, spent>>

-----------------------------------------------------------------------------
(* The accepted requests of GoalStore, which hold the row lock. *)

Change(g, row) ==
  /\ goal[g] # Gone /\ RowFree(g) /\ edits < MaxEdits
  /\ goal' = [goal EXCEPT ![g] = row]
  /\ edits' = edits + 1
  /\ UNCHANGED <<now, derived, joins, pc, req, seen, memo, spent>>

Record(g) ==
  \E d \in {DayOf[now], DayOf[now] - 1} \cap Days, status \in {"DONE", "SKIPPED"} :
    Change(g, [goal[g] EXCEPT !.recs[d] = status])

Edit(g) ==
  \/ Change(g, [goal[g] EXCEPT !.rev = goal[g].rev + 1])
  \/ Change(g, [goal[g] EXCEPT !.arev = goal[g].arev + 1])

(* ON DELETE CASCADE to the participation and all that hangs on it. *)
Delete(g) ==
  /\ goal[g] # Gone /\ RowFree(g)
  /\ goal' = [goal EXCEPT ![g] = Gone]
  /\ part' = [u \in Users |-> IF g \in GoalOf(u) THEN Nobody ELSE part[u]]
  /\ DropDerived({g})
  /\ UNCHANGED <<now, bounds, pc, req, seen, memo, spent>>

-----------------------------------------------------------------------------
Tick ==
  /\ now < MaxNow /\ now' = now + 1
  /\ UNCHANGED <<goal, derived, bounds, pc, req, seen, memo, spent>>

Work(r) ==
  \/ Reenter(r) \/ JoinCommit(r) \/ WithdrawCommit(r)
  \/ CapturePrepare(r) \/ CaptureStore(r) \/ FitReserve(r) \/ FitStore(r)

Next ==
  \/ Tick \/ Purge
  \/ \E g \in Goals : Record(g) \/ Edit(g) \/ Delete(g)
  \/ \E r \in Reqs :
       Join(r) \/ Withdraw(r) \/ Capture(r) \/ Fit(r) \/ Work(r) \/ Abort(r)

Spec == Init /\ [][Next]_vars

-----------------------------------------------------------------------------
(* Safety. *)

(* Everything derived from the records hangs on the consent it was made     *)
(* under, began during it and runs out no later: a withdrawal in the middle *)
(* of a capture or a fit, or a new participation, leaves nothing behind.    *)
ConsentCoversDerived ==
  /\ \A e \in forecasts :
       LET p == part[OwnerOf[e.goal]] IN
       /\ p # Nobody /\ p.goal = e.goal /\ p.id = e.ticket
       /\ p.joined <= e.issued /\ e.expires <= p.expires
  /\ \A g \in Goals : artifact[g] # None =>
       LET p == part[OwnerOf[g]]  a == artifact[g] IN
       /\ p # Nobody /\ p.goal = g /\ p.id = a.name.ticket
       /\ p.joined <= a.created /\ a.expires <= p.expires /\ a.name.gen <= p.gen

(* A revision of consent is used once, by one participation or by one       *)
(* withdrawal: a join that was delayed or is sent again, after a            *)
(* withdrawal, after the participation ran out or was purged, neither makes *)
(* a participation nor claims one it did not make (D-248: a resend of an    *)
(* old accepted request never revives a participation).                     *)
RevisionsAreSpentOnce ==
  \A a, b \in spent : a.goal = b.goal /\ a.consent = b.consent => a = b

(* Both: what is derived hangs on a consent, and that consent was given for *)
(* it and for nothing else.                                                 *)
DerivedOnlyByConsent == ConsentCoversDerived /\ RevisionsAreSpentOnce

(* No record that can still be written changes a label that has matured,    *)
(* and time alone does not either: only a change of the settings, the       *)
(* answers or the frozen prefix, or an episode that ran out, makes the      *)
(* receipts differ (D-248: future records are not added to an old fit).     *)
TrainingStands(g) ==
  LET a == artifact[g]  row == goal[g] IN
  (\A c \in a.receipts :
     /\ c.from \in forecasts /\ Visible(c.from, now) /\ SameContext(c.from, row)
     /\ Prefix(row.recs, c.from.origin) = c.from.prefix
     /\ c.label.state # "INVALID")
  => ReceiptsMatch(a.receipts, forecasts, row, now)

(* An assessment asked for the cutoff of a receipt never looks past what    *)
(* has matured (IMMATURE_CUTOFF would fail every later report).             *)
CutoffsHaveMatured(g) ==
  \A c \in artifact[g].receipts : c.through <= LastMature(now) /\ c.through <= End(c.from)

(* What a coefficient was learned from stays true as long as its sources    *)
(* stand, and can be assessed again (milestone/core.ts, assessment.ts).     *)
TrainingIsSound ==
  \A g \in Goals : artifact[g] # None =>
    CutoffsHaveMatured(g) /\ (goal[g] # Gone => TrainingStands(g))

(* A new episode is not made until the one before it has closed             *)
(* (docs/product-spec.md): two episodes of a goal are never open together.  *)
OneOpenEpisode ==
  \A e, f \in forecasts :
    e # f /\ e.goal = f.goal /\ goal[e.goal] # Gone =>
      Closed(e, goal[e.goal], now) \/ Closed(f, goal[f.goal], now)

-----------------------------------------------------------------------------
(* What a step may never do. *)

(* An episode that is stored describes the goal as it is at that moment,    *)
(* and compares with a coefficient that is the newest and whose training    *)
(* still holds: with the records of that moment, and a clock between the    *)
(* issue of the episode and its row, every source of the coefficient is     *)
(* there and says what it said.  Nothing slips in between the computation   *)
(* and the row (milestone/store.ts, captureMilestone, candidate).           *)
EpisodesDescribeTheGoal ==
  [][\A e \in forecasts' \ forecasts :
       LET row == goal[e.goal]  a == artifact[e.goal] IN
       /\ row # Gone /\ SameContext(e, row)
       /\ e.prefix = Prefix(row.recs, e.origin) /\ Capturable(e.prefix, e.origin)
       /\ e.art # None =>
            /\ a # None /\ a.name = e.art
            /\ a.name.gen = part[OwnerOf[e.goal]].gen
            /\ SameContext(a, row)
            /\ \E at \in e.issued .. now : ReceiptsMatch(a.receipts, forecasts, row, at)]_vars

(* A fit never replaces a newer one of the same participation: generations  *)
(* in the table only grow.                                                  *)
FitsNeverGoBack ==
  [][\A g \in Goals :
       artifact[g] # None /\ artifact'[g] # None /\ artifact'[g] # artifact[g] =>
         \/ artifact'[g].name.ticket # artifact[g].name.ticket
         \/ artifact'[g].name.gen > artifact[g].name.gen]_vars
=============================================================================
