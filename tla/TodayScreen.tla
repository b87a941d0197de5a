----------------------------- MODULE TodayScreen ----------------------------
(***************************************************************************)
(* The Today screen of one browser tab: what it shows of a goal, what is   *)
(* being typed, and the saving of today's record (TodayPage, useTodayData, *)
(* useSaveLog), on top of the session boundary.                            *)
(*                                                                         *)
(* A check of the session takes the screen away unless it is the ordinary  *)
(* check of the owner that is shown; then the screen stays, adopts nothing *)
(* and holds what is pressed until the check is over (D-30).  A save goes  *)
(* on after its screen.                                                    *)
(*                                                                         *)
(* Of the goal, the model keeps the day in its zone, the revision of its   *)
(* settings and its unit; a query is answered from what the server has     *)
(* when the answer arrives, for whom the cookie named when it was sent.    *)
(* Of the three queries that make a snapshot, the records' is left out, as *)
(* are yesterday's record and the correction of a record of today.         *)
(***************************************************************************)
EXTENDS WebSession

CONSTANTS
  Owner,       \* the account whose goal it is
  None,
  MaxChanges   \* bound of the model: midnights and edits of the goal elsewhere

VARIABLES
  server,      \* what the API knows of the goal
  query,       \* the cache: the goal's query and Today's
  screen,      \* TodayScreen, while it is mounted
  puts,        \* mutations that are pending
  sitting      \* history: how often somebody else may have come to the tab

dataVars == <<server, query>>
pageVars == <<screen, puts>>
vars == <<sessionVars, dataVars, pageVars, sitting>>

Units == {"minutes", "sessions"}
Queries == {"goal", "today"}
Idle == [data |-> None, failed |-> "no", by |-> None]

(* Goal, as the queries tell of it. *)
Goals == [day : Nat, rev : Nat, unit : Units]

(* The amount being typed: the day and the settings it is typed under. *)
Typings == [day : Nat, rev : Nat, unit : Units, sitting : Nat]

(* What is saved; meant is the unit in which it was typed or pressed. *)
Operations == [date : Nat, rev : Nat, unit : Units, meant : Units, sitting : Nat]

(* The state of a mounted TodayScreen with its useSaveLog. *)
Screens ==
  [owner : Users, gen : Nat, shown : Goals \union {None}, goal : Goals \union {None},
   typed : Typings \union {None}, saver : {"free", "held", "sent", "signedout", "failed", "settings", "date"},
   op : Operations \union {None}, latest : Goals \union {None},
   reload : {Owner, Nobody, None}]

ASSUME TodayAssumption ==
  /\ None \notin Users /\ None \notin Goals /\ None \notin Typings
  /\ None \notin Operations /\ None \notin Screens
  /\ Unknown \notin Owners

Blank(owner, gen) ==
  [owner |-> owner, gen |-> gen, shown |-> None, goal |-> None, typed |-> None,
   saver |-> "free", op |-> None, latest |-> None, reload |-> None]

Init ==
  /\ SessionInit /\ cookie = Owner
  /\ server = [day |-> 1, rev |-> 0, unit |-> "minutes"]
  /\ query = [q \in Queries |-> Idle]
  /\ screen = None /\ puts = {}
  /\ sitting = 0

-----------------------------------------------------------------------------
(* Queries (TanStack Query).                                               *)

(* Whose request it is: Owner's or somebody else's.                        *)
Asker == IF cookie = Owner THEN Owner ELSE Nobody

(* A fetch takes the place of the one under way; an error stays while there *)
(* is data to show beside it.                                              *)
Asked(qs) == [q \in Queries |-> [qs[q] EXCEPT !.by = Asker,
                                              !.failed = IF qs[q].data = None THEN "no" ELSE @]]
Cancelled(qs) == [q \in Queries |-> [qs[q] EXCEPT !.by = None]]

(* isSameSnapshot.                                                         *)
SameSnapshot(goal, today) ==
  goal # None /\ today # None /\ goal.day = today.day /\ goal.rev = today.rev

(* The render: acceptedGoal and lastGood.                                  *)
Adopted(s, qs) ==
  LET goal == qs["goal"].data
  IN [s EXCEPT !.goal = IF goal # None THEN goal ELSE @,
               !.shown = IF SameSnapshot(goal, qs["today"].data) THEN goal ELSE @]

(* The cache becomes qs while the boundary stays as it is.                  *)
CacheBecomes(qs, s) ==
  /\ query' = qs
  /\ screen' = IF s # None /\ Ready THEN Adopted(s, qs) ELSE s

-----------------------------------------------------------------------------
(* The session, and the render that follows it.                            *)

(* TodayPage: whose screen it is.                                          *)
ShownOwner ==
  IF Ready' THEN epoch'.owner
  ELSE IF screen # None /\ ~atom'.error /\ atom'.owner = screen.owner THEN screen.owner
  ELSE None

(* Mutant: the generation is no part of the screen's key.                  *)
SameOwner == screen # None /\ ShownOwner = screen.owner

(* The key of the screen.                                                  *)
SameKey == screen # None /\ ShownOwner = screen.owner /\ continuity'.gen = screen.gen

Detached == {[p EXCEPT !.live = FALSE] : p \in puts}

Opened == cleared' /\ ~cleared
Cancels == guard' # guard /\ clears' # {}

(* A reload of the settings and what it brought end with the boundary.     *)
Rerender ==
  LET gone   == ShownOwner = None
      base   == IF Opened THEN [q \in Queries |-> Idle]
                ELSE IF Cancels THEN Cancelled(query) ELSE query
      cache  == IF gone THEN Cancelled(base)
                ELSE IF Opened \/ ~SameKey THEN Asked(base) ELSE base
      next   == IF gone THEN None
                ELSE IF ~SameKey THEN Blank(ShownOwner, continuity'.gen)
                ELSE IF Ready' THEN screen
                ELSE [screen EXCEPT !.latest = None, !.reload = None]
  IN /\ query' = cache
     /\ screen' = IF next # None /\ Ready' THEN Adopted(next, cache) ELSE next
     /\ puts' = IF SameKey THEN puts ELSE Detached

(* Somebody else may be at the tab: news of a sign-in, a check that fails   *)
(* or that finds another account.                                          *)
News == \/ notice' = "heard" /\ notice = "sent"
        \/ ~atom'.busy /\ atom'.error /\ ~atom.error
        \/ ~atom'.busy /\ atom'.owner # atom.owner

Boundary ==
  /\ SessionNext
  /\ Rerender
  /\ sitting' = IF News THEN sitting + 1 ELSE sitting
  /\ UNCHANGED <<server>>

-----------------------------------------------------------------------------
(* The server, and the answers of the queries.                             *)

MayChange == server.day - 1 + server.rev < MaxChanges

Midnight ==
  /\ MayChange
  /\ server' = [server EXCEPT !.day = @ + 1]
  /\ UNCHANGED <<sessionVars, query, pageVars, sitting>>

(* PATCH from elsewhere: the unit changes, or something else does.          *)
Edit ==
  /\ MayChange
  /\ \E u \in Units : server' = [server EXCEPT !.rev = @ + 1, !.unit = u]
  /\ UNCHANGED <<sessionVars, query, pageVars, sitting>>

(* 401 and 404 replace the page, with what is typed in it.                  *)
QueryAnswers(q) ==
  /\ query[q].by # None
  /\ CacheBecomes([query EXCEPT ![q] =
                     IF query[q].by = Owner
                     THEN [data |-> server, failed |-> "no", by |-> None]
                     ELSE [@ EXCEPT !.failed = "denied", !.by = None]],
                  IF query[q].by = Owner \/ screen = None THEN screen
                  ELSE [screen EXCEPT !.typed = None])
  /\ UNCHANGED <<sessionVars, server, puts, sitting>>

(* Only Today's error lets the record be made from the goal alone.          *)
QueryFails(q) ==
  /\ query[q].by # None
  /\ CacheBecomes([query EXCEPT ![q].by = None,
                                ![q].failed = IF q = "today" THEN "error" ELSE @], screen)
  /\ UNCHANGED <<sessionVars, server, puts, sitting>>

(* refresh: the buttons, the focus, a new day, a pair that does not agree.  *)
Refresh ==
  /\ screen # None
  /\ query' = Asked(query)
  /\ UNCHANGED <<sessionVars, server, pageVars, sitting>>

-----------------------------------------------------------------------------
(* The record of today.                                                    *)

Denied == \E q \in Queries : query[q].failed = "denied"

Known(q) == query[q].data # None

(* Mutant: only the screen's own save counts.                              *)
PendingHere(date) == \E p \in puts : p.live /\ p.op.date = date

Pending(date) == \E p \in puts : p.op.date = date

(* isCurrentToday, on what has arrived.                                    *)
DateAllowed(date) ==
  /\ Known("goal") /\ query["goal"].data.day = date
  /\ Known("today") => date >= query["today"].data.day

DateStale(date) ==
  /\ Ready
  /\ \/ Known("goal") /\ query["goal"].data.day # date
     \/ Known("today") /\ date < query["today"].data.day

(* recordGoal, with the goal alone when Today could not be had.            *)
Shown ==
  IF screen.shown # None THEN screen.shown
  ELSE IF query["today"].failed # "no" \/ screen.typed # None THEN screen.goal
  ELSE None

RecordDate == IF screen.typed # None THEN screen.typed.day ELSE Shown.day

(* The bar can be used: no failure, no stale date, nothing being saved.    *)
BarOpen ==
  /\ screen # None /\ ~Denied
  /\ screen.saver = "free" /\ Shown # None
  /\ ~Pending(RecordDate) /\ ~DateStale(RecordDate)

(* The field of the amount is opened: the day and the settings are kept.    *)
TypeBegins ==
  /\ BarOpen /\ screen.typed = None
  /\ screen' = [screen EXCEPT !.typed =
       [day |-> Shown.day, rev |-> Shown.rev, unit |-> Shown.unit, sitting |-> sitting]]
  /\ UNCHANGED <<sessionVars, dataVars, puts, sitting>>

(* Given up, or typed anew under the settings of now.                      *)
TypeEnds ==
  /\ BarOpen /\ screen.typed # None
  /\ screen' = [screen EXCEPT !.typed = None]
  /\ UNCHANGED <<sessionVars, dataVars, puts, sitting>>

(* mutate.                                                                 *)
Sent(op) ==
  /\ screen' = [screen EXCEPT !.saver = "sent", !.op = op]
  /\ puts' = puts \union {[op |-> op, by |-> cookie, sitting |-> sitting, live |-> TRUE,
                           pc |-> "sent", unit |-> None]}

(* submit, when no save of that day is pending.                            *)
Submitted(op) ==
  IF ~Ready \/ (~DateAllowed(op.date) /\ ~DateStale(op.date))
  THEN /\ screen' = IF atom.owner \in Users
                    THEN [screen EXCEPT !.saver = "held", !.op = op] ELSE screen
       /\ puts' = puts
  ELSE IF DateAllowed(op.date) THEN Sent(op)
  ELSE UNCHANGED <<screen, puts>>

(* Mutant: what was typed is sent under whatever settings there are.       *)
TypedAnyway == TRUE

SettingsUnchanged == screen.typed # None => screen.typed.rev = Shown.rev

(* captureSave.                                                            *)
Press ==
  /\ BarOpen /\ SettingsUnchanged
  /\ Submitted([date |-> RecordDate, rev |-> Shown.rev, unit |-> Shown.unit,
                meant |-> IF screen.typed # None THEN screen.typed.unit ELSE Shown.unit,
                sitting |-> sitting])
  /\ UNCHANGED <<sessionVars, dataVars, sitting>>

(* The effect of useSaveLog on what is held.                               *)
HeldIsSettled ==
  /\ screen # None /\ screen.saver = "held" /\ Ready
  /\ \/ DateStale(screen.op.date)
     \/ DateAllowed(screen.op.date)
  /\ IF ~DateStale(screen.op.date) /\ IsDraftOwner(screen.owner, screen.gen)
        /\ ~Pending(screen.op.date)
     THEN Sent(screen.op)
     ELSE screen' = [screen EXCEPT !.saver = "free", !.op = None] /\ puts' = puts
  /\ UNCHANGED <<sessionVars, dataVars, sitting>>

-----------------------------------------------------------------------------
(* PUT /api/goals/:goalId/logs/:localDate and its answers.                 *)

Verdict(p) ==
  IF p.by = Nobody THEN "signedout"
  ELSE IF p.by # Owner THEN "failed"
  ELSE IF p.op.rev # server.rev THEN "settings"
  ELSE IF p.op.date \notin {server.day - 1, server.day} THEN "date"
  ELSE "saved"

Serve(p) ==
  /\ p.pc = "sent"
  /\ puts' = (puts \ {p}) \union {[p EXCEPT !.pc = Verdict(p), !.unit = server.unit]}
  /\ UNCHANGED <<sessionVars, dataVars, screen, sitting>>

(* onSuccess: everything of the goals is fetched again, and the save is     *)
(* over when that has settled.                                             *)
SaveSucceeds(p) ==
  /\ p.pc = "saved"
  /\ puts' = (puts \ {p}) \union {[p EXCEPT !.pc = "refreshing"]}
  /\ query' = IF screen # None THEN Asked(query) ELSE query
  /\ UNCHANGED <<sessionVars, server, screen, sitting>>

Refreshed(p) ==
  /\ p.pc = "refreshing"
  /\ puts' = puts \ {p}
  /\ screen' = IF p.live THEN [screen EXCEPT !.saver = "free", !.op = None, !.typed = None]
               ELSE screen
  /\ UNCHANGED <<sessionVars, dataVars, sitting>>

Fails(p, kind) ==
  /\ puts' = puts \ {p}
  /\ screen' = IF p.live THEN [screen EXCEPT !.saver = kind, !.latest = None] ELSE screen
  /\ UNCHANGED <<sessionVars, dataVars, sitting>>

SaveFails(p) == p.pc \in {"signedout", "failed", "settings", "date"} /\ Fails(p, p.pc)

(* The request or its answer is lost; the tab knows no more of it.          *)
SaveIsLost(p) == p.pc # "refreshing" /\ Fails(p, "failed")

-----------------------------------------------------------------------------
(* After a failure.                                                        *)

FailureShown ==
  /\ screen # None /\ ~Denied /\ Shown # None
  /\ screen.saver \in {"settings", "failed"} /\ screen.reload = None

Stale == DateStale(RecordDate) \/ DateStale(screen.op.date)

Resubmit(op) ==
  /\ ~Stale /\ ~Pending(op.date)
  /\ Submitted(op)
  /\ UNCHANGED <<sessionVars, dataVars, sitting>>

Retry ==
  /\ FailureShown /\ screen.saver = "failed"
  /\ Resubmit(screen.op)

(* Mutant: the amount goes into whatever unit the goal has by now.         *)
RebasedAnyway(op, latest) == TRUE

(* rebaseSave.                                                             *)
SameMeaning(op, latest) == latest.unit = op.unit

RetryRebased ==
  /\ FailureShown /\ screen.saver = "settings"
  /\ screen.latest # None /\ SameMeaning(screen.op, screen.latest)
  /\ Resubmit([screen.op EXCEPT !.rev = screen.latest.rev])

ReloadSettings ==
  /\ FailureShown /\ screen.saver = "settings"
  /\ Ready /\ ~Stale
  /\ screen' = [screen EXCEPT !.reload = Asker, !.latest = None]
  /\ UNCHANGED <<sessionVars, dataVars, puts, sitting>>

(* The refetch that follows is not waited for here.                         *)
SettingsArrive ==
  /\ screen # None /\ screen.reload = Owner
  /\ CacheBecomes(Asked([query EXCEPT !["goal"].data = server]),
                  [screen EXCEPT !.reload = None, !.latest = server])
  /\ UNCHANGED <<sessionVars, server, puts, sitting>>

SettingsFail ==
  /\ screen # None /\ screen.reload # None
  /\ screen' = [screen EXCEPT !.reload = None]
  /\ UNCHANGED <<sessionVars, dataVars, puts, sitting>>

(* reset does nothing while a conflict has not been read again.             *)
Reset(s) == IF s.saver = "settings" /\ s.latest = None THEN s
            ELSE [s EXCEPT !.saver = "free", !.op = None, !.latest = None]

Reselect ==
  /\ FailureShown /\ ~Stale
  /\ screen.saver = "settings" => screen.latest # None
  /\ screen' = Reset(screen)
  /\ UNCHANGED <<sessionVars, dataVars, puts, sitting>>

(* onRefresh, of the panel that says the date has changed and of a failure. *)
StartAnew ==
  /\ screen # None /\ ~Denied /\ Shown # None
  /\ ~Pending(RecordDate) /\ screen.saver \notin {"held", "sent"}
  /\ \/ DateStale(RecordDate)
     \/ screen.op # None /\ DateStale(screen.op.date)
     \/ screen.saver = "date"
  /\ query' = Asked(query)
  /\ screen' = [Reset(screen) EXCEPT !.typed = None]
  /\ UNCHANGED <<sessionVars, server, puts, sitting>>

-----------------------------------------------------------------------------

SaveNext ==
  \/ TypeBegins \/ TypeEnds \/ Press \/ HeldIsSettled
  \/ \E p \in puts : \/ Serve(p) \/ SaveSucceeds(p) \/ Refreshed(p)
                     \/ SaveFails(p) \/ SaveIsLost(p)
  \/ Retry \/ RetryRebased \/ ReloadSettings \/ SettingsArrive \/ SettingsFail
  \/ Reselect \/ StartAnew

Next ==
  \/ Boundary
  \/ Midnight \/ Edit
  \/ \E q \in Queries : QueryAnswers(q) \/ QueryFails(q)
  \/ Refresh
  \/ SaveNext

Spec == Init /\ [][Next]_vars

-----------------------------------------------------------------------------
(* What is typed, pressed, held or sent is of the sitting in which it was   *)
(* begun: nothing of it is seen, taken over or sent once the tab knows that *)
(* somebody may have signed in or out, also when the same account has come  *)
(* back in between (D-30).                                                  *)
OnlyTheSitterActs ==
  /\ screen # None =>
       /\ screen.typed # None => screen.typed.sitting = sitting
       /\ screen.op # None => screen.op.sitting = sitting
  /\ \A p \in puts : p.sitting = p.op.sitting

(* What the server has saved is in the unit in which it was typed or        *)
(* pressed, through holding, conflicts and retries under later settings;    *)
(* and the tab never has two saves of a day pending, whose answers could    *)
(* come in the other order (useSaveLog.ts).                                 *)
SavesStandAsPressed ==
  /\ \A p \in puts : p.pc \in {"saved", "refreshing"} => p.unit = p.op.meant
  /\ \A p, q \in puts : p.op.date = q.op.date => p = q
=============================================================================
