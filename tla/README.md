# Future ROI: a verification project

Future ROI records how a person works towards a goal: a goal has settings (title, unit, amounts, time zone,
target date), one record per calendar day (DONE with an amount, or SKIPPED) and answers to two questions that feed
a prediction. `apps/api` (Fastify, PostgreSQL) keeps the data, `packages/prediction` is a pure engine, `apps/web`
(React, TanStack Query) is the client. This directory holds TLA+ models of that program, the TLC runs that check
them and theorems checked by TLAPS. Paths below are relative to the repository; line numbers are in `PROJECT.json`.

## 1. Inventory

| component | state | operations | what is hard | what makes it correct |
|---|---|---|---|---|
| Goal store (`apps/api/src/goals`) | tables `goal`, `goal_create_operation` | create with idempotency key, PATCH, DELETE | lost answers and retries, READ COMMITTED transactions waiting for each other's locks, edits racing the first record | one goal per key for ever; a replay names the goal of the key; 410 is final; no lost update; R-02 |
| Records (`apps/api/src/logs`) | table `action_log`, the marker `unit_history_locked` | PUT of a day, list | midnight, time zones, stale pages, DONE corrected to SKIPPED | records lie between start and today; amounts are never reinterpreted in another unit |
| Questions (`apps/api/src/questions`) | columns `question_prior`, `answer_revision`, `question_prior_snapshot` | part of POST and PATCH | two revisions in one request; the context of an answer changes under it | the saved prior belongs to the row; no lost answers |
| Goal and Today readers (`goals/store.ts`, `prediction/*`) | none; REPEATABLE READ transactions | GET list, goal, Today | several SELECTs and a clock reading, writers in between | an answer is one moment; the engine never meets a future record |
| Prediction engine (`packages/prediction`) | none | `observe`, `predict`, completion, recovery | rounding near a threshold, gaps between days, calendars | counts follow adjacent days only; a named day is the first one |
| Prediction evaluation (`apps/api/src/evaluation`) | participation, forecasts | join, withdraw, capture, report, purge | a capture computes outside its locks; consent withdrawn meanwhile; purge against withdraw and cascade | no forecast without consent, none from stale input, all expire; a verdict stands |
| Session milestone (`apps/api/src/milestone`) | consent, episodes, fits | candidate, join, withdraw, capture, fit, preview, purge | consent revisions, fit generations, expiry | only consented episodes count; an old fit never replaces a newer one |
| Database access (`apps/api/src/db`) | pools, migration ledger | migrate, schema check | concurrent migrators, checkouts of different age, a lost lock, unknown outcome of COMMIT | every file once and in order; a good report is true |
| Demo seed (`db/seed-demo.ts`) | `demo_seed_goal` and two goals | install again | two operators, the owner deleting, unknown COMMIT | a COMMIT leaves both goals or none, nobody but the owner takes one away, never a second pair |
| Server life cycle (`server.ts`, `vercel.ts`, `auth/background.ts`) | background tasks, start promise | start, shutdown, drain | handlers whose client has gone, mail tasks, failing starts | nothing uses a closed pool; none is closed twice |
| Accounts (`apps/api/src/auth`) | Better Auth tables (library) | sign in, sign out, mail | - | glue over a library |
| Web: session boundary (`api/session-*.ts`, `auth/PrivateCacheGuard`) | owner, generation, private cache | observe, invalidate, check | answers of an earlier account arriving late; two variables that follow the session at different times | no account sees or owns another's data |
| Web: creating a goal (`features/goals`, `create-attempt.ts`) | form, three memories of the page, `sessionStorage` | save, retry, refuse, recover after a reload | lost answers, forms unmounted under a save, storage that throws | an attempt whose outcome is unknown is not given up |
| Web: fields of the goal forms (`GoalFormFields`, `goal-form.ts`, `goal-create-body.ts`) | texts, how an amount is shown, choices | type, switch unit or display, choose, check, build the body, rebase | inputs that are no longer shown, units changed elsewhere, the day passing | what is shown is what is sent; the API takes what the form accepts |
| Web: editing a goal (`GoalEditPage`, `GoalFormPage`, `goal-form.ts`) | form and the row it is compared with, saves in flight | type, save, reload after a conflict | the row changes under the form, late answers, failures in the middle | a save overwrites nobody, what was typed survives |
| Web: Today and saving a record (`features/today`) | three queries, the saver of a record | fetch, compare, save, hold, retry, rebase | GETs that are not one snapshot, checks of the session, midnight | what is saved is what was pressed, by who pressed it |
| Delivery (`.github/workflows/deploy-production.yml`, `scripts/deploy-gate.mjs`, `scripts/production-switch.mjs`) | runs, deployments, the alias, migrations applied | gate, migrate, build, switch, recover | late and lost alias requests, superseded and cancelled runs, an operator beside them | served code has its schema; a failed switch is not passed over; main is deployed in the end |
| Web: pages and presentation | rendering | - | - | - |

The client asks over HTTP; every handler of the API checks the session (`http/guards.ts`), runs one transaction per
operation and answers. Handlers share nothing but the database and the clock. A reader takes one connection, reads,
gives the connection back and then calls the engine. Evaluation and milestone read the goal tables and keep tables of
their own. The web client sends the revision of the settings (and of the answers) that its page showed; whether a page
may show or send anything is decided by the session boundary, which all pages share.

## 2. Modules

| module | stands for | depends on |
|---|---|---|
| `GoalRules` | the decisions on one row, without state: day of a zone, checks of PATCH in their order, the row a PATCH writes, the window of PUT | |
| `GoalStore` | `createGoalOnce`, `updateGoal`, `putLog`, `deleteGoal` as transactions that interleave | `GoalRules` |
| `GoalLedger` | the abstract specification: every accepted request is one step on the committed rows | `GoalRules` |
| `GoalReads` | the GET transactions and what their answers are made of, next to `GoalStore` | `GoalStore` |
| `Engine` | `observe`, the posteriors, `completionQuantiles`, `recoveryQuantiles`: pure operators | |
| `Forecast` | what the engine says of a goal from day to day, `makeEvaluation`, `assessEvaluation` | `Engine` |
| `Evaluation` | `joinEvaluation`, `withdrawEvaluation`, `captureEvaluation`, `purgeExpiredEvaluation` as transactions that interleave, with the goal store as single steps | |
| `Milestone` | the transactions of the milestone: join, withdraw, capture, fit, the assessment of episodes, the purge; the goal store as single steps | |
| `SchemaHistory` | the abstract specification of migrating | |
| `Migration` | `migrate()` and `runSchemaCheck()` by any number of processes | `SchemaHistory` |
| `DemoSeed` | `seedDemo()` beside the API | |
| `Serving` | start and end of the container and of the function | |
| `WebSession` | the session boundary of one browser tab | |
| `CreateForm` | the page of `/goals/new`, its saves and the server's ledger of creations | `WebSession` |
| `GoalFields` | the inputs of a goal's form, their checks, the bodies and the API's schema and policies | |
| `TodayScreen` | the Today screen, its queries and the saver of today's record | `WebSession` |
| `EditForm` | the page of `/goals/$goalId/edit` and its saves | |
| `Delivery` | the workflow of the deployment, the switch script, the platform and the operator | |
| `GoalStoreMC`, `GoalReadsMC`, `ReadsMC`, `EvaluationMC`, `MilestoneMC`, `GoalFieldsMC`, `CreateFormMC`, `OperationsMC`, `DeliveryMC` | values of the constants for TLC; `ReadsMC` puts `GoalReads` and `Forecast` side by side, `CreateFormMC` `CreateForm` and `GoalFields`, `OperationsMC` `Migration`, `DemoSeed` and `Serving` | |
| `GoalSafetyProofs` (store, ledger and readers), `EvaluationProofs`, `MilestoneProofs`, `ForecastProofs` (with the engine), `OperationsProofs` (migration, seed, server, delivery), `CreateFormProofs` (with the fields of the forms), `EditFormProofs`, `TodayScreenProofs` | the theorems | |

### GoalStore against the code

`goal`, `log` and `op` hold what is committed of the tables `goal`, `action_log` and `goal_create_operation`. A slot
`r` of `Reqs` is one request being served. `pc[r]` says how far its transaction is and, with `req[r]`, which locks it
holds: a row of `goal` from `SELECT ... FOR UPDATE` to the end (`locked`, `accepted`), a row of the ledger from its
INSERT or `FOR UPDATE` to the end (`reserved`, `found`, `accepted`). `cur[r]` is the row the code holds in a variable.
A transaction is cut where something else may come between: at a statement that waits, at a reading of the clock or
of another table, at COMMIT. What a transaction has written but not committed is seen by nobody, so that the writes
belong to the commit.

- POST: `CreateReserve` (INSERT ... ON CONFLICT DO NOTHING, then SELECT ... FOR UPDATE; waits for another holder of
  the key), `ReplayAnswer`, `CreateInsert` (the clock is read after the reservation), `CreateCommit`.
- PATCH: `UpdateLock`, `UpdateJudge` (all checks in the order of the code: `PatchVerdict`), `UpdateCommit`.
- PUT: `PutLock`, `PutJudge`, `PutCommit` (upsert, marker and COMMIT).
- DELETE: `DeleteLock`, `DeleteCommit`; the foreign keys remove the records and set `goal_id` of the ledger row to
  null, for which the statement waits for the holder of that row.
- `Abort` is any failure in a transaction: the rollback of the `catch` blocks. All refusals roll back as well, so
  that `Refuse` is one operator; which HTTP status is sent does not matter to the state.

Requests carry the revision of a page. `Submit...` takes it from the row as it is when the user asks; the transaction
may begin much later. A POST may come from any slot at any time with any key: this is the retry after a lost answer.
`origin`, `shown` and `told` are history variables for the properties; no guard reads them, except that a new id is
one that was never drawn.

Abstractions: `title` stands for title and totalRequired; the amount of a DONE is left out, the unit it was entered
in is kept in `shown`; the two answers are one value; the request hash is the body (SHA-256 taken as injective, and
`targetDate: null` equal to leaving it out, as the canonical form does); key case folding is left out. An instant is a
natural number and a day too; `LocalDateIn` is any calendar whose zones never go back (`CalendarAssumption`). There
is one clock, which never goes back: the code has the same assumption when several instances serve one database.

### GoalLedger

Six steps over committed rows: create, edit, record, remove and the passing of time. It states what a row may become:
a changed setting costs a revision, a changed unit or amount empties the answers, unit and basis stay under the
conditions of R-02 and P-20, records lie between the start and today. `TransactionsAreAtomic` says that `GoalStore`
implements it under the identity mapping of the four shared variables: however the transactions interleave, the tables
move as if accepted requests happened one at a time. `CountersFit` is the promise of the columns: no step of the ledger
takes a revision past its maximum, so the store has to refuse in time.

### GoalReads

`ReadSelect` copies what is committed (REPEATABLE READ: the first SELECT fixes the snapshot), `ReadClock` takes the
time after it, `ReadAnswer` builds the answer after the connection is back in the pool. Writers move in between.
`AnswersAreOneMoment` also compares what `GoalModel` (the list's sum, up to today) and `TodayModel` (the engine's sum of
all records read) would answer from one snapshot and one clock: the progress is the same.

### Engine and Forecast

A date is a record of year, month and day, so that `Ordinal` is the arithmetic of the code. A chance is an exact
fraction. `ExactReached` is the code's exact comparison (whole numbers there too); the floating-point value it is
preferred to near a threshold, `Approximation`, is the true one rounded to a part of `Scale` plus any noise within
`Margin`, so that whatever a machine rounds to is covered. `Bisect`, the checks of order and the fallback to sampling
are those of the code; a draw is any pair of parts of `Unit`. `CompletionPmf` keeps the two pairs of arrays that take
turns, with what is left over in them. Left out: the generator and the Gamma draws behind a draw, the tolerance of
1e-12 below a threshold, the refusals of malformed input, the legacy view of Today (not r11), and the work budget,
which `DEFAULT_CONFIG` cannot reach.

Loops are recursive functions (`SumTo`, the halving, the products), so that they can be reasoned about; the calendar is
said a second time without the engine's tables (`Dates`, `Follows`), for the properties and for the assumption on the
calendars a behaviour may follow.

`Forecast` lets days pass, records, edits and answers be given, asks (`Ask`, for any rounding and any draws), keeps a
forecast (`Capture`) and judges it (`QuantileState`, `Coverage`). Who may keep one is in `Evaluation`.

### Evaluation

`part` is the table `evaluation_participation`, `cards` is `evaluation_forecast`. A slot that writes goes through
`LockUser`, `LockRow` and `ReadState`, the three parts of `ownedTransaction`: the row of the user, the row of the goal
(404 when it is missing or not the user's), then the clock and what is valid at that time. `seen[r]` is the
`OwnedState` that the handler works on. What has run out is not seen, whether it has been purged or not.

- PUT and DELETE of the participation: `JoinCommit` (a valid one stays, one that has run out gives way),
  `WithdrawCommit`. The foreign key takes the cards along.
- POST of a forecast, three transactions: `CapturePreflight` (today's card is answered again, else the number of the
  participation is kept), `CaptureSelect` and `CaptureClock` (`loadTodaySnapshot`, which locks nothing, and the
  checks on the snapshot), then `CaptureStore` (checks of participation, settings, day, answers and records; today's
  card again; the two DELETEs that make room; INSERT). `memo[r]` is what the handler holds in variables from one
  transaction to the next. `Ready`, `SameTicket` and `SameInput` are its refusals.
- `Purge` is `purge-cli.ts`: any clock reading of the past, because it is taken before the connection is made.
- `Record`, `Edit` and `Delete` are the accepted requests of `GoalStore`. That one step each is enough is what
  `TransactionsAreAtomic` says; they wait for the row lock like the transactions they stand for.

Abstractions: `recs` keeps the status of a day, and `Done` counts one for each DONE (amounts are a matter of
`GoalStore`); `prefix` stands for the hash of the records (SHA-256 taken as injective); the numbers of the prediction
are not kept, since no property is about them. A capture is submitted with the revision of its page; an older page is
refused by the first check, so only the current revision is enumerated. The two DELETEs of the purge are one step: a
card stored between them goes with its participation, and a participation made between them is not among those that
have run out. Reading the clock and the state is one step as well: only the purge could come between, and it removes
what is no longer seen. The policy does not change during a behaviour. `asked` and `told` are history.

### Milestone

`part` and `goal[g].consent` are the participation and its consent revision, `forecasts` the episodes, `artifact` the
stored coefficient of a goal. `Read` is `owned` with `state`: the locks of the user and of the goal and what is valid
at the clock read under them (`seen[r]`); it is one step, because nobody who holds a goal's row waits for the user's.

- `JoinCommit`, `WithdrawCommit`: the revision the client sends is the current one, or that of its own last request
  sent again; a join makes a participation, a withdrawal drops it with everything derived from it.
- `CapturePrepare` and `CaptureStore`, `FitReserve` and `FitStore`: two transactions with the computation between
  (`memo[r]`). The second one checks participation, day, input and the newest coefficient (`Storable`,
  `SameTraining`, `LatestGeneration`) again; a fit has taken its generation in the first.
- `Assess` is the label of an episode at a moment: invalid, pending, arrived, censored, unknown, from the records that
  have matured. `ReceiptsMatch` is the check that a coefficient's sources are still what they were. The second transaction makes
  it at the clock it has read, which is past the issue of the episode and may be before the COMMIT; so
  `EpisodesDescribeTheGoal` asks for it at a moment between the two.

A DONE counts for one, the coefficient itself is a name, one label stands for one hash. The report and the comparison
change nothing and are left out.

### SchemaHistory, Migration, DemoSeed, Serving

`Migration`: `history` is `schema_migrations`, `lock` the advisory lock, which belongs to a connection: `LockIsLost`
lets its owner work on beside the next one, as the code's file transactions do. `ApplyFile` is a file's transaction at
its COMMIT, `AnswerIsLost` the COMMIT that was done and not answered. The two statements of the check
(`CheckTable`, `CheckHistory`) and the one on the authentication (`Report`) are separate steps. `SchemaHistory` is
what all of it promises, under the identity mapping. The auth library's own migrations are one step.

`DemoSeed`: `LockAccount`, `LockGoals`, `ReadMarkers`, `Commit` are the statements of the transaction that wait or
read; the owner creates and deletes between them. `CommitUnanswered` and `CommitNotDone` are the two truths behind an
unknown COMMIT. `installed` is history: the markers the last COMMIT of a seeder wrote. `SeedIsAllOrNothing` says that
they are nothing or a goal of that seeder's own in every slot, and that a slot which has lost its marker since has lost
it to the owner, who deleted the goal. One demo goal alone is therefore possible, and only so.

`Serving`: `phase` is the container from the start to `exit`, `inFlight` what its handlers hold; a handler goes on
after its client has left, and hands a task to the tracker before it answers. `starts`, `pending` and `calls` are the
function's shared start.

### WebSession and the pages

`WebSession` has the session atom of the auth client and the two module variables that follow it: `continuity` at
once, `epoch` by the effect of `PrivateCacheGuard`. `cookie` is what really holds, changed by other tabs. `Ready` is
`privateDataReady`. Generations are compared only, so that one boolean for each holder says whether it is current.

`CreateForm`: the page has three memories (`draft`, `receipt`, `saved`), the form is mounted and unmounted by the
boundary, `storage` is the operation of each account in `sessionStorage`, `posts` are mutations. `Serve` is the API
with `X-Create-Owner` and `createGoalOnce`; `Lose` is any failure without an answer. `Submit` stores first and sends
then; every use of the storage may throw, except the first reading of a form that is mounted, which is left out.

`TodayScreen`: the key of the screen decides whether it survives a check of the session; `query` is the cache,
`screen` what the component holds, `puts` the saves. `Press`, `HeldIsSettled`, `Serve`, `SaveSucceeds`, `SaveFails`,
`SaveIsLost`, `Retry`, `RetryRebased`, `ReloadSettings`, `Reselect`, `StartAnew` are the saver; the other actions are the
queries and the boundary. Left out: the query of records, yesterday's record, the correction of a record, the draft
before a save, the notice of what a save has changed, the count of resyncs, mutations paused while offline, and
requests served after their connection was lost. While a retry is held over a check of the session, the code still shows
the failure (`useSaveLog.ts:198-227`); here it is held and nothing else, and when it is dropped the failure is gone. No
property is about the message, and the retries it would still offer are those of a failure that was not retried.

`EditForm`: a field of each kind (an amount, whose change withdraws the answers; a zone, frozen by a record; the
answers). `baseline` is the row the form is compared with, `ComparedWith` and `PatchOf` are `toPatchBody`, `Rebased`
is `rebaseValues`, `held` is the page's memory of a form that is gone. `Serve` is the PATCH with `PatchVerdict`
reduced to these fields. The session boundary is seen only as closed, open or broken. Left out: the dialog that deletes,
the lock of the unit, the checks of single fields and that a change of a field takes away the complaint of a 422, the
choice the two questions require. After a reload, answers that
were typed under an old amount are sent with the new one when they were touched: that is what `docs/product-spec.md`
asks for (touched inputs stay, the latest row is shown beside them), so it is no property here.

`GoalFields`: a text is a number as the program writes it, a number written otherwise, nothing, or something else; an
amount is one text or, with the prefix `@hm:`, two. A save is one step here (its failures are in `CreateForm` and
`EditForm`). `Errors` is `validate` with `priorChoiceError`, `ToCreateBody` and `ToPatchBody` build what is sent,
`CreateAccepted` and `PatchAccepted` are the contract and the policies of the API; of the checks that `updateGoal` makes
of the answers, `PatchAccepted` has the one a body of this form could fail (answers beside a new unit or amount,
`goals/store.ts:290`). The revision that goes with the answers is in `EditForm`; the end of the counters
(`revision_exhausted`, in `GoalRules`), which no form can know of, and the exception of `toPatchBody` when a locked unit
was changed (`goal-form.ts:319`; `Errors` complains of it before, while the form has the current goal) are left out. The check of the zone's name is
left out, since the list offers known names only. A stored goal (`IsGoal`) is one the CHECKs of
`migrations/0001_goal_action_log.sql` let be.

`LeftoverZone` is the one case in which the form and the API disagree, and `FormsAgreeWithTheServer` excepts it. Another
zone was picked in an edit; meanwhile the goal was changed and recorded elsewhere; the save meets the conflict and the
latest goal is read. `rebaseValues` (`goal-form.ts:291`) keeps the picked zone, the list is disabled now and shows it
(`GoalFormFields.tsx:296`), and `toPatchBody` does not send it, since the goal has records (`goal-form.ts:339`). But
`validateGoalForm` asks what day it is in that zone (`goal-form.ts:181`), and the API in the goal's: around midnight a
target date passes the form and is refused, against "検査の範囲は API 契約（contracts/goal.ts）と同じにし"
(`goal-form.ts:11`). It takes two changes from elsewhere, so the bound of `create_form` does not meet it; the attempt to prove the property without the
exception led to it, and TLC shows it with `MaxChanges = 2`.

### Delivery

`head` and `ci` are main and its two CI workflows, `waiting` and `job` the concurrency group with its one active and
one waiting run. A run goes through `StartRun`, `Gate`, `CheckSchema`, `Approve`, `Migrate`, `CheckAgain`,
`ReadCurrent`, `Build` and the steps of the switch script: `Preflight`, `Promote`, `Verify`, `Recover`, `Rollback`, `RolledBack`, `GiveUp`.
`wire` holds alias commands the platform has not received, `requests` those it has, which it carries out at its own
pace (`Moves`, `Succeeds`, `RequestFails`); `Evidence` is what the script may infer from the list of requests and the
alias. `Blocked` is `switchBlocks` of the gate: a run whose switch failed stops the later ones.

GitHub, Vercel and the operator are external. Assumed of them: the preflight and the sending of a command are one
step; a command arrives or is lost before the script gives up on it; the operator switches by hand only when no
request is open (`docs/operations/release-guide.md`), and answers a stopped delivery by running again the run that
blocks, as a whole, or CI of main.

## 3. Runs

| run | question | bounds |
|---|---|---|
| `goal_create` | does a key make one goal, are the answers true, does everybody get one? | 2 clients, 2 users, 1 key, 2 bodies, 2 ids; create, edit, delete |
| `goal_record` | do edits, records, answers and deletions behave as the ledger, across zones and midnight? | 2 clients, 1 goal, 2 zones, 2 days, 2 instants, 2 units, 2 answers, 2 settings revisions, 1 of the answers |
| `reads` | is a GET one moment, does it ever fail; are the days the engine names right, and the verdicts on them? | 1 writer, 1 reader, 2 zones, 2 days, 3 instants; 4 days of asking and 6 of keeping, horizon 4, two roundings, two sets of draws, 2 cards |
| `evaluation` | do cards live and die with their consent, describe the goal, and does the first of a day stand? | 2 clients, 2 goals, 3 days (the first with 2 instants), retention 3, room for 1 card, 2 participations, 3 records or edits |
| `milestone_open` | violated: can two episodes of a goal be open at once? | 1 client, 4 days, horizon 3, 5 records |
| `milestone` | is consent used once, does nothing derived outlive it; does what a coefficient was learned from stay true, do fits go forward? | 2 clients, horizon 1; 4 days of one instant, 1 join, 2 fits, 2 edits, or 2 days of 2 instants, retention 2, 2 joins, 3 consent revisions, 1 fit, 1 edit, or 2 days from a recorded one on, one request at a time, 1 fit, 3 edits |
| `create_form` | is a creation ever given up or shown to another account; is what a form shows what it sends? | 2 users, 2 keys, 2 mutations, 2 upsets with bodies the contract takes or 1 with any; 3 changes by the user, 1 elsewhere, 2 instants |
| `operations` | does the history grow in order, is seeding whole, do pools outlive the work? | 2 migrators, 1 check, 3 files in different checkouts, 2 starts of each; 2 seeders, 6 goals; 2 requests, 2 starts |
| `delivery` | does what a run says stand, is the schema there, does main arrive? | 2 pushes, 3 failures of any kind |
| `today` | who sends what on the Today screen, and is it what was typed? | 2 users, 1 midnight or edit, 2 upsets |
| `edit_form` | does a save overwrite anybody, does typed work survive? | 1 change elsewhere, 2 saves, 1 check, break or visit |
| `goal_fields_switch` | violated: does a switch of the unit keep an unfinished input? | as in `create_form` |

Why this is enough to meet the cases: a conflict on a row or on a key needs two transactions; an id is never reused,
so a second goal shows a second creation. East is one instant ahead of West and a day has two instants, so that every
relation of two dates occurs (same day, one ahead, both moved). Two revisions give a page that is current, one that is
old and the maximum of the counter. For the evaluation the clock passes the retention of what was made first, two
participations show the second one of an account, and one card more than there is room for shows the trimming; each
behaviour follows one of two focuses (`EvaluationMC`): several participations and goals with one edit, or one goal
whose records, answers and settings move under two captures. The calendars of `reads` cross a leap day, a century
without one and the end of a year, and its noise alternates in sign from day to day, so that rounded values fall out of
order. A milestone with a horizon of one day and one source per
fit has every state of an episode within four days; that a source is corrected after a coefficient has learned from it
and before the next episode takes three edits and a fit, which the third focus of `MilestoneMC` has room for because it
begins after the first record and lets one request run at a time. In the browser an upset is a change of the cookie, an unprompted
check or an exception; two of them give a sign-in elsewhere and the way back, or a check inside a check. Three
failures let a delivery lose a switch, lose its recovery and lose a step of the next run. Parts that
run side by side (in `reads`, `create_form` and `operations`) share no state that a property reads, so a behaviour is of
one of them. The theorems below remove the bounds for every safety property but one, `CompletionDaysAreFirst`.

Every property has a mutant in `PROJECT.json`: a plausible slip in one mapped definition (a lock left out, a check too
late, a token not counted) that TLC finds to violate it. Slots are symmetric in the safety runs; runs with liveness use no
symmetry. Deadlock is checked where clients may always ask again; the web pages, `operations` and `delivery` stop when
their bounds are used up or their processes have ended.

`milestone_open` records a divergence of the code from `docs/product-spec.md`: an episode that a correction makes
INVALID counts as closed, and it opens again when the record is put back, beside the one that was captured meanwhile.
`goal_fields_switch` records a bug: a comment in `GoalFormFields.tsx` says that an unfinished input is not lost when the
unit is switched. After the unit was changed elsewhere and the latest goal was read, hours and minutes typed before are
still there under the unit of sessions; switching back writes the text `null` over them.

Fairness: in `goal_create`, clients owe nothing, and no request has to arrive. A transaction that has begun goes on:
`SF_vars(Work(r))`. Strong fairness is what PostgreSQL's lock queues give a waiter, which is not passed over for ever
when the row keeps being locked by others. `Abort` is never fair: the liveness holds without any timeout. In `delivery`
the runs, the platform, CI and the operator's answer to a stopped delivery are weakly fair: jobs and requests have
deadlines in the code (`timeout-minutes`, the waits of the script), and the operator's part is the release guide's.
Nothing is assumed of pushes and failures; the bound on failures is what makes "in the end" mean something.

## 4. Proofs

`GoalSafetyProofs` begins with `TypeCorrect` and `LocksHold` (`Spec => []Discipline`). None of the properties is inductive;
`Discipline` is what carries them:

- `LockOK`: the row in the variable of a transaction that has passed `FOR UPDATE` is the committed row;
- `OneHolder`, `OneKeyHolder`: locks exclude;
- `PatchOK`, `PutOK`, `KeyOK`: what was checked under the lock is still true at the commit. For a PUT this needs the
  calendar to be monotone, because the clock moves on between check and commit;
- `IdOK`: a request names an id that was drawn, so that no creation can fill a row that somebody asks for.

The step is proved once for everybody else (`Bystanders`: a step of `r` touches only rows and keys it holds, takes
only free locks) and once per operation for `r` itself.

The rest of the module shows that a step either leaves the tables alone or is one of four commits, states what each commit
does to its row, and derives `BasisIsFrozen`, `NoFutureRecords`, `SavedQuestionsStayReadable`, `UpdatesAreNotLost`,
`UnitsAreNotReinterpreted` and `KeysMakeOneGoal`. Two more invariants are needed: a page shows the
settings and the answers of its revisions or older ones (`PagesOK`, from the fact that nothing changes under the same
revision), and a stored amount has set the marker (`MarkOK`). The proofs hold for any set of users, keys, goals,
slots, values, zones and any bounds; they assume only what `RulesAssumption`, `CalendarAssumption` and
`StoreAssumption` say of the constants, which TLC evaluates in every run.

`AnswersStand` (`AnswerStandsForTheKey`) joins answers given at different times to the ledger as it is now: `Linked`
says that a row of the ledger and the goal it names were made by one request and go together, `StillTrue` that what
was answered is what the ledger would answer again: the goal that the request made, or for ever that it is gone.

The refinement is `StoreImplementsLedger`: under the identity mapping every commit of a
transaction is one step of `GoalLedger`, and every other step is `Pass` or a stutter. `Discipline` gives what the four
commits need except for one thing, `NewOK`: the row an accepted POST is about to insert is the row its request asked
for, started on a day that had come when the request was checked, and the calendar never takes that day back.

The readers: `StoreBehaves` says that `GoalStore` beside any number of readers is still `GoalStore`, so that every
theorem about it holds for what a reader may see. `SnapOK` carries those of one row and its records from the first
SELECT to the answer; the clock that is read after the snapshot can only be later. `ReadersAreServed` and
`ReadersSeeOneMoment` follow; that list and Today agree (`ProgressAgrees`) is the same fact, no record lies after today.

`EvaluationProofs` proves the properties of `Evaluation` from one invariant, `Inv`. `ConsentCoversCards`
alone is not inductive: a capture stores its card long after it looked at the participation. What carries it:

- `Steady`: while a slot holds its two locks, the participation it has read is still there or has been purged, today's
  card is among those it has read, and no card of its goal is newer than its clock;
- `CaptureOK`: the participation number a capture keeps was given before, and if that participation still exists, it
  began before the snapshot was taken; the snapshot shows a recorded today and a goal not reached;
- `PartOK`: numbers are unique and never given twice, so that `SameTicket` means the same consent; a participation
  lasts exactly the retention;
- `CardOK`: one card per goal and day, none issued in the future; `OneHolder`: the lock of the user excludes.

`NoCardWithoutConsent`, `EvaluationTypes` and `CapturesNeverCollide` (the last two are theorems only, no run repeats
them) follow from `Inv`. The action properties
`CardsAreUpToDate`, `ConsentStands` and `CardsStand` are shown by listing who can touch the two tables (`OnlyThese`):
a join replaces only what no longer counts, now and not only at its own clock (`JoinReplacesTheDead`), a purge with
an old clock takes only what has run out since (`PurgeTakesTheDead`), and a card that makes room is older than the
one that comes (`OnlyOlderCardsMakeRoom`). `OneAnswerADay` (`FirstCardStands`) needs a second
invariant, `ToldInv`: a card that was answered is stored, or one of a later day is, as long as its participation lasts
(`ToldStored`); all cards of a participation run out together, so that retention hides none of them from another
capture (`ExpireTogether`); and a participation number is known under one goal only, wherever it is remembered
(`OneGoalEach`). The proofs assume `EvaluationAssumption` and `NoneAssumption`: any owners,
any retention and limits above zero, any calendar that never goes back.

`MilestoneProofs` proves the four properties of the run `milestone` from one invariant. Two transactions with a
computation between them are tied to their participation by a number that is never given twice (`PartOK`, `MemoOK`).
`SeenOK` says what a transaction knows while it holds its two locks: its participation is still there or has been
purged, and nobody else stores a coefficient or spends consent for its goal. `GenOK`: a generation is reserved for one
fit, and no stored coefficient has it already (`NewerFitsStay`). `SpentOK`: the newest revision of consent made the
participation that lives. `CoverOK`: what is derived runs out with its participation (`DerivedHangsOnConsent`).
`CoefficientsStaySound` rests on `Learned` and `Mature`: a label is a function of the records up to a day that can no
longer be corrected, so a later record cannot change what was learned. `EpisodesStandWhenStored` is an action property
of `CaptureStore`; `ForecastsSeen` says that the episodes a transaction has read under its locks are still there, because no step of
another takes one away while the participation lives (`EpisodesKept`); so the sources it compared are those at the COMMIT. Assumed: `MilestoneAssumption` (any owners, any calendar that never goes back, retention, horizon
and step above zero) and that `Nobody` is no participation.

`OperationsProofs` has four parts. For any number of migrators, checks, files and checkouts `MigrationInv`: what a
process has read of the history is still part of it, the files it has passed are recorded as its checkout has them, a
process past the authentication found it there. `ReportsStand` needs more than the state (two reads of the check at
different times are joined): it follows because rows are only added and never changed. The refinement of
`SchemaHistory` maps `ApplyFile` and `AnswerIsLost` to `Apply`, `MigrateAuth` to `CreateAuth` and everything else to a
stutter; that the next file's predecessors are recorded comes from `MigrationInv` and not from the lock, which may be
lost. `SeedIsAllOrNothing` is strengthened with what an open transaction knows: it is alone with the account's lock,
and the goals it has locked and the marks it has read are the marked goals, until it commits (`LocksHold`); that what
it leaves is whole is carried from one COMMIT to the next (`InstalledOK`). `PoolsAreSound` is
strengthened with the life of a connection and a task (a pool is ended only in a phase in which nobody with a waiting
client holds one) and with `pending` naming the only start that is alive.

Of the delivery: the group and the gate put the switches one after another. `OrderOK` and `BlocksOK`: what has started
is the newest run that ever had a verdict, and a failure is the newest verdict until its own run goes past it. `WireOK`
and `RequestsOK`: so at most one request is under way, it is the newest, and a command its run no longer waits for
meets no run that could ask for another. `BuiltOK`: the migrations applied never fall behind anything that is or may be
served. Together with `ResultsStand` these are inductive, and `SchemaComesFirst` and `GateBlocks` follow. Assumed:
`DeliveryAssumption`, that every commit needs some number of migrations.

`CreateFormProofs`: `SessionOK` ties the owner who has been typing to the session atom (`continuity` follows it in the
same step, `epoch` later). `FormOK` and `MemoryOK`: what the form and the page's memories hold is of that owner, and
an operation that may be put away has been told. `PostsOK`: while a form is shown, the page hears of no mutation but
the one the form waits for; this is why a late answer never settles another operation. `StorageOK` is
`UnknownCreationsAreKept` with the author of what is stored. `LedgerOK`: what has been refused is refused again
(`Barred`), because the contract does not change and a passed day does not come back. Assumed: `CreateFormAssumption`,
that the names for "none" are no values.

The same module has the fields, for any texts, rows, dates and number of changes (the run allows three by the user and
one from elsewhere). `FieldsOK`: an amount of time that is shown as minutes is never kept as hours and minutes, through
every switch of the display and the unit, lock and newer goal; so what is shown and not complained of is what is sent
(`SentAsShown`). `ModeOK`: an edit works on rows the database lets be. `AttemptOK`: a creation whose outcome is unknown is
what the form shows, was in the contract when it was sent, and is not complained of, whatever day it is now.
`FormsAgree` compares `Errors` with the contract and the policies, field by field, of the body that is sent. It needs the
exception `LeftoverZone`. Assumed: `FieldsAssumption` (INT4_MAX below the largest safe integer, texts and rows of
their kinds).

`EditFormProofs`: the tab holds what was changed in one of three places, the form, the page's memory, or the one save
it hears of, and in each of them the difference to the row it is compared with is what was changed (`FormOK`,
`HeldOK`, `HeardOK`, `WorkOK`; `TypedStays`). `PastOK`: every row the tab holds is a past state of the goal, and between
a past state and the present one a setting differs only with the revision of the settings and the answers only with
theirs (`Newer`). So a save whose revisions are the current ones finds what it names as its author saw it
(`OthersAreKept`), also when the tab has long given it up. Assumed: `EditFormAssumption`, as above.

`TodayScreenProofs`: whatever may bring somebody else to the tab (`News`) changes the generation of `continuity` in the
same step (`SessionStep`), and the generation is part of the screen's key; so a screen that stays mounted is in the
sitting it was mounted in, and what it holds and has sent is of that sitting (`ScreenOK`, `PutOK`). A save is heard of
by the screen only while the screen waits for exactly that operation; so a late answer never ends another one, and a
new save starts only when no save of its day is pending (`PutsOK`). `MetOK`: a revision stands for one unit, wherever
the tab has met it: in the cache, on the screen, under what is typed, in a save. So an amount typed under the revision
that is shown is in the unit that is shown, and a save the server accepts under its revision is in the server's unit.
Assumed: `TodayAssumption`, that the names for "none" are no values.

`ForecastProofs`: the engine's loops first. No induction theorem of the library can be used here (they take an
operator), but a set of natural numbers has a least element by well-foundedness, and so a set that holds 0 and with
every number the next one holds all (`SetInduction`). With it each recursive function is shown to exist and to be what
its equation says, and from the equations: sums one number at a time (`SumSteps`), what a search by halving finds
whatever is asked (`SearchFinds`), that the day after has the next `Ordinal` over the end of a month, a leap day, a
century and a year (`OrdinalFollows`), that the sorted records are each there once and in order
(`SortedDaysAreRanked`). `ForecastInv` is the inductive invariant: records are of days of the calendar that have come, a
card names one day or none under settings no newer than the present ones, and an answer was computed from the
present records. Then

- `CountsAreTheCalendars`: two recorded days are a pair of the code exactly when they are neighbours on the calendar;
- `ReportStands` (`VerdictsStand`): a verdict depends on the records of its window, on those before its card and on two
  revisions (`Judge`); when it is given, the last day of the window is past correcting, so a later record touches
  none of them (`LaterRecord`);
- `CoverageHolds`: by whatever the gaps are filled, every forecast that is REACHED has arrived and none that is
  NOT_REACHED has, so the number of arrivals lies between the two counts (`Bounded`);
- `RecoveryIsFirst`: the short product and the long one compare the same two fractions of rising factorials
  (`ShortIsLong`), what is reached stays reached, so that doubling and halving find the first day there is
  (`ShortFirst`), and the survival fraction of the reference definition, reduced by `Gcd` every day, is that
  fraction (`SurvivalIs`).

Assumed: `EngineAssumption` (limits above zero) and `ForecastAssumption`: a calendar is any sequence of days that
follow each other, amounts are natural numbers, and a total is above the initial progress.

Model-checked only, of the safety properties: `CompletionDaysAreFirst`. It compares the closed form with a count of all
paths. The two agree by an identity of sums over sets of paths, and `MapThenSumSet` of the library, which both sides
use, is a fold whose value the provers cannot unfold for a set of any size; it also holds only for noise within
the margin, which is a constant of the run. The liveness properties `EveryRequestIsAnswered` and `MainIsDeployed` are
outside the prover, as all liveness under fairness is.

## 5. Not modelled, and what is left

Not modelled for good: rendering, wording and layout; Better Auth and mail transport; configuration parsing; the
comparison of single columns with the catalogue in the schema check; the generator and the Gamma draws of the sampling
and the optimisation of the milestone's coefficient, which are numerical analysis and have no state; the experiments,
which are not part of the program.

Left out, with the hazards that name them: a policy that changes between deployments; the deadlock of a purge with a
withdrawal, which PostgreSQL resolves by failing one of them (`Abort`); the replay of a creation and the list of
records as readers of several statements.

Left to do, in this order: the evaluation report as a reader;
yesterday's record and the correction of a record on the Today screen.
