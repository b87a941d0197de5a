----------------------------- MODULE Migration -----------------------------
(***************************************************************************)
(* Migrating the database and checking it, apps/api/src/db: any number of  *)
(* processes (container starts, db:migrate) migrate at a time, behind a    *)
(* session lock that one of their connections holds; others (db:check)     *)
(* only read.  Processes fail, crash, lose the connection with the lock    *)
(* while the others still work, and start again.                           *)
(*                                                                         *)
(* A transaction is one step, taken when it commits: what it has done so   *)
(* far is seen by nobody, and a statement that finds the table or the row  *)
(* of another transaction waits for that one to end.                       *)
(***************************************************************************)
EXTENDS Naturals

CONSTANTS
  Files,       \* numbers of the files in apps/api/migrations
  Unapplied,   \* no row in schema_migrations
  Migrators,   \* processes that migrate
  Checkers,    \* processes that check
  Checkout,    \* [Migrators \union Checkers -> [files -> texts]]
  Target,      \* [Migrators -> {"auth", "app", "all"}]
  Legacy,      \* files of the first deployment, whose line ends may differ
  Nobody,      \* nobody holds the lock
  MaxStarts    \* bound of the model: how often a migrator is started

VARIABLES
  auth,        \* the tables of the authentication exist
  table,       \* the table schema_migrations exists
  history,     \* its rows: [Files -> text or Unapplied]
  runs,        \* how often the file's SQL has been committed (history)
  lock,        \* whose connection holds the advisory lock
  migrators,   \* [Migrators -> the state of migrate()]
  checkers     \* [Checkers -> the state of runSchemaCheck()]

dbVars == <<auth, table, history, runs>>
migrationVars == <<dbVars, lock, migrators, checkers>>

ASSUME MigrationAssumption ==
  /\ Files \subseteq Nat /\ Nobody \notin Migrators
  /\ \A p \in Migrators \union Checkers :
       /\ DOMAIN Checkout[p] \subseteq Files /\ DOMAIN Checkout[p] # {}
       /\ \A f \in DOMAIN Checkout[p] : Checkout[p][f] # Unapplied

NoRows == [f \in Files |-> Unapplied]

MigrationInit ==
  /\ auth = FALSE /\ table = FALSE /\ history = NoRows
  /\ runs = [f \in Files |-> 0]
  /\ lock = Nobody
  /\ migrators = [m \in Migrators |->
       [pc |-> "idle", starts |-> 0, plan |-> FALSE, recorded |-> NoRows, past |-> {}]]
  /\ checkers = [k \in Checkers |->
       [pc |-> "idle", table |-> FALSE, recorded |-> NoRows, report |-> "none"]]

(* matchesMigrationChecksum: only the line ends of the files that were      *)
(* deployed first may differ.                                               *)
Matches(f, text, recorded) ==
  \/ text = recorded
  \/ f \in Legacy /\ {text, recorded} \subseteq {"lf", "crlf"}

-----------------------------------------------------------------------------
(* migrate.                                                                 *)

At(m, pc) == migrators[m].pc = pc
Goes(m, pc) == migrators' = [migrators EXCEPT ![m].pc = pc]
Working(m) == migrators[m].pc \notin {"idle", "done", "failed", "crashed"}
Released(m) == lock' = IF lock = m THEN Nobody ELSE lock

Start(m) ==
  /\ ~Working(m) /\ migrators[m].starts < MaxStarts
  /\ migrators' = [migrators EXCEPT ![m].pc = "waiting", ![m].starts = @ + 1]
  /\ UNCHANGED <<dbVars, lock, checkers>>

(* pg_advisory_lock.                                                        *)
TakeLock(m) ==
  /\ At(m, "waiting") /\ lock = Nobody
  /\ lock' = m
  /\ Goes(m, IF Target[m] = "app" THEN "app" ELSE "auth")
  /\ UNCHANGED <<dbVars, checkers>>

(* migrateAuth: getMigrations compares the tables with the options before   *)
(* the transaction that creates what was missing then.                      *)
PlanAuth(m) ==
  /\ At(m, "auth")
  /\ migrators' = [migrators EXCEPT ![m].pc = "ddl", ![m].plan = ~auth]
  /\ UNCHANGED <<dbVars, lock, checkers>>

MigrateAuth(m) ==
  /\ At(m, "ddl") /\ ~(migrators[m].plan /\ auth)
  /\ auth' = (auth \/ migrators[m].plan)
  /\ Goes(m, IF Target[m] = "auth" THEN "unlock" ELSE "app")
  /\ UNCHANGED <<table, history, runs, lock, checkers>>

(* migrateApp: the rows are read once, before the first file.               *)
ReadHistory(m) ==
  /\ At(m, "app")
  /\ table' = TRUE
  /\ migrators' = [migrators EXCEPT ![m].pc = "files", ![m].recorded = history,
                                    ![m].past = {}]
  /\ UNCHANGED <<auth, history, runs, lock, checkers>>

Left(m) == DOMAIN Checkout[m] \ migrators[m].past

(* The file whose turn it is, in the loop over the sorted names.            *)
IsNext(m, f) ==
  /\ At(m, "files")
  /\ f \in Left(m) /\ \A g \in Left(m) : f <= g

Recorded(m, f) == migrators[m].recorded[f] # Unapplied

Passes(m, f) == migrators' = [migrators EXCEPT ![m].past = @ \union {f}]

SkipFile(m, f) ==
  /\ IsNext(m, f)
  /\ Recorded(m, f) /\ Matches(f, Checkout[m][f], migrators[m].recorded[f])
  /\ Passes(m, f)
  /\ UNCHANGED <<dbVars, lock, checkers>>

(* Mutant: the row is written when another has written it meanwhile.        *)
CommitsOver(m, f) ==
  /\ IsNext(m, f) /\ ~Recorded(m, f)
  /\ auth
  /\ history' = [history EXCEPT ![f] = Checkout[m][f]]
  /\ runs' = [runs EXCEPT ![f] = @ + 1]
  /\ UNCHANGED <<auth, table>>

(* applyFile commits: the file refers to the user table, and its name must  *)
(* still be free.                                                           *)
Commits(m, f) ==
  /\ IsNext(m, f) /\ ~Recorded(m, f)
  /\ auth /\ history[f] = Unapplied
  /\ history' = [history EXCEPT ![f] = Checkout[m][f]]
  /\ runs' = [runs EXCEPT ![f] = @ + 1]
  /\ UNCHANGED <<auth, table>>

ApplyFile(m, f) ==
  /\ Commits(m, f)
  /\ Passes(m, f)
  /\ UNCHANGED <<lock, checkers>>

MigrateApp(m) ==
  /\ At(m, "files") /\ Left(m) = {}
  /\ Goes(m, "unlock")
  /\ UNCHANGED <<dbVars, lock, checkers>>

(* pg_advisory_unlock, over the connection that took the lock.              *)
Unlock(m) ==
  /\ At(m, "unlock")
  /\ Released(m)
  /\ Goes(m, IF lock = m THEN "done" ELSE "failed")
  /\ UNCHANGED <<dbVars, checkers>>

(* An error: of the checksum (MigrationChecksumError), of a statement, of   *)
(* a connection; the transaction is rolled back and the lock released.      *)
Fails(m) ==
  /\ Working(m)
  /\ Released(m) /\ Goes(m, "failed")
  /\ UNCHANGED <<dbVars, checkers>>

(* The connection is lost with the answer of COMMIT on the way.             *)
AnswerIsLost(m, f) ==
  /\ Commits(m, f)
  /\ Released(m) /\ Goes(m, "failed")
  /\ UNCHANGED checkers

Crashes(m) ==
  /\ Working(m)
  /\ Released(m) /\ Goes(m, "crashed")
  /\ UNCHANGED <<dbVars, checkers>>

(* The connection with the lock is lost: the server releases the lock while *)
(* the process still works over another one.                                *)
LockIsLost(m) ==
  /\ lock = m
  /\ lock' = Nobody
  /\ UNCHANGED <<dbVars, migrators, checkers>>

-----------------------------------------------------------------------------
(* runSchemaCheck.                                                          *)

(* checkAppMigrations, to_regclass.                                         *)
CheckTable(k) ==
  /\ checkers[k].pc = "idle"
  /\ checkers' = [checkers EXCEPT ![k].pc = "table", ![k].table = table]
  /\ UNCHANGED <<dbVars, lock, migrators>>

(* checkAppMigrations, the rows.                                            *)
CheckHistory(k) ==
  /\ checkers[k].pc = "table"
  /\ checkers' = [checkers EXCEPT ![k].pc = "auth",
                    ![k].recorded = IF checkers[k].table THEN history ELSE NoRows]
  /\ UNCHANGED <<dbVars, lock, migrators>>

Pending(k) == {f \in DOMAIN Checkout[k] : checkers[k].recorded[f] = Unapplied}

(* Mutant: the names are compared, not the texts.                           *)
NothingMismatches(k) == {}

Mismatched(k) ==
  {f \in DOMAIN Checkout[k] \ Pending(k) :
     ~Matches(f, Checkout[k][f], checkers[k].recorded[f])}

UnknownRows(k) ==
  {f \in Files \ DOMAIN Checkout[k] : checkers[k].recorded[f] # Unapplied}

(* buildReport, with what checkAuthSchema has just read.                    *)
Report(k) ==
  /\ checkers[k].pc = "auth"
  /\ checkers' = [checkers EXCEPT ![k].pc = "ended",
       ![k].report = IF /\ auth /\ checkers[k].table
                        /\ Pending(k) = {} /\ Mismatched(k) = {} /\ UnknownRows(k) = {}
                     THEN "ok" ELSE "drift"]
  /\ UNCHANGED <<dbVars, lock, migrators>>

(* A query fails, or one of the time limits ends.                           *)
CheckFails(k) ==
  /\ checkers[k].pc # "ended"
  /\ checkers' = [checkers EXCEPT ![k].pc = "ended", ![k].report = "unavailable"]
  /\ UNCHANGED <<dbVars, lock, migrators>>

-----------------------------------------------------------------------------
MigratorNext(m) ==
  \/ Start(m) \/ TakeLock(m) \/ PlanAuth(m) \/ MigrateAuth(m) \/ ReadHistory(m)
  \/ \E f \in Files : SkipFile(m, f) \/ ApplyFile(m, f) \/ AnswerIsLost(m, f)
  \/ MigrateApp(m) \/ Unlock(m) \/ Fails(m) \/ Crashes(m) \/ LockIsLost(m)

CheckerNext(k) == CheckTable(k) \/ CheckHistory(k) \/ Report(k) \/ CheckFails(k)

MigrationNext == \/ \E m \in Migrators : MigratorNext(m)
                 \/ \E k \in Checkers : CheckerNext(k)

MigrationSpec == MigrationInit /\ [][MigrationNext]_migrationVars

-----------------------------------------------------------------------------
(* Every file runs once, in order, after the tables of the authentication,  *)
(* and the history says so: the processes, with their lock lost and their   *)
(* crashes, implement SchemaHistory (migrate.ts).                           *)
Promised == INSTANCE SchemaHistory WITH
  Checkouts <- {Checkout[m] : m \in Migrators}, auth <- auth, history <- history,
  runs <- runs

HistoryGrowsInOrder == Promised!SchemaSpec

Complete(checkout) ==
  /\ auth
  /\ \A f \in DOMAIN checkout : /\ history[f] # Unapplied
                                /\ Matches(f, checkout[f], history[f])

(* A migration that reports success, and a check that reports "ok", have    *)
(* the schema of their checkout from then on, whatever other processes did  *)
(* between their reads (migrate.ts, schema-check.ts).                       *)
ReportsStand ==
  /\ \A m \in Migrators : At(m, "done") /\ Target[m] # "auth" => Complete(Checkout[m])
  /\ \A k \in Checkers : checkers[k].report = "ok" => Complete(Checkout[k])
=============================================================================
