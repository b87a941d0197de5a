-------------------------- MODULE OperationsProofs --------------------------
(***************************************************************************)
(* Proofs about Migration, DemoSeed, Serving and Delivery.                 *)
(*                                                                         *)
(* Migration, for any files, checkouts and processes: no step takes back   *)
(* what the database has: tables stay, a row stays as it was written       *)
(* (Grows).  So what a process has read stays true, and what it has passed *)
(* stays done (MigratorOK, CheckerOK), with or without the lock.           *)
(*                                                                         *)
(* DemoSeed, for any seeders, slots and goals: from the moment a seeder    *)
(* has locked the marked goals nobody else writes a marker or deletes one  *)
(* of them, so that what it reads again and tests twice is what it has     *)
(* locked (LocksHold).  What the last COMMIT wrote is a goal per slot, and *)
(* only the owner takes one of them away (InstalledOK).                    *)
(*                                                                         *)
(* Serving, for any number of requests and starts: the container's pools   *)
(* follow the phases of its shutdown (PoolsOK); a request that is still    *)
(* running then has no client, and what it hands over is nobody's to wait  *)
(* for (RequestOK).                                                        *)
(*                                                                         *)
(* Delivery, for any history of pushes, any migrations and any number of   *)
(* failures: the group and the gate put the switches one after another; a  *)
(* failed one is the last one until its own run is run again (OrderOK,     *)
(* BlocksOK).  So at most one request is under way, it is the newest, and  *)
(* a command that its run no longer waits for meets no other (WireOK,      *)
(* RequestsOK).                                                            *)
(***************************************************************************)
EXTENDS Migration, DemoSeed, Serving, Delivery, TLAPS

Texts == UNION {{Checkout[m][f] : f \in DOMAIN Checkout[m]} : m \in Migrators}

Rows == [Files -> Texts \union {Unapplied}]

PCs == {"idle", "waiting", "auth", "ddl", "app", "files", "unlock", "done", "failed", "crashed"}

MigratorStates ==
  [pc : PCs, starts : Nat, plan : BOOLEAN, recorded : Rows, past : SUBSET Files]

CheckerStates ==
  [pc : {"idle", "table", "auth", "ended"}, table : BOOLEAN, recorded : Rows,
   report : {"none", "ok", "drift", "unavailable"}]

MigrationTypeOK ==
  /\ auth \in BOOLEAN /\ table \in BOOLEAN
  /\ history \in Rows
  /\ runs \in [Files -> Nat]
  /\ migrators \in [Migrators -> MigratorStates]
  /\ checkers \in [Checkers -> CheckerStates]

(* The rows a process has read are rows of the table. *)
Read(recorded) == \A f \in Files : recorded[f] # Unapplied => history[f] = recorded[f]

Done(checkout, f) == history[f] # Unapplied /\ Matches(f, checkout[f], history[f])

MigratorOK(m) ==
  /\ At(m, "ddl") /\ ~migrators[m].plan => auth
  /\ At(m, "app") \/ At(m, "files") => Target[m] = "app" \/ auth
  /\ At(m, "files") => /\ Read(migrators[m].recorded)
                       /\ \A f \in migrators[m].past : f \in DOMAIN Checkout[m] /\ Done(Checkout[m], f)
  /\ At(m, "unlock") \/ At(m, "done") => Target[m] = "auth" \/ Complete(Checkout[m])

CheckerOK(k) ==
  /\ checkers[k].pc = "auth" => Read(checkers[k].recorded)
  /\ checkers[k].report = "ok" => Complete(Checkout[k])

MigrationInv ==
  /\ MigrationTypeOK
  /\ \A f \in Files : history[f] # Unapplied => auth
  /\ \A m \in Migrators : MigratorOK(m)
  /\ \A k \in Checkers : CheckerOK(k)

(* What no step takes back. *)
Grows ==
  /\ auth => auth'
  /\ \A f \in Files : history[f] # Unapplied => history'[f] = history[f]

-----------------------------------------------------------------------------

LEMMA CheckoutFiles ==
  ASSUME NEW p \in Migrators \union Checkers
  PROVE  DOMAIN Checkout[p] \subseteq Files /\ DOMAIN Checkout[p] # {}
BY MigrationAssumption

LEMMA InitialInv == MigrationInit => MigrationInv
<1> SUFFICES ASSUME MigrationInit
             PROVE  MigrationInv
  OBVIOUS
<1>1. NoRows \in Rows
  BY DEF NoRows, Rows
<1>2. MigrationTypeOK
  BY <1>1 DEF MigrationInit, MigrationTypeOK, MigratorStates, CheckerStates, PCs
<1>3. ASSUME NEW m \in Migrators
      PROVE  MigratorOK(m)
  BY DEF MigrationInit, MigratorOK, At
<1>4. ASSUME NEW k \in Checkers
      PROVE  CheckerOK(k)
  BY DEF MigrationInit, CheckerOK
<1>5. \A f \in Files : history[f] = Unapplied
  BY DEF MigrationInit, NoRows
<1> QED
  BY <1>2, <1>3, <1>4, <1>5 DEF MigrationInv

(* Committing a file is the only step that writes a row. *)
LEMMA CommitsGrow ==
  ASSUME MigrationInv, NEW m \in Migrators, NEW f \in Files, Commits(m, f)
  PROVE  /\ Grows
         /\ history' \in Rows /\ runs' \in [Files -> Nat]
         /\ f \in DOMAIN Checkout[m] /\ history'[f] = Checkout[m][f]
         /\ Checkout[m][f] # Unapplied
         /\ \A g \in Files : history'[g] # Unapplied => auth'
<1>1. history \in [Files -> Texts \union {Unapplied}] /\ runs \in [Files -> Nat]
  BY DEF MigrationInv, MigrationTypeOK, Rows
<1>2. f \in DOMAIN Checkout[m]
  BY DEF Commits, IsNext, Left
<1>3. Checkout[m][f] # Unapplied
  BY <1>2, MigrationAssumption
<1>4. Checkout[m][f] \in Texts
  BY <1>2 DEF Texts
<1>5. auth /\ auth' = auth /\ history[f] = Unapplied
      /\ history' = [history EXCEPT ![f] = Checkout[m][f]]
      /\ runs' = [runs EXCEPT ![f] = @ + 1]
  BY DEF Commits
<1> QED
  BY <1>1, <1>2, <1>3, <1>4, <1>5 DEF Grows, Rows

LEMMA StepGrows ==
  ASSUME MigrationInv, [MigrationNext]_migrationVars
  PROVE  Grows
<1>1. CASE UNCHANGED migrationVars
  BY <1>1 DEF migrationVars, dbVars, Grows
<1>2. ASSUME NEW m \in Migrators, MigratorNext(m)
      PROVE  Grows
  <2>1. ASSUME NEW f \in Files, ApplyFile(m, f) \/ AnswerIsLost(m, f)
        PROVE  Grows
    BY <2>1, CommitsGrow DEF ApplyFile, AnswerIsLost
  <2>2. ASSUME NEW f \in Files, SkipFile(m, f)
        PROVE  Grows
    BY <2>2 DEF SkipFile, dbVars, Grows
  <2>3. CASE Start(m) \/ TakeLock(m) \/ PlanAuth(m) \/ MigrateApp(m) \/ Unlock(m)
             \/ Fails(m) \/ Crashes(m) \/ LockIsLost(m)
    BY <2>3 DEF Start, TakeLock, PlanAuth, MigrateApp, Unlock, Fails, Crashes, LockIsLost,
                dbVars, Grows
  <2>4. CASE MigrateAuth(m)
    <3>1. auth' = (auth \/ migrators[m].plan) /\ history' = history
      BY <2>4 DEF MigrateAuth
    <3>2. auth => auth'
      BY <3>1, Zenon
    <3> QED
      BY <3>1, <3>2 DEF Grows
  <2>5. CASE ReadHistory(m)
    BY <2>5 DEF ReadHistory, Grows
  <2> QED
    BY <1>2, <2>1, <2>2, <2>3, <2>4, <2>5 DEF MigratorNext
<1>3. ASSUME NEW k \in Checkers, CheckerNext(k)
      PROVE  Grows
  BY <1>3 DEF CheckerNext, CheckTable, CheckHistory, Report, CheckFails, dbVars, Grows
<1> QED
  BY <1>1, <1>2, <1>3 DEF MigrationNext

LEMMA GrowsKeeps ==
  ASSUME MigrationInv, Grows
  PROVE  /\ \A recorded \in Rows : Read(recorded) => Read(recorded)'
         /\ \A p \in Migrators \union Checkers :
              /\ \A f \in DOMAIN Checkout[p] : Done(Checkout[p], f) => Done(Checkout[p], f)'
              /\ Complete(Checkout[p]) => Complete(Checkout[p])'
<1>1. ASSUME NEW p \in Migrators \union Checkers
      PROVE  /\ \A f \in DOMAIN Checkout[p] : Done(Checkout[p], f) => Done(Checkout[p], f)'
             /\ Complete(Checkout[p]) => Complete(Checkout[p])'
  BY CheckoutFiles DEF Grows, Done, Complete, Matches
<1>2. ASSUME NEW recorded \in Rows
      PROVE  Read(recorded) => Read(recorded)'
  BY DEF Grows, Read
<1> QED
  BY <1>1, <1>2

(* A process that does not move keeps what it knows. *)
LEMMA StillMigrator ==
  ASSUME MigrationInv, Grows, NEW m \in Migrators, migrators'[m] = migrators[m]
  PROVE  MigratorOK(m)'
<1>1. MigratorOK(m) /\ migrators[m] \in MigratorStates
  BY DEF MigrationInv, MigrationTypeOK
<1>2. migrators[m].recorded \in Rows
  BY <1>1 DEF MigratorStates
<1>3. \A pc : At(m, pc)' <=> At(m, pc)
  BY DEF At
<1>4. auth => auth'
  BY DEF Grows
<1> QED
  BY <1>1, <1>2, <1>3, <1>4, GrowsKeeps DEF MigratorOK

LEMMA StillChecker ==
  ASSUME MigrationInv, Grows, NEW k \in Checkers, checkers'[k] = checkers[k]
  PROVE  CheckerOK(k)'
<1>1. CheckerOK(k) /\ checkers[k] \in CheckerStates
  BY DEF MigrationInv, MigrationTypeOK
<1>2. checkers[k].recorded \in Rows
  BY <1>1 DEF CheckerStates
<1> QED
  BY <1>1, <1>2, GrowsKeeps DEF CheckerOK

(* Only one process moves. *)
LEMMA OneMigratorMoves ==
  ASSUME MigrationInv, MigrationTypeOK', Grows, NEW m \in Migrators,
         \A n \in Migrators \ {m} : migrators'[n] = migrators[n],
         checkers' = checkers,
         \A f \in Files : history'[f] # Unapplied => auth',
         MigratorOK(m)'
  PROVE  MigrationInv'
<1>1. ASSUME NEW n \in Migrators
      PROVE  MigratorOK(n)'
  BY StillMigrator
<1>2. ASSUME NEW k \in Checkers
      PROVE  CheckerOK(k)'
  BY StillChecker
<1> QED
  BY <1>1, <1>2 DEF MigrationInv

LEMMA GoesWhere ==
  ASSUME MigrationTypeOK, NEW m \in Migrators, NEW pc \in PCs, Goes(m, pc)
  PROVE  /\ migrators' \in [Migrators -> MigratorStates]
         /\ \A n \in Migrators \ {m} : migrators'[n] = migrators[n]
         /\ migrators'[m].pc = pc
BY DEF MigrationTypeOK, MigratorStates, Goes

(* The steps of a migrator that leave the database alone. *)
LEMMA QuietStep ==
  ASSUME MigrationInv, NEW m \in Migrators,
         UNCHANGED <<dbVars, checkers>>,
         migrators' \in [Migrators -> MigratorStates],
         \A n \in Migrators \ {m} : migrators'[n] = migrators[n],
         MigratorOK(m)'
  PROVE  MigrationInv'
<1>1. MigrationTypeOK'
  BY DEF MigrationInv, MigrationTypeOK, dbVars
<1>2. Grows
  BY DEF Grows, dbVars
<1>3. \A f \in Files : history'[f] # Unapplied => auth'
  BY DEF MigrationInv, dbVars
<1> QED
  BY <1>1, <1>2, <1>3, OneMigratorMoves DEF dbVars

LEMMA StartAndEnd ==
  ASSUME MigrationInv, NEW m \in Migrators,
         Start(m) \/ TakeLock(m) \/ Fails(m) \/ Crashes(m)
  PROVE  MigrationInv'
<1> USE DEF MigrationInv
<1>1. CASE Start(m)
  <2>1. /\ migrators' \in [Migrators -> MigratorStates]
        /\ \A n \in Migrators \ {m} : migrators'[n] = migrators[n]
        /\ migrators'[m].pc = "waiting"
    BY <1>1 DEF Start, MigrationTypeOK, MigratorStates, PCs
  <2> QED
    BY <1>1, <2>1, QuietStep DEF Start, MigratorOK, At
<1>2. ASSUME NEW pc \in {"failed", "crashed"}, Goes(m, pc), UNCHANGED <<dbVars, checkers>>
      PROVE  MigrationInv'
  <2>1. pc \in PCs
    BY DEF PCs
  <2> QED
    BY <1>2, <2>1, GoesWhere, QuietStep DEF MigratorOK, At
<1>3. CASE Fails(m) \/ Crashes(m)
  BY <1>2, <1>3 DEF Fails, Crashes
<1>4. CASE TakeLock(m)
  <2>1. ASSUME NEW pc \in {"app", "auth"}, Goes(m, pc), pc = "app" => Target[m] = "app",
               UNCHANGED <<dbVars, checkers>>
        PROVE  MigrationInv'
    <3>1. pc \in PCs
      BY DEF PCs
    <3> QED
      BY <2>1, <3>1, GoesWhere, QuietStep DEF MigratorOK, At
  <2>2. CASE Target[m] = "app"
    BY <1>4, <2>1, <2>2 DEF TakeLock
  <2>3. CASE Target[m] # "app"
    BY <1>4, <2>1, <2>3 DEF TakeLock
  <2> QED
    BY <2>2, <2>3
<1> QED
  BY <1>1, <1>3, <1>4

LEMMA AuthSteps ==
  ASSUME MigrationInv, NEW m \in Migrators, PlanAuth(m) \/ MigrateAuth(m)
  PROVE  MigrationInv'
<1> USE DEF MigrationInv
<1>1. CASE PlanAuth(m)
  <2>1. /\ migrators' \in [Migrators -> MigratorStates]
        /\ \A n \in Migrators \ {m} : migrators'[n] = migrators[n]
        /\ migrators'[m].pc = "ddl" /\ migrators'[m].plan = ~auth
    BY <1>1, ZenonT(40) DEF PlanAuth, MigrationTypeOK, MigratorStates, PCs
  <2>2. auth' = auth
    BY <1>1 DEF PlanAuth, dbVars
  <2>3. MigratorOK(m)'
    BY <2>1, <2>2 DEF MigratorOK, At
  <2> QED
    BY <1>1, <2>1, <2>3, QuietStep DEF PlanAuth
<1>2. CASE MigrateAuth(m)
  <2>1. MigratorOK(m) /\ migrators[m].plan \in BOOLEAN
    BY DEF MigrationTypeOK, MigratorStates
  <2>2. auth' = (auth \/ migrators[m].plan) /\ (~migrators[m].plan => auth)
    BY <1>2, <2>1 DEF MigrateAuth, MigratorOK
  <2>3. auth'
    BY <2>1, <2>2, Zenon
  <2>4. Grows
    BY <1>2, <2>3 DEF MigrateAuth, Grows
  <2>5. PICK pc \in {"unlock", "app"} : /\ Goes(m, pc)
                                        /\ pc = "unlock" => Target[m] = "auth"
    BY <1>2 DEF MigrateAuth
  <2>6. pc \in PCs
    BY DEF PCs
  <2>7. /\ migrators' \in [Migrators -> MigratorStates]
        /\ \A n \in Migrators \ {m} : migrators'[n] = migrators[n]
        /\ migrators'[m].pc = pc
    BY <2>5, <2>6, GoesWhere
  <2>8. MigrationTypeOK'
    BY <1>2, <2>2, <2>7 DEF MigrateAuth, MigrationTypeOK
  <2>9. MigratorOK(m)'
    BY <2>3, <2>5, <2>7 DEF MigratorOK, At
  <2> QED
    BY <1>2, <2>3, <2>4, <2>7, <2>8, <2>9, OneMigratorMoves DEF MigrateAuth
<1> QED
  BY <1>1, <1>2

LEMMA ReadHistoryStep ==
  ASSUME MigrationInv, NEW m \in Migrators, ReadHistory(m)
  PROVE  MigrationInv'
<1> USE DEF MigrationInv
<1>1. /\ migrators' \in [Migrators -> MigratorStates]
      /\ \A n \in Migrators \ {m} : migrators'[n] = migrators[n]
      /\ migrators'[m].pc = "files" /\ migrators'[m].recorded = history
      /\ migrators'[m].past = {}
  BY ZenonT(40) DEF ReadHistory, MigrationTypeOK, MigratorStates, PCs
<1>2. auth' = auth /\ history' = history /\ runs' = runs /\ checkers' = checkers /\ table' = TRUE
  BY DEF ReadHistory
<1>3. MigrationTypeOK'
  BY <1>1, <1>2 DEF MigrationTypeOK
<1>4. Grows
  BY <1>2 DEF Grows
<1>5. MigratorOK(m)'
  BY <1>1, <1>2 DEF ReadHistory, MigratorOK, At, Read
<1> QED
  BY <1>1, <1>2, <1>3, <1>4, <1>5, OneMigratorMoves

LEMMA PassesWhere ==
  ASSUME MigrationTypeOK, NEW m \in Migrators, NEW f \in Files, Passes(m, f)
  PROVE  /\ migrators' \in [Migrators -> MigratorStates]
         /\ \A n \in Migrators \ {m} : migrators'[n] = migrators[n]
         /\ migrators'[m].pc = migrators[m].pc
         /\ migrators'[m].recorded = migrators[m].recorded
         /\ migrators'[m].past = migrators[m].past \union {f}
BY DEF MigrationTypeOK, MigratorStates, Passes

(* A file that is done may be passed. *)
LEMMA PassingKeeps ==
  ASSUME MigrationInv, Grows, NEW m \in Migrators, NEW f \in DOMAIN Checkout[m],
         Passes(m, f), At(m, "files"), Done(Checkout[m], f)'
  PROVE  MigratorOK(m)'
<1>1. f \in Files
  BY CheckoutFiles
<1>2. /\ migrators'[m].pc = "files"
      /\ migrators'[m].recorded = migrators[m].recorded
      /\ migrators'[m].past = migrators[m].past \union {f}
  BY <1>1, PassesWhere DEF MigrationInv, At
<1>3. MigratorOK(m) /\ migrators[m].recorded \in Rows
  BY DEF MigrationInv, MigrationTypeOK, MigratorStates
<1>4. Read(migrators[m].recorded)'
  <2>1. Read(migrators[m].recorded)
    BY <1>3 DEF MigratorOK
  <2> QED
    BY <1>2, <1>3, <2>1 DEF Read, Grows
<1>5. Target[m] = "app" \/ auth'
  BY <1>3 DEF MigratorOK, Grows
<1>6. ASSUME NEW g \in migrators'[m].past
      PROVE  g \in DOMAIN Checkout[m] /\ Done(Checkout[m], g)'
  <2>1. CASE g = f
    BY <2>1
  <2>2. CASE g \in migrators[m].past
    BY <1>3, <2>2, GrowsKeeps DEF MigratorOK
  <2> QED
    BY <1>2, <2>1, <2>2
<1> QED
  BY <1>2, <1>4, <1>5, <1>6 DEF MigratorOK, At

LEMMA SkipFileStep ==
  ASSUME MigrationInv, NEW m \in Migrators, NEW f \in Files, SkipFile(m, f)
  PROVE  MigrationInv'
<1> USE DEF MigrationInv
<1>1. At(m, "files") /\ f \in DOMAIN Checkout[m] /\ Passes(m, f)
      /\ UNCHANGED <<dbVars, checkers>>
  BY DEF SkipFile, IsNext, Left
<1>2. Grows
  BY <1>1 DEF Grows, dbVars
<1>3. history[f] = migrators[m].recorded[f] /\ history[f] # Unapplied
  BY <1>1 DEF SkipFile, Recorded, MigratorOK, Read
<1>4. Done(Checkout[m], f)'
  BY <1>1, <1>3 DEF SkipFile, Done, Matches, dbVars
<1>5. MigratorOK(m)'
  BY <1>1, <1>2, <1>4, PassingKeeps
<1> QED
  BY <1>1, <1>5, PassesWhere, QuietStep

LEMMA ApplyFileStep ==
  ASSUME MigrationInv, NEW m \in Migrators, NEW f \in Files,
         ApplyFile(m, f) \/ AnswerIsLost(m, f)
  PROVE  MigrationInv'
<1> USE DEF MigrationInv
<1>1. Commits(m, f) /\ At(m, "files") /\ checkers' = checkers
  BY DEF ApplyFile, AnswerIsLost, Commits, IsNext
<1>2. /\ Grows
      /\ history' \in Rows /\ runs' \in [Files -> Nat]
      /\ f \in DOMAIN Checkout[m] /\ history'[f] = Checkout[m][f]
      /\ Checkout[m][f] # Unapplied
      /\ \A g \in Files : history'[g] # Unapplied => auth'
  BY <1>1, CommitsGrow
<1>3. auth' = auth /\ table' = table
  BY <1>1 DEF Commits
<1>4. CASE ApplyFile(m, f)
  <2>1. Passes(m, f)
    BY <1>4 DEF ApplyFile
  <2>2. MigrationTypeOK'
    BY <1>1, <1>2, <1>3, <2>1, PassesWhere DEF MigrationTypeOK
  <2>3. Done(Checkout[m], f)'
    BY <1>2 DEF Done, Matches
  <2>4. MigratorOK(m)'
    BY <1>1, <1>2, <2>1, <2>3, PassingKeeps
  <2> QED
    BY <1>1, <1>2, <2>1, <2>2, <2>4, PassesWhere, OneMigratorMoves
<1>5. CASE AnswerIsLost(m, f)
  <2>1. Goes(m, "failed") /\ "failed" \in PCs
    BY <1>5 DEF AnswerIsLost, PCs
  <2>2. MigrationTypeOK'
    BY <1>1, <1>2, <1>3, <2>1, GoesWhere DEF MigrationTypeOK
  <2>3. MigratorOK(m)'
    BY <2>1, GoesWhere DEF MigratorOK, At
  <2> QED
    BY <1>1, <1>2, <2>1, <2>2, <2>3, GoesWhere, OneMigratorMoves
<1> QED
  BY <1>4, <1>5

LEMMA MigrateAppStep ==
  ASSUME MigrationInv, NEW m \in Migrators, MigrateApp(m)
  PROVE  MigrationInv'
<1> USE DEF MigrationInv
<1>1. At(m, "files") /\ Left(m) = {} /\ Goes(m, "unlock") /\ UNCHANGED <<dbVars, checkers>>
  BY DEF MigrateApp
<1>2. \A f \in DOMAIN Checkout[m] : Done(Checkout[m], f)
  BY <1>1 DEF Left, MigratorOK
<1>3. auth
  BY <1>2, CheckoutFiles DEF Done
<1>4. Complete(Checkout[m])'
  BY <1>1, <1>2, <1>3 DEF Complete, Done, dbVars, Matches
<1>5. "unlock" \in PCs
  BY DEF PCs
<1>6. MigratorOK(m)'
  BY <1>1, <1>4, <1>5, GoesWhere DEF MigratorOK, At
<1> QED
  BY <1>1, <1>5, <1>6, GoesWhere, QuietStep

LEMMA UnlockStep ==
  ASSUME MigrationInv, NEW m \in Migrators, Unlock(m)
  PROVE  MigrationInv'
<1> USE DEF MigrationInv
<1>1. UNCHANGED <<dbVars, checkers>> /\ At(m, "unlock")
  BY DEF Unlock
<1>2. PICK pc \in {"done", "failed"} : Goes(m, pc)
  BY DEF Unlock
<1>3. pc \in PCs
  BY DEF PCs
<1>4. Grows
  BY <1>1 DEF Grows, dbVars
<1>5. Target[m] = "auth" \/ Complete(Checkout[m])'
  BY <1>1, <1>4, GrowsKeeps DEF MigratorOK
<1>6. MigratorOK(m)'
  BY <1>2, <1>3, <1>5, GoesWhere DEF MigratorOK, At
<1> QED
  BY <1>1, <1>2, <1>3, <1>6, GoesWhere, QuietStep

LEMMA LockIsLostStep ==
  ASSUME MigrationInv, NEW m \in Migrators, LockIsLost(m)
  PROVE  MigrationInv'
<1>1. migrators' = migrators /\ UNCHANGED <<dbVars, checkers>>
  BY DEF LockIsLost
<1>2. Grows
  BY <1>1 DEF Grows, dbVars
<1>3. MigratorOK(m)'
  BY <1>1, <1>2, StillMigrator
<1> QED
  BY <1>1, <1>3, QuietStep DEF MigrationInv, MigrationTypeOK

LEMMA OneCheckerMoves ==
  ASSUME MigrationInv, NEW k \in Checkers,
         UNCHANGED <<dbVars, migrators>>,
         checkers' \in [Checkers -> CheckerStates],
         \A l \in Checkers \ {k} : checkers'[l] = checkers[l],
         CheckerOK(k)'
  PROVE  MigrationInv'
<1>1. Grows
  BY DEF Grows, dbVars
<1>2. MigrationTypeOK'
  BY DEF MigrationInv, MigrationTypeOK, dbVars
<1>3. \A m \in Migrators : MigratorOK(m)'
  BY <1>1, StillMigrator
<1>4. \A l \in Checkers : CheckerOK(l)'
  BY <1>1, StillChecker
<1>5. \A f \in Files : history'[f] # Unapplied => auth'
  BY DEF MigrationInv, dbVars
<1> QED
  BY <1>2, <1>3, <1>4, <1>5 DEF MigrationInv

LEMMA CheckerStep ==
  ASSUME MigrationInv, NEW k \in Checkers, CheckerNext(k)
  PROVE  MigrationInv'
<1> USE DEF MigrationInv
<1>1. checkers[k] \in CheckerStates /\ checkers[k].recorded \in Rows /\ history \in Rows
      /\ table \in BOOLEAN
  BY DEF MigrationTypeOK, CheckerStates
<1>2. UNCHANGED <<dbVars, migrators>>
  BY DEF CheckerNext, CheckTable, CheckHistory, Report, CheckFails
<1>3. Grows
  BY <1>2 DEF Grows, dbVars
<1>4. checkers[k].report = "ok" => Complete(Checkout[k])'
  BY <1>3, GrowsKeeps DEF CheckerOK
<1>5. CASE CheckTable(k)
  <2>1. /\ checkers' \in [Checkers -> CheckerStates]
        /\ \A l \in Checkers \ {k} : checkers'[l] = checkers[l]
        /\ checkers'[k].pc = "table" /\ checkers'[k].report = checkers[k].report
    BY <1>1, <1>5 DEF CheckTable, MigrationTypeOK, CheckerStates
  <2>2. CheckerOK(k)'
    BY <1>4, <2>1 DEF CheckerOK
  <2> QED
    BY <1>2, <2>1, <2>2, OneCheckerMoves
<1>6. CASE CheckHistory(k)
  <2>1. PICK rows \in Rows :
          /\ checkers' = [checkers EXCEPT ![k].pc = "auth", ![k].recorded = rows]
          /\ rows \in {history, NoRows}
    <3>1. NoRows \in Rows
      BY DEF NoRows, Rows
    <3> QED
      BY <1>1, <1>6, <3>1 DEF CheckHistory
  <2>2. /\ checkers' \in [Checkers -> CheckerStates]
        /\ \A l \in Checkers \ {k} : checkers'[l] = checkers[l]
        /\ checkers'[k].pc = "auth" /\ checkers'[k].recorded = rows
        /\ checkers'[k].report = checkers[k].report
    BY <1>1, <2>1 DEF MigrationTypeOK, CheckerStates
  <2>3. Read(rows)'
    BY <1>2, <2>1 DEF Read, NoRows, dbVars
  <2>4. CheckerOK(k)'
    BY <1>4, <2>2, <2>3 DEF CheckerOK, Read
  <2> QED
    BY <1>2, <2>2, <2>4, OneCheckerMoves
<1>7. CASE Report(k)
  <2>1. PICK report \in {"ok", "drift"} :
          /\ checkers' = [checkers EXCEPT ![k].pc = "ended", ![k].report = report]
          /\ report = "ok" => auth /\ Pending(k) = {} /\ Mismatched(k) = {}
    BY <1>7 DEF Report
  <2>2. /\ checkers' \in [Checkers -> CheckerStates]
        /\ \A l \in Checkers \ {k} : checkers'[l] = checkers[l]
        /\ checkers'[k].pc = "ended" /\ checkers'[k].report = report
    BY <1>1, <2>1 DEF MigrationTypeOK, CheckerStates
  <2>3. ASSUME report = "ok"
        PROVE  Complete(Checkout[k])'
    <3>1. Read(checkers[k].recorded)
      BY <1>7 DEF Report, CheckerOK
    <3>2. ASSUME NEW f \in DOMAIN Checkout[k]
          PROVE  /\ checkers[k].recorded[f] # Unapplied
                 /\ Matches(f, Checkout[k][f], checkers[k].recorded[f])
      BY <2>1, <2>3 DEF Pending, Mismatched
    <3>3. Complete(Checkout[k])
      BY <2>1, <2>3, <3>1, <3>2, CheckoutFiles DEF Complete, Read
    <3> QED
      BY <1>3, <3>3, GrowsKeeps
  <2>4. CheckerOK(k)'
    BY <2>2, <2>3 DEF CheckerOK
  <2> QED
    BY <1>2, <2>2, <2>4, OneCheckerMoves
<1>8. CASE CheckFails(k)
  <2>1. /\ checkers' \in [Checkers -> CheckerStates]
        /\ \A l \in Checkers \ {k} : checkers'[l] = checkers[l]
        /\ checkers'[k].pc = "ended" /\ checkers'[k].report = "unavailable"
    BY <1>1, <1>8 DEF CheckFails, MigrationTypeOK, CheckerStates
  <2>2. CheckerOK(k)'
    BY <2>1 DEF CheckerOK
  <2> QED
    BY <1>2, <2>1, <2>2, OneCheckerMoves
<1> QED
  BY <1>5, <1>6, <1>7, <1>8 DEF CheckerNext

LEMMA StepInv == MigrationInv /\ [MigrationNext]_migrationVars => MigrationInv'
<1> SUFFICES ASSUME MigrationInv, [MigrationNext]_migrationVars
             PROVE  MigrationInv'
  OBVIOUS
<1>1. CASE UNCHANGED migrationVars
  <2>1. UNCHANGED <<dbVars, migrators, checkers>>
    BY <1>1 DEF migrationVars
  <2>2. Grows
    BY <2>1 DEF Grows, dbVars
  <2>3. /\ \A m \in Migrators : MigratorOK(m)'
        /\ \A k \in Checkers : CheckerOK(k)'
    BY <2>1, <2>2, StillMigrator, StillChecker
  <2> QED
    BY <2>1, <2>3 DEF MigrationInv, MigrationTypeOK, dbVars
<1>2. ASSUME NEW m \in Migrators, MigratorNext(m)
      PROVE  MigrationInv'
  BY <1>2, StartAndEnd, AuthSteps, ReadHistoryStep, SkipFileStep, ApplyFileStep,
     MigrateAppStep, UnlockStep, LockIsLostStep DEF MigratorNext
<1>3. ASSUME NEW k \in Checkers, CheckerNext(k)
      PROVE  MigrationInv'
  BY <1>3, CheckerStep
<1> QED
  BY <1>1, <1>2, <1>3 DEF MigrationNext

(* Every process is in a state the code can be in, what it has read are    *)
(* rows of schema_migrations, and what it has passed is done (migrate.ts). *)
THEOREM MigrationInvHolds == MigrationSpec => []MigrationInv
<1>1. MigrationInit => MigrationInv
  BY InitialInv
<1>2. MigrationInv /\ [MigrationNext]_migrationVars => MigrationInv'
  BY StepInv
<1> QED
  BY <1>1, <1>2, PTL DEF MigrationSpec

(* A migration that reports success and a check that reports "ok" have the *)
(* schema of their checkout, for any processes, files and failures         *)
(* (migrate.ts, schema-check.ts).                                          *)
THEOREM ReportsAlwaysStand == MigrationSpec => []ReportsStand
<1>1. MigrationInv => ReportsStand
  BY DEF MigrationInv, MigratorOK, CheckerOK, ReportsStand
<1> QED
  BY <1>1, MigrationInvHolds, PTL

(* The processes implement SchemaHistory: a step either creates the tables *)
(* of the authentication, or applies the next file of a checkout, or       *)
(* changes nothing of the database that SchemaHistory knows (migrate.ts).  *)
THEOREM MigrationImplementsSchemaHistory == MigrationSpec => HistoryGrowsInOrder
<1>1. MigrationInit => Promised!SchemaInit
  BY DEF MigrationInit, Promised!SchemaInit, NoRows
<1>2. MigrationInv /\ [MigrationNext]_migrationVars => [Promised!SchemaNext]_(Promised!schemaVars)
  <2> SUFFICES ASSUME MigrationInv, [MigrationNext]_migrationVars
               PROVE  [Promised!SchemaNext]_(Promised!schemaVars)
    OBVIOUS
  <2> DEFINE Same == auth' = auth /\ history' = history /\ runs' = runs
  <2>1. Same => UNCHANGED Promised!schemaVars
    BY DEF Promised!schemaVars
  <2>2. CASE UNCHANGED migrationVars
    BY <2>1, <2>2 DEF migrationVars, dbVars
  <2>3. ASSUME NEW k \in Checkers, CheckerNext(k)
        PROVE  Same
    BY <2>3 DEF CheckerNext, CheckTable, CheckHistory, Report, CheckFails, dbVars
  <2>4. ASSUME NEW m \in Migrators, NEW f \in Files, Commits(m, f)
        PROVE  Promised!SchemaNext
    <3>1. f \in DOMAIN Checkout[m]
      BY <2>4 DEF Commits, IsNext, Left
    <3>2. ASSUME NEW g \in DOMAIN Checkout[m], g < f
          PROVE  history[g] # Unapplied
      <4>1. g \in Nat /\ f \in Nat
        BY MigrationAssumption
      <4>2. g \in migrators[m].past
        BY <2>4, <3>2, <4>1 DEF Commits, IsNext, Left
      <4> QED
        BY <2>4, <4>2 DEF Commits, IsNext, MigrationInv, MigratorOK, Done
    <3>3. Promised!Apply(Checkout[m], f)
      BY <2>4, <3>1, <3>2 DEF Commits, Promised!Apply
    <3> QED
      BY <3>1, <3>3 DEF Promised!SchemaNext
  <2>5. ASSUME NEW m \in Migrators, MigrateAuth(m)
        PROVE  Promised!SchemaNext \/ Same
    <3>1. auth' = (auth \/ migrators[m].plan) /\ history' = history /\ runs' = runs
      BY <2>5 DEF MigrateAuth
    <3>2. auth \in BOOLEAN /\ migrators[m].plan \in BOOLEAN
      BY DEF MigrationInv, MigrationTypeOK, MigratorStates
    <3>3. auth' = TRUE \/ auth' = auth
      BY <3>1, <3>2, Zenon
    <3> QED
      BY <3>1, <3>3 DEF Promised!SchemaNext, Promised!CreateAuth
  <2>6. ASSUME NEW m \in Migrators, MigratorNext(m)
        PROVE  Promised!SchemaNext \/ Same
    <3>1. CASE \/ Start(m) \/ TakeLock(m) \/ PlanAuth(m) \/ ReadHistory(m)
               \/ \E f \in Files : SkipFile(m, f)
               \/ MigrateApp(m) \/ Unlock(m) \/ Fails(m) \/ Crashes(m) \/ LockIsLost(m)
      BY <3>1 DEF Start, TakeLock, PlanAuth, ReadHistory, SkipFile, MigrateApp, Unlock, Fails,
                  Crashes, LockIsLost, dbVars
    <3>2. CASE \E f \in Files : ApplyFile(m, f) \/ AnswerIsLost(m, f)
      BY <2>4, <3>2 DEF ApplyFile, AnswerIsLost
    <3> QED
      BY <2>5, <2>6, <3>1, <3>2 DEF MigratorNext
  <2> QED
    BY <2>1, <2>2, <2>3, <2>6 DEF MigrationNext
<1> QED
  BY <1>1, <1>2, MigrationInvHolds, PTL DEF MigrationSpec, HistoryGrowsInOrder, Promised!SchemaSpec

-----------------------------------------------------------------------------
SeederStates ==
  [pc : {"start", "locking", "reading", "writing", "lingering", "ended"},
   locked : SUBSET Nat, marked : SUBSET Nat,
   told : {"nothing", "ok", "failed", "OWNERSHIP_INVALID", "COMMIT_OUTCOME_UNKNOWN"},
   committed : BOOLEAN]

SeedTypeOK ==
  /\ goals \subseteq DOMAIN madeBy /\ DOMAIN madeBy \subseteq 1 .. MaxGoals
  /\ madeBy = [g \in DOMAIN madeBy |-> madeBy[g]]
  /\ markers \in [Slots -> Nat \union {NoMarker}]
  /\ installed \in [Slots -> Nat \union {NoMarker}]
  /\ seeders \in [Seeders -> SeederStates]

(* A seeder that is still to commit holds the account's lock, and what it  *)
(* has locked and read are the marked goals.                               *)
LocksHold(s) ==
  /\ Open(s) => \A t \in Seeders \ {s} : ~Open(t)
  /\ Seeding(s, "reading") \/ Seeding(s, "writing") => seeders[s].locked = Marked
  /\ Seeding(s, "writing") => seeders[s].marked = Marked

(* What a seeder has told, and when. *)
ToldOK(s) ==
  /\ seeders[s].told # "OWNERSHIP_INVALID"
  /\ seeders[s].told = "ok" => seeders[s].committed
  /\ seeders[s].committed => seeders[s].told \in {"ok", "COMMIT_OUTCOME_UNKNOWN"}
                             /\ Seeding(s, "ended")

GoalsOK ==
  /\ Marked \subseteq goals
  /\ \A g \in goals : madeBy[g] # "owner" <=> g \in Marked
  /\ \A g \in DOMAIN madeBy \ goals : madeBy[g] = "owner" => g \in deleted

(* What was installed is whole, and what is missing of it was deleted.     *)
InstalledOK ==
  /\ NothingInstalled \/ \E s \in Seeders : InstalledBy(s)
  /\ \A x \in Slots :
       \/ markers[x] = installed[x]
       \/ markers[x] = NoMarker /\ installed[x] \in deleted

SeedInv ==
  /\ SeedTypeOK /\ GoalsOK /\ InstalledOK
  /\ \A s \in Seeders : LocksHold(s) /\ ToldOK(s)

-----------------------------------------------------------------------------

LEMMA InitialSeed == SeedInit => SeedInv
<1> SUFFICES ASSUME SeedInit
             PROVE  SeedInv
  OBVIOUS
<1>1. Marked = {}
  BY DEF SeedInit, Marked
<1>2. SeedTypeOK
  <2>1. madeBy = <<>> /\ goals = {} /\ DOMAIN madeBy = {}
    BY DEF SeedInit
  <2>2. seeders \in [Seeders -> SeederStates]
    BY DEF SeedInit, SeederStates
  <2>3. markers \in [Slots -> Nat \union {NoMarker}] /\ installed = markers
    BY DEF SeedInit
  <2>4. madeBy = [g \in DOMAIN madeBy |-> madeBy[g]]
    BY <2>1
  <2> QED
    BY <2>1, <2>2, <2>3, <2>4 DEF SeedTypeOK
<1>3. GoalsOK
  BY <1>1 DEF SeedInit, GoalsOK
<1>4. \A s \in Seeders : LocksHold(s) /\ ToldOK(s)
  BY DEF SeedInit, LocksHold, ToldOK, Open, Seeding
<1>5. InstalledOK
  BY DEF SeedInit, InstalledOK, NothingInstalled
<1> QED
  BY <1>2, <1>3, <1>4, <1>5 DEF SeedInv

(* The steps of a seeder that write nothing. *)
LEMMA QuietSeeder ==
  ASSUME SeedInv, NEW s \in Seeders, UNCHANGED <<goals, markers, madeBy, installed, deleted>>,
         seeders' \in [Seeders -> SeederStates],
         \A t \in Seeders \ {s} : seeders'[t] = seeders[t],
         Open(s)' => Open(s) \/ MayLockAccount(s),
         Seeding(s, "reading")' \/ Seeding(s, "writing")' => seeders'[s].locked = Marked,
         Seeding(s, "writing")' => seeders'[s].marked = Marked,
         seeders'[s].committed = seeders[s].committed, ToldOK(s)'
  PROVE  SeedInv'
<1>1. Marked' = Marked
  BY DEF Marked
<1>2. SeedTypeOK' /\ GoalsOK'
  BY <1>1 DEF SeedInv, SeedTypeOK, GoalsOK
<1>3. ASSUME NEW t \in Seeders
      PROVE  LocksHold(t)'
  <2>1. LocksHold(t) /\ LocksHold(s)
    BY DEF SeedInv
  <2>2. CASE t = s
    BY <1>1, <2>1, <2>2 DEF LocksHold, Open, Seeding, MayLockAccount
  <2>3. CASE t # s
    BY <1>1, <2>1, <2>3 DEF LocksHold, Open, Seeding, MayLockAccount
  <2> QED
    BY <2>2, <2>3
<1>4. ASSUME NEW t \in Seeders
      PROVE  ToldOK(t)'
  BY DEF SeedInv, ToldOK, Seeding
<1>5. InstalledOK'
  <2>1. \A t \in Seeders : seeders'[t].committed = seeders[t].committed
    OBVIOUS
  <2> QED
    BY <2>1 DEF SeedInv, InstalledOK, NothingInstalled, InstalledBy
<1> QED
  BY <1>2, <1>3, <1>4, <1>5 DEF SeedInv

LEMMA TellsWhere ==
  ASSUME SeedTypeOK, NEW s \in Seeders,
         NEW told \in {"nothing", "ok", "failed", "OWNERSHIP_INVALID", "COMMIT_OUTCOME_UNKNOWN"},
         NEW pc \in {"start", "locking", "reading", "writing", "lingering", "ended"},
         Tells(s, told, pc)
  PROVE  /\ seeders' \in [Seeders -> SeederStates]
         /\ \A t \in Seeders \ {s} : seeders'[t] = seeders[t]
         /\ seeders'[s].told = told /\ seeders'[s].pc = pc
         /\ seeders'[s].committed = seeders[s].committed
<1> DEFINE moved == [seeders[s] EXCEPT !.told = told, !.pc = pc]
<1>1. seeders[s] \in SeederStates
  BY DEF SeedTypeOK
<1>2. moved \in SeederStates
  BY <1>1 DEF SeederStates
<1>3. /\ moved.told = told /\ moved.pc = pc /\ moved.committed = seeders[s].committed
  BY <1>1 DEF SeederStates
<1>4. seeders' = [seeders EXCEPT ![s] = moved]
  BY DEF SeedTypeOK, Tells
<1> HIDE DEF moved
<1> QED
  BY <1>2, <1>3, <1>4 DEF SeedTypeOK

LEMMA QuietSteps ==
  ASSUME SeedInv, NEW s \in Seeders,
         \/ Refuse(s) \/ LockAccount(s) \/ LockGoals(s) \/ ReadMarkers(s)
         \/ CommitNotDone(s) \/ Fail(s) \/ ServerAborts(s)
  PROVE  SeedInv'
<1> USE DEF SeedInv
<1>1. UNCHANGED <<goals, markers, madeBy, installed, deleted>>
  BY DEF Refuse, LockAccount, LockGoals, ReadMarkers, CommitNotDone, Fail, ServerAborts
<1>2. ToldOK(s) /\ LocksHold(s) /\ GoalsOK /\ seeders[s] \in SeederStates
  BY DEF SeedTypeOK
<1>3. CASE Refuse(s)
  <2>1. Seeding(s, "start") /\ Tells(s, "failed", "ended")
    BY <1>3 DEF Refuse
  <2>2. ToldOK(s)'
    BY <1>2, <2>1, TellsWhere DEF ToldOK, Seeding
  <2> QED
    BY <1>1, <2>1, <2>2, TellsWhere, QuietSeeder DEF Open, Seeding
<1>4. CASE LockAccount(s)
  <2>1. /\ seeders' \in [Seeders -> SeederStates]
        /\ \A t \in Seeders \ {s} : seeders'[t] = seeders[t]
        /\ seeders'[s].pc = "locking" /\ seeders'[s].told = seeders[s].told
        /\ seeders'[s].committed = seeders[s].committed
    BY <1>4 DEF LockAccount, SeedTypeOK, SeederStates
  <2>2. ToldOK(s)'
    BY <1>2, <1>4, <2>1 DEF LockAccount, ToldOK, Seeding
  <2> QED
    BY <1>1, <1>4, <2>1, <2>2, QuietSeeder DEF LockAccount, Seeding
<1>5. CASE LockGoals(s)
  <2>1. Marked \subseteq goals /\ goals \subseteq Nat
    BY <1>2, SeedAssumption DEF GoalsOK, SeedTypeOK
  <2>2. /\ seeders' \in [Seeders -> SeederStates]
        /\ \A t \in Seeders \ {s} : seeders'[t] = seeders[t]
        /\ seeders'[s].pc = "reading" /\ seeders'[s].told = seeders[s].told
        /\ seeders'[s].committed = seeders[s].committed /\ seeders'[s].locked = Marked
    BY <1>5, <2>1, ZenonT(40) DEF LockGoals, SeedTypeOK, SeederStates
  <2>3. ToldOK(s)'
    BY <1>2, <1>5, <2>2 DEF LockGoals, ToldOK, Seeding
  <2> QED
    BY <1>1, <1>5, <2>2, <2>3, QuietSeeder DEF LockGoals, Seeding, Open
<1>6. CASE ReadMarkers(s)
  <2>1. Marked \subseteq Nat
    BY <1>2, SeedAssumption DEF GoalsOK, SeedTypeOK
  <2>2. /\ seeders' \in [Seeders -> SeederStates]
        /\ \A t \in Seeders \ {s} : seeders'[t] = seeders[t]
        /\ seeders'[s].pc = "writing" /\ seeders'[s].told = seeders[s].told
        /\ seeders'[s].committed = seeders[s].committed
        /\ seeders'[s].locked = seeders[s].locked /\ seeders'[s].marked = Marked
    BY <1>6, <2>1 DEF ReadMarkers, SeedTypeOK, SeederStates
  <2>3. ToldOK(s)'
    BY <1>2, <1>6, <2>2 DEF ReadMarkers, ToldOK, Seeding
  <2>4. seeders[s].locked = Marked
    BY <1>2, <1>6 DEF ReadMarkers, LocksHold
  <2> QED
    BY <1>1, <1>6, <2>2, <2>3, <2>4, QuietSeeder DEF ReadMarkers, Seeding, Open
<1>7. CASE CommitNotDone(s)
  <2>1. Seeding(s, "writing") /\ Tells(s, "COMMIT_OUTCOME_UNKNOWN", "lingering")
    BY <1>7 DEF CommitNotDone, OutcomeOfCommit
  <2>2. ToldOK(s)'
    BY <1>2, <2>1, TellsWhere DEF ToldOK, Seeding
  <2> QED
    BY <1>1, <2>1, <2>2, TellsWhere, QuietSeeder DEF Open, Seeding
<1>8. CASE Fail(s)
  <2>1. PICK pc \in {"ended", "lingering"} : Tells(s, "failed", pc)
    BY <1>8 DEF Fail
  <2>2. ToldOK(s)'
    BY <1>2, <1>8, <2>1, TellsWhere DEF ToldOK, Seeding, Fail, Open
  <2> QED
    BY <1>1, <1>8, <2>1, <2>2, TellsWhere, QuietSeeder DEF Fail, Seeding
<1>9. CASE ServerAborts(s)
  <2>1. /\ seeders' \in [Seeders -> SeederStates]
        /\ \A t \in Seeders \ {s} : seeders'[t] = seeders[t]
        /\ seeders'[s].pc = "ended" /\ seeders'[s].told = seeders[s].told
        /\ seeders'[s].committed = seeders[s].committed
    BY <1>9 DEF ServerAborts, SeedTypeOK, SeederStates
  <2>2. ToldOK(s)'
    BY <1>2, <2>1 DEF ToldOK, Seeding
  <2> QED
    BY <1>1, <2>1, <2>2, QuietSeeder DEF Open, Seeding
<1> QED
  BY <1>3, <1>4, <1>5, <1>6, <1>7, <1>8, <1>9

LEMMA CommitsWhere ==
  ASSUME seeders \in [Seeders -> SeederStates], NEW s \in Seeders,
         NEW told \in {"ok", "COMMIT_OUTCOME_UNKNOWN"},
         seeders' = [seeders EXCEPT ![s].pc = "ended", ![s].told = told, ![s].committed = TRUE]
  PROVE  /\ seeders' \in [Seeders -> SeederStates]
         /\ \A t \in Seeders \ {s} : seeders'[t] = seeders[t]
         /\ seeders'[s].pc = "ended" /\ seeders'[s].told = told /\ seeders'[s].committed = TRUE
<1> DEFINE moved == [seeders[s] EXCEPT !.pc = "ended", !.told = told, !.committed = TRUE]
<1>1. /\ moved \in SeederStates
      /\ moved.pc = "ended" /\ moved.told = told /\ moved.committed = TRUE
  BY DEF SeederStates
<1>2. seeders' = [seeders EXCEPT ![s] = moved]
  OBVIOUS
<1> HIDE DEF moved
<1>3. seeders'[s] = moved /\ \A t \in Seeders \ {s} : seeders'[t] = seeders[t]
  BY <1>2
<1>4. seeders' \in [Seeders -> SeederStates]
  BY <1>1, <1>2
<1> QED
  BY <1>1, <1>3, <1>4

(* The commit of a seeder: the goals it has marked are replaced by its own. *)
LEMMA CommitStep ==
  ASSUME SeedInv, NEW s \in Seeders, Seeding(s, "writing"), Replaces(s),
         NEW told \in {"ok", "COMMIT_OUTCOME_UNKNOWN"},
         seeders' = [seeders EXCEPT ![s].pc = "ended", ![s].told = told, ![s].committed = TRUE]
  PROVE  SeedInv'
<1> USE DEF SeedInv
<1>1. GoalsOK /\ SeedTypeOK /\ seeders[s].marked = Marked /\ LocksHold(s)
  BY DEF LocksHold
<1>2. PICK id \in {f \in [Slots -> Fresh] : IsInjective(f)} :
        LET new == {id[x] : x \in Slots}
        IN /\ goals' = (goals \ Marked) \union new
           /\ markers' = id /\ installed' = id
           /\ Makes(new, s)
           /\ deleted' = deleted
  BY <1>1 DEF Replaces
<1> DEFINE new == {id[x] : x \in Slots}
<1>3. /\ new \subseteq 1 .. MaxGoals
      /\ \A g \in new : g \notin DOMAIN madeBy
      /\ \A x \in Slots : id[x] \in Nat
  BY SeedAssumption DEF Fresh
<1>4. Marked' = new
  BY <1>2, <1>3, SeedAssumption DEF Marked
<1>5. /\ goals' = (goals \ Marked) \union new
      /\ markers' = id /\ installed' = id /\ deleted' = deleted
      /\ madeBy' = [g \in DOMAIN madeBy \union new |-> IF g \in new THEN s ELSE madeBy[g]]
  BY <1>2 DEF Makes
<1>6. /\ seeders' \in [Seeders -> SeederStates]
      /\ \A t \in Seeders \ {s} : seeders'[t] = seeders[t]
      /\ seeders'[s].pc = "ended" /\ seeders'[s].told = told /\ seeders'[s].committed = TRUE
  BY <1>1, CommitsWhere DEF SeedTypeOK
<1>6a. \A x \in Slots : id[x] \in new
  OBVIOUS
<1> HIDE DEF new
<1>7. SeedTypeOK'
  <2>1. DOMAIN madeBy' = DOMAIN madeBy \union new
    BY <1>5
  <2>2. madeBy' = [g \in DOMAIN madeBy' |-> madeBy'[g]]
    BY <1>5
  <2>3. markers' \in [Slots -> Nat \union {NoMarker}] /\ installed' = markers'
    BY <1>3, <1>5
  <2> QED
    BY <1>1, <1>3, <1>5, <1>6, <2>1, <2>2, <2>3 DEF SeedTypeOK
<1>8. \A g \in DOMAIN madeBy \union new : madeBy'[g] = IF g \in new THEN s ELSE madeBy[g]
  BY <1>5
<1>9. s # "owner"
  BY SeedAssumption
<1>10. GoalsOK'
  <2>1. Marked' \subseteq goals'
    BY <1>4, <1>5
  <2>2. ASSUME NEW g \in goals'
        PROVE  madeBy'[g] # "owner" <=> g \in Marked'
    BY <1>1, <1>3, <1>4, <1>5, <1>8, <1>9 DEF GoalsOK, SeedTypeOK
  <2>3. ASSUME NEW g \in DOMAIN madeBy' \ goals', madeBy'[g] = "owner"
        PROVE  g \in deleted'
    <3>1. g \in DOMAIN madeBy /\ g \notin new /\ madeBy[g] = "owner"
      BY <1>5, <1>8, <1>9, <2>3
    <3>2. g \notin goals
      BY <1>1, <1>5, <2>3, <3>1 DEF GoalsOK
    <3> QED
      BY <1>1, <1>5, <3>1, <3>2 DEF GoalsOK
  <2> QED
    BY <2>1, <2>2, <2>3 DEF GoalsOK
<1>11. ASSUME NEW t \in Seeders
       PROVE  LocksHold(t)' /\ ToldOK(t)'
  <2>1. CASE t = s
    BY <1>6, <2>1 DEF LocksHold, ToldOK, Open, Seeding
  <2>2. CASE t # s
    <3>1. ~Open(t)
      BY <1>1, <2>2 DEF LocksHold, Open, Seeding
    <3>2. ToldOK(t)
      OBVIOUS
    <3> QED
      BY <1>6, <2>2, <3>1, <3>2 DEF LocksHold, ToldOK, Open, Seeding
  <2> QED
    BY <2>1, <2>2
<1>12. InstalledOK'
  <2>1. IsInjective(installed')
    BY <1>5
  <2>2. \A x \in Slots : installed'[x] \in DOMAIN madeBy' /\ madeBy'[installed'[x]] = s
    BY <1>5, <1>6a, <1>8
  <2>3. InstalledBy(s)'
    BY <1>6, <2>1, <2>2 DEF InstalledBy
  <2>4. markers' = installed'
    BY <1>5
  <2> QED
    BY <2>3, <2>4 DEF InstalledOK
<1> QED
  BY <1>7, <1>10, <1>11, <1>12

(* Both tests of the ownership succeed. *)
LEMMA NeverInvalid ==
  ASSUME SeedInv, NEW s \in Seeders, OwnershipInvalid(s)
  PROVE  FALSE
BY DEF SeedInv, OwnershipInvalid, Owned, LocksHold, GoalsOK

LEMMA OwnerCreatesStep ==
  ASSUME SeedInv, OwnerCreates
  PROVE  SeedInv'
<1> USE DEF SeedInv
<1>1. PICK g \in Fresh : /\ goals' = goals \union {g}
                         /\ Makes({g}, "owner")
                         /\ UNCHANGED <<markers, installed, deleted, seeders>>
  BY DEF OwnerCreates
<1>2. g \in 1 .. MaxGoals /\ g \notin DOMAIN madeBy
  BY DEF Fresh
<1>3. madeBy' = [h \in DOMAIN madeBy \union {g} |-> IF h \in {g} THEN "owner" ELSE madeBy[h]]
  BY <1>1 DEF Makes
<1>4. Marked' = Marked
  BY <1>1 DEF Marked
<1>5. SeedTypeOK'
  <2>1. madeBy' = [h \in DOMAIN madeBy' |-> madeBy'[h]] /\ DOMAIN madeBy' = DOMAIN madeBy \union {g}
    BY <1>3
  <2> QED
    BY <1>1, <1>2, <2>1 DEF SeedTypeOK
<1>6. GoalsOK'
  BY <1>1, <1>2, <1>3, <1>4 DEF GoalsOK, SeedTypeOK
<1>7. \A s \in Seeders : LocksHold(s)' /\ ToldOK(s)'
  BY <1>1, <1>4 DEF LocksHold, ToldOK, Open, Seeding
<1>8. InstalledOK'
  <2>1. /\ \A h \in DOMAIN madeBy : h \in DOMAIN madeBy' /\ madeBy'[h] = madeBy[h]
        /\ installed' = installed /\ markers' = markers
        /\ deleted' = deleted /\ seeders' = seeders
    BY <1>1, <1>2, <1>3
  <2> QED
    BY <2>1 DEF InstalledOK, NothingInstalled, InstalledBy
<1> QED
  BY <1>5, <1>6, <1>7, <1>8

LEMMA OwnerDeletesStep ==
  ASSUME SeedInv, OwnerDeletes
  PROVE  SeedInv'
<1> USE DEF SeedInv
<1>1. PICK g \in goals :
        /\ \A s \in Seeders : g \notin Locked(s)
        /\ goals' = goals \ {g}
        /\ markers' = [x \in Slots |-> IF markers[x] = g THEN NoMarker ELSE markers[x]]
        /\ deleted' = deleted \union {g}
        /\ UNCHANGED <<madeBy, installed, seeders>>
  BY DEF OwnerDeletes
<1>2. g # NoMarker /\ g \in Nat
  BY SeedAssumption DEF SeedTypeOK
<1>3. Marked' = Marked \ {g}
  BY <1>1, <1>2 DEF Marked
<1>4. SeedTypeOK'
  BY <1>1 DEF SeedTypeOK
<1>5. GoalsOK'
  BY <1>1, <1>3 DEF GoalsOK
<1>6. ASSUME NEW s \in Seeders, Seeding(s, "reading") \/ Seeding(s, "writing")
      PROVE  g \notin Marked
  BY <1>1, <1>6 DEF Locked, Open, Seeding, LocksHold
<1>7. \A s \in Seeders : LocksHold(s)' /\ ToldOK(s)'
  BY <1>1, <1>3, <1>6 DEF LocksHold, ToldOK, Open, Seeding
<1>8. InstalledOK'
  <2>1. NothingInstalled' \/ \E s \in Seeders : InstalledBy(s)'
    BY <1>1 DEF InstalledOK, NothingInstalled, InstalledBy
  <2>2. ASSUME NEW x \in Slots
        PROVE  \/ markers'[x] = installed'[x]
               \/ markers'[x] = NoMarker /\ installed'[x] \in deleted'
    BY <1>1 DEF InstalledOK
  <2> QED
    BY <2>1, <2>2 DEF InstalledOK
<1> QED
  BY <1>4, <1>5, <1>7, <1>8

LEMMA SeedStep == SeedInv /\ [SeedNext]_seedVars => SeedInv'
<1> SUFFICES ASSUME SeedInv, [SeedNext]_seedVars
             PROVE  SeedInv'
  OBVIOUS
<1>1. CASE UNCHANGED seedVars
  BY <1>1 DEF seedVars, SeedInv, SeedTypeOK, GoalsOK, InstalledOK, NothingInstalled, InstalledBy,
               LocksHold, ToldOK, Open, Seeding, Marked
<1>2. ASSUME NEW s \in Seeders, SeederNext(s)
      PROVE  SeedInv'
  <2>1. CASE Commit(s)
    BY <2>1, CommitStep DEF Commit
  <2>2. CASE CommitUnanswered(s)
    BY <2>2, CommitStep DEF CommitUnanswered, OutcomeOfCommit
  <2> QED
    BY <1>2, <2>1, <2>2, QuietSteps, NeverInvalid DEF SeederNext
<1> QED
  BY <1>1, <1>2, OwnerCreatesStep, OwnerDeletesStep DEF SeedNext

(* For any seeders, slots and moments of failure, what a committed seeder  *)
(* leaves is a goal of its own in every slot; an account has fewer only    *)
(* because its owner deleted the others.  The demonstration replaces only  *)
(* itself, and no seeder says that a COMMIT failed that was carried out    *)
(* (seed-demo.ts).                                                         *)
THEOREM SeedStaysAllOrNothing == SeedSpec => []SeedIsAllOrNothing
<1>1. SeedInit => SeedInv
  BY InitialSeed
<1>2. SeedInv /\ [SeedNext]_seedVars => SeedInv'
  BY SeedStep
<1>3. SeedInv => SeedIsAllOrNothing
  BY DEF SeedInv, GoalsOK, InstalledOK, SeedTypeOK, ToldOK, SeedIsAllOrNothing
<1> QED
  BY <1>1, <1>2, <1>3, PTL DEF SeedSpec

-----------------------------------------------------------------------------
Phases == {"migrating", "serving"} \union Closing \union Exits

RequestStates ==
  [pc : {"none", "running", "answered"}, client : BOOLEAN, holds : {"none"} \union Pools,
   task : {"none", "pending", "orphan", "ended", "lost"}, cut : BOOLEAN]

ContainerTypeOK ==
  /\ phase \in Phases
  /\ pools \in [Pools -> {"none", "open", "ending", "ended"}]
  /\ inFlight \in [Requests -> RequestStates]

Past(phases) == phase \in phases \union {"exit 0"}

PoolsOK ==
  /\ phase \in {"serving", "closing", "draining"} => pools["app"] = "open" /\ pools["auth"] = "open"
  /\ phase = "pool.end" => pools["app"] = "ending" /\ pools["auth"] = "open"
  /\ phase = "authPool.end" => pools["app"] = "ended" /\ pools["auth"] = "ending"

RequestOK(r) ==
  /\ phase = "migrating" => inFlight[r].pc = "none"
  /\ inFlight[r].pc = "none" => inFlight[r].holds = "none" /\ inFlight[r].task = "none"
  /\ Past({"draining", "pool.end", "authPool.end"}) /\ inFlight[r].pc = "running" =>
       ~inFlight[r].client
  /\ Past({"pool.end", "authPool.end"}) => inFlight[r].task # "pending"
  /\ Past({"authPool.end"}) => inFlight[r].holds # "app"
  /\ phase = "exit 0" => inFlight[r].holds = "none"
  /\ inFlight[r].task # "lost"
  /\ inFlight[r].cut => ~inFlight[r].client

ContainerInv ==
  /\ ContainerTypeOK /\ PoolsOK
  /\ \A r \in Requests : RequestOK(r)

(* The start that is alive is the one the requests share. *)
FunctionInv ==
  /\ starts \in [Starts -> {"none", "starting", "closing", "ready", "failed"}]
  /\ pending \in Starts \union {NoStart}
  /\ \A n \in Starts : starts[n] \in {"starting", "closing", "ready"} <=> pending = n

-----------------------------------------------------------------------------

LEMMA InitialServing == ServingInit => ContainerInv /\ FunctionInv
<1> SUFFICES ASSUME ServingInit
             PROVE  ContainerInv /\ FunctionInv
  OBVIOUS
<1>1. ContainerTypeOK
  BY DEF ServingInit, ContainerTypeOK, Phases, RequestStates
<1>2. PoolsOK
  BY DEF ServingInit, PoolsOK
<1>3. \A r \in Requests : RequestOK(r)
  BY DEF ServingInit, RequestOK, Past
<1>4. FunctionInv
  BY ServingAssumption DEF ServingInit, FunctionInv
<1> QED
  BY <1>1, <1>2, <1>3, <1>4 DEF ContainerInv

(* The steps of the process itself. *)
LEMMA PhaseStep ==
  ASSUME ContainerInv,
         \/ Listen \/ StartFails \/ Signal \/ Close \/ Drain \/ EndPool \/ EndAuthPool \/ Deadline
  PROVE  ContainerInv'
<1> USE DEF ContainerInv
<1>1. inFlight' = inFlight
  BY DEF Listen, StartFails, Signal, Close, Drain, EndPool, EndAuthPool, Deadline
<1>2. ContainerTypeOK' /\ PoolsOK'
  BY <1>1 DEF Listen, StartFails, Signal, Close, Drain, EndPool, EndAuthPool, Deadline,
              ContainerTypeOK, Phases, Closing, Exits, Pools, PoolsOK
<1>3. ASSUME NEW r \in Requests
      PROVE  RequestOK(r)'
  <2>1. RequestOK(r) /\ inFlight[r] \in RequestStates
    BY DEF ContainerTypeOK
  <2>2. CASE Listen \/ StartFails \/ Signal \/ Deadline
    BY <1>1, <2>1, <2>2 DEF Listen, StartFails, Signal, Deadline, RequestOK, Past, Closing
  <2>3. CASE Close
    BY <1>1, <2>1, <2>3 DEF Close, RequestOK, Past
  <2>4. CASE Drain
    BY <1>1, <2>1, <2>4 DEF Drain, Drained, RequestOK, Past
  <2>5. CASE EndPool
    BY <1>1, <2>1, <2>5 DEF EndPool, Idle, RequestOK, Past
  <2>6. CASE EndAuthPool
    BY <1>1, <2>1, <2>6 DEF EndAuthPool, Idle, RequestOK, Past, RequestStates, Pools
  <2> QED
    BY <2>2, <2>3, <2>4, <2>5, <2>6
<1> QED
  BY <1>2, <1>3

(* A step of one request. *)
LEMMA OneRequestMoves ==
  ASSUME ContainerInv, NEW r \in Requests, NEW moved \in RequestStates,
         phase' = phase, pools' = pools,
         inFlight' = [inFlight EXCEPT ![r] = moved],
         moved.pc = "none" => moved.holds = "none" /\ moved.task = "none",
         phase = "migrating" => moved.pc = "none",
         Past({"draining", "pool.end", "authPool.end"}) /\ moved.pc = "running" => ~moved.client,
         Past({"pool.end", "authPool.end"}) => moved.task # "pending",
         Past({"authPool.end"}) => moved.holds # "app",
         phase = "exit 0" => moved.holds = "none",
         moved.task # "lost",
         moved.cut => ~moved.client
  PROVE  ContainerInv'
<1> USE DEF ContainerInv
<1>1. ContainerTypeOK' /\ PoolsOK'
  BY DEF ContainerTypeOK, PoolsOK
<1>2. ASSUME NEW q \in Requests
      PROVE  RequestOK(q)'
  <2>1. inFlight'[q] = IF q = r THEN moved ELSE inFlight[q]
    BY DEF ContainerTypeOK
  <2> QED
    BY <2>1 DEF RequestOK, Past
<1> QED
  BY <1>1, <1>2

LEMMA RequestStep ==
  ASSUME ContainerInv, NEW r \in Requests,
         \/ Arrive(r) \/ Release(r) \/ HandOver(r) \/ TaskEnds(r) \/ Answer(r)
         \/ ClientLeaves(r) \/ \E p \in Pools : Connect(r, p)
  PROVE  ContainerInv'
<1>1. /\ inFlight \in [Requests -> RequestStates] /\ inFlight[r] \in RequestStates
      /\ RequestOK(r) /\ PoolsOK /\ phase \in Phases
  BY DEF ContainerInv, ContainerTypeOK
<1>2. phase' = phase /\ pools' = pools
  BY DEF Arrive, Release, HandOver, TaskEnds, Answer, ClientLeaves, Connect
<1>3. CASE Arrive(r)
  <2> DEFINE moved == [inFlight[r] EXCEPT !.pc = "running"]
  <2>1. moved \in RequestStates /\ inFlight' = [inFlight EXCEPT ![r] = moved]
    BY <1>1, <1>3 DEF Arrive, RequestStates
  <2> QED
    BY <1>1, <1>2, <1>3, <2>1, OneRequestMoves DEF Arrive, RequestOK, Past, RequestStates
<1>4. CASE Release(r)
  <2> DEFINE moved == [inFlight[r] EXCEPT !.holds = "none"]
  <2>1. moved \in RequestStates /\ inFlight' = [inFlight EXCEPT ![r] = moved]
    BY <1>1, <1>4 DEF Release, RequestStates
  <2> QED
    BY <1>1, <1>2, <2>1, OneRequestMoves DEF RequestOK, RequestStates
<1>5. CASE HandOver(r)
  <2> DEFINE moved == [inFlight[r] EXCEPT !.task = IF inFlight[r].client THEN "pending" ELSE "orphan"]
  <2>1. moved \in RequestStates /\ inFlight' = [inFlight EXCEPT ![r] = moved]
    BY <1>1, <1>5 DEF HandOver, RequestStates
  <2> QED
    BY <1>1, <1>2, <1>5, <2>1, OneRequestMoves DEF HandOver, Running, RequestOK, Past, RequestStates
<1>6. CASE TaskEnds(r)
  <2>1. phase # "migrating" /\ phase \notin Exits
    BY <1>1, <1>6 DEF TaskEnds, Alive, RequestOK
  <2>2. inFlight[r].task = "pending" => pools["auth"] = "open"
    BY <1>1, <2>1 DEF RequestOK, PoolsOK, Past, Phases, Closing
  <2> DEFINE moved == [inFlight[r] EXCEPT !.task = "ended"]
  <2>3. moved \in RequestStates /\ inFlight' = [inFlight EXCEPT ![r] = moved]
    BY <1>1, <1>6, <2>2 DEF TaskEnds, RequestStates
  <2> QED
    BY <1>1, <1>2, <1>6, <2>3, OneRequestMoves DEF TaskEnds, RequestOK, RequestStates
<1>7. CASE Answer(r)
  <2> DEFINE moved == [inFlight[r] EXCEPT !.pc = "answered"]
  <2>1. moved \in RequestStates /\ inFlight' = [inFlight EXCEPT ![r] = moved]
    BY <1>1, <1>7 DEF Answer, RequestStates
  <2> QED
    BY <1>1, <1>2, <1>7, <2>1, OneRequestMoves DEF Answer, Running, RequestOK, RequestStates
<1>8. CASE ClientLeaves(r)
  <2> DEFINE moved == [inFlight[r] EXCEPT !.client = FALSE]
  <2>1. moved \in RequestStates /\ inFlight' = [inFlight EXCEPT ![r] = moved]
    BY <1>1, <1>8 DEF ClientLeaves, RequestStates
  <2> QED
    BY <1>1, <1>2, <2>1, OneRequestMoves DEF RequestOK, RequestStates
<1>9. ASSUME NEW p \in Pools, Connect(r, p)
      PROVE  ContainerInv'
  <2>1. Running(r) /\ phase # "migrating" /\ phase \notin Exits
    BY <1>1, <1>9 DEF Connect, Running, Alive, RequestOK
  <2>2. CASE pools[p] = "open"
    <3> DEFINE moved == [inFlight[r] EXCEPT !.holds = p]
    <3>1. moved \in RequestStates /\ inFlight' = [inFlight EXCEPT ![r] = moved]
      BY <1>1, <1>9, <2>2 DEF Connect, RequestStates
    <3>2. phase # "exit 0" /\ (p = "app" => phase # "authPool.end")
      BY <1>1, <2>1, <2>2 DEF PoolsOK, Exits
    <3> QED
      BY <1>1, <1>2, <2>1, <3>1, <3>2, OneRequestMoves DEF Running, Past, RequestOK, RequestStates
  <2>3. CASE pools[p] # "open"
    <3> DEFINE moved == [inFlight[r] EXCEPT !.cut = TRUE]
    <3>1. moved \in RequestStates /\ inFlight' = [inFlight EXCEPT ![r] = moved]
      BY <1>1, <1>9, <2>3 DEF Connect, RequestStates
    <3>2. phase \in {"pool.end", "authPool.end"}
      BY <1>1, <2>1, <2>3 DEF PoolsOK, Phases, Closing, Pools
    <3>3. ~inFlight[r].client
      BY <1>1, <2>1, <3>2 DEF Running, Past, RequestOK
    <3> QED
      BY <1>1, <1>2, <3>1, <3>3, OneRequestMoves DEF RequestOK, RequestStates
  <2> QED
    BY <2>2, <2>3
<1> QED
  BY <1>3, <1>4, <1>5, <1>6, <1>7, <1>8, <1>9

LEMMA FunctionStep ==
  ASSUME FunctionInv, FunctionNext
  PROVE  FunctionInv'
<1>1. CASE \E r \in Requests : Share(r) \/ Serve(r)
  BY <1>1 DEF Share, Serve, FunctionInv
<1>2. ASSUME NEW r \in Requests, NEW n \in Starts, StartFor(r, n)
      PROVE  FunctionInv'
  BY <1>2, ServingAssumption DEF StartFor, FunctionInv
<1>3. ASSUME NEW n \in Starts, Ready(n) \/ StartThrows(n)
      PROVE  FunctionInv'
  BY <1>3 DEF Ready, StartThrows, FunctionInv
<1>4. ASSUME NEW n \in Starts, StartRejects(n)
      PROVE  FunctionInv'
  BY <1>4, ServingAssumption DEF StartRejects, Forget, FunctionInv
<1> QED
  BY <1>1, <1>2, <1>3, <1>4 DEF FunctionNext

(* Whatever clients wait for is done before the pools end, and one start   *)
(* of the function is alive, for any requests, starts and moments of a     *)
(* signal (server.ts, background.ts, vercel.ts).                           *)
THEOREM PoolsStaySound == ServingSpec => []PoolsAreSound
<1>1. ServingInit => ContainerInv /\ FunctionInv
  BY InitialServing
<1>2. ContainerInv /\ FunctionInv /\ [ServingNext]_<<containerVars, functionVars>>
        => ContainerInv' /\ FunctionInv'
  <2>1. ContainerInv /\ (UNCHANGED containerVars \/ ContainerNext) => ContainerInv'
    BY PhaseStep, RequestStep DEF ContainerNext, containerVars, ContainerInv, ContainerTypeOK,
       PoolsOK, RequestOK, Past
  <2>2. FunctionInv /\ (UNCHANGED functionVars \/ FunctionNext) => FunctionInv'
    BY FunctionStep DEF functionVars, FunctionInv
  <2> QED
    BY <2>1, <2>2 DEF ServingNext
<1>3. ContainerInv /\ FunctionInv => PoolsAreSound
  BY DEF ContainerInv, FunctionInv, RequestOK, Past, PoolsAreSound, WorkEndsBeforeThePools,
     OneStartIsAlive
<1> QED
  BY <1>1, <1>2, <1>3, PTL DEF ServingSpec

-----------------------------------------------------------------------------
(* Delivery.                                                               *)

Switching == {"switch", "verify", "recover", "rollback", "rolling"}

Stages ==
  {"ended", "gate", "schema", "approval", "migrate", "deploy", "build",
   "switch", "verify", "recover", "rollback", "rolling"}

Results == {"none", "not attempted", "verified", "rolled-back", "unverified"}

Jobs ==
  [run : Nat, pc : Stages, sha : Shas, previous : Nat, candidate : Nat,
   baseline : Nat, promoted : Nat, result : Results]

Asked ==
  [type : {"promote", "rollback"}, target : Nat, by : Nat,
   status : {"pending", "in-progress", "succeeded", "failed"}]

Commands == [type : {"promote", "rollback"}, target : Nat, run : Nat]

Typed ==
  /\ head \in Shas /\ applied \in Nat /\ alias \in Nat /\ waiting \in Nat
  /\ verdicts \in Seq({"none", "success", "failure"})
  /\ job \in Jobs
  /\ builds \in Seq(Shas) /\ requests \in Seq(Asked) /\ wire \in SUBSET Commands

Deployable(d) == d \in DOMAIN builds

(* Everything that can become production is built, and the database has    *)
(* what it needs.                                                           *)
BuiltOK ==
  /\ \A d \in DOMAIN builds : applied >= Needs[builds[d]]
  /\ Deployable(alias)
  /\ \A n \in DOMAIN requests : Deployable(requests[n].target)
  /\ \A c \in wire : Deployable(c.target)
  /\ job.pc \in {"deploy", "build"} => applied >= Needs[job.sha]
  /\ job.pc \in {"build"} \union Switching => Deployable(job.previous)
  /\ job.pc \in Switching => Deployable(job.candidate)

(* Runs come to the group in their order: what has started is the newest    *)
(* that ever had a switch, and what waits is newer.                         *)
OrderOK ==
  /\ ~GroupFree \/ job.result # "none" => job.run \in DOMAIN verdicts
  /\ ~GroupFree => job.result = "none"
  /\ ~GroupFree => \A n \in DOMAIN verdicts : n > job.run => verdicts[n] = "none"
  /\ waiting # 0 =>
       /\ waiting \in DOMAIN verdicts
       /\ \A n \in DOMAIN verdicts : n > waiting => verdicts[n] = "none"
       /\ ~GroupFree => waiting > job.run

(* A failure is the newest verdict, and only its own run goes past it.      *)
BlocksOK ==
  /\ \A r \in DOMAIN verdicts : verdicts[r] = "failure" =>
       \A n \in DOMAIN verdicts : n > r => verdicts[n] = "none"
  /\ job.pc \notin {"ended", "gate"} =>
       \A r \in DOMAIN verdicts \ {job.run} : verdicts[r] # "failure"

(* A command on its way is the last thing that was asked for; unless its    *)
(* run waits for it, a failure blocks every run that could ask for another. *)
WireOK ==
  wire # {} =>
    /\ \A n \in DOMAIN requests : Terminal(requests[n])
    /\ job.pc \in {"ended", "gate", "verify", "recover", "rolling"}
    /\ \E c \in wire : wire = {c} /\ (job.pc \in Switching => c.run = job.run)
    /\ job.pc \in {"verify", "recover"} => Len(requests) = job.baseline
    /\ AtStep("rolling") => Len(requests) = job.promoted
    /\ job.pc \in {"ended", "gate"} =>
         \E r \in DOMAIN verdicts :
           verdicts[r] = "failure" /\ waiting # r /\ (AtStep("gate") => job.run # r)

(* Only the newest request can be under way. *)
RequestsOK ==
  /\ \A n \in DOMAIN requests : n < Len(requests) => Terminal(requests[n])
  /\ job.baseline <= Len(requests)
  /\ AtStep("rollback") =>
       /\ job.promoted <= Len(requests) /\ job.promoted > 0
       /\ Len(requests) = job.promoted => Terminal(Newest)

Inv == Typed /\ BuiltOK /\ OrderOK /\ BlocksOK /\ WireOK /\ RequestsOK /\ ResultsStand

-----------------------------------------------------------------------------
(* Types. *)

LEMMA Appended ==
  ASSUME NEW S, NEW s \in Seq(S), NEW e \in S
  PROVE  /\ Append(s, e) \in Seq(S) /\ Len(s) \in Nat /\ Len(Append(s, e)) = Len(s) + 1
         /\ DOMAIN s = 1 .. Len(s) /\ DOMAIN Append(s, e) = 1 .. Len(s) + 1
         /\ \A n \in DOMAIN s : Append(s, e)[n] = s[n]
         /\ Append(s, e)[Len(s) + 1] = e
OBVIOUS

LEMMA Replaced ==
  ASSUME NEW S, NEW s \in Seq(S), NEW e \in S, NEW i
  PROVE  /\ [s EXCEPT ![i] = e] \in Seq(S) /\ Len([s EXCEPT ![i] = e]) = Len(s)
         /\ DOMAIN [s EXCEPT ![i] = e] = DOMAIN s
         /\ \A k \in DOMAIN s : [s EXCEPT ![i] = e][k] = IF k = i THEN e ELSE s[k]
<1> DEFINE n == Len(s)
<1>0. s \in [1 .. n -> S] /\ n \in Nat
  OBVIOUS
<1> HIDE DEF n
<1>1. [s EXCEPT ![i] = e] \in [1 .. n -> S]
  BY <1>0
<1>2. [s EXCEPT ![i] = e] \in Seq(S) /\ DOMAIN [s EXCEPT ![i] = e] = 1 .. n
  BY <1>0, <1>1
<1>3. Len([s EXCEPT ![i] = e]) = n
  BY <1>0, <1>1, <1>2
<1>4. DOMAIN s = 1 .. n /\ \A k \in 1 .. n : [s EXCEPT ![i] = e][k] = IF k = i THEN e ELSE s[k]
  BY <1>0
<1> QED
  BY <1>2, <1>3, <1>4 DEF n

LEMMA Constants == Shas \subseteq Nat /\ 0 \in Shas /\ Ended \in Jobs
<1>1. Shas \subseteq Nat /\ 0 \in Shas
  BY DeliveryAssumption DEF Shas
<1> QED
  BY <1>1 DEF Ended, Jobs, Stages, Results

LEMMA JobTypes ==
  ASSUME Typed
  PROVE  /\ job \in Jobs /\ Len(requests) \in Nat /\ Len(builds) \in Nat /\ Len(verdicts) \in Nat
         /\ DOMAIN verdicts = 1 .. Len(verdicts) /\ DOMAIN requests = 1 .. Len(requests)
         /\ DOMAIN builds = 1 .. Len(builds)
BY DEF Typed

LEMMA JobTyped ==
  ASSUME Typed
  PROVE  /\ \A pc_ \in Stages : [job EXCEPT !.pc = pc_] \in Jobs
         /\ \A pc_ \in Stages, c \in Shas : [job EXCEPT !.pc = pc_, !.sha = c] \in Jobs
         /\ \A pc_ \in Stages, n \in Nat :
              /\ [job EXCEPT !.pc = pc_, !.previous = n] \in Jobs
              /\ [job EXCEPT !.pc = pc_, !.candidate = n] \in Jobs
              /\ [job EXCEPT !.pc = pc_, !.baseline = n] \in Jobs
              /\ [job EXCEPT !.pc = pc_, !.promoted = n] \in Jobs
         /\ \A pc_ \in Stages, x \in Results : [job EXCEPT !.pc = pc_, !.result = x] \in Jobs
BY DEF Typed, Jobs

(* A request that gets another status. *)
LEMMA StatusTyped ==
  ASSUME Typed, NEW n \in DOMAIN requests,
         NEW s \in {"pending", "in-progress", "succeeded", "failed"}
  PROVE  /\ [requests EXCEPT ![n].status = s] \in Seq(Asked)
         /\ Len([requests EXCEPT ![n].status = s]) = Len(requests)
         /\ \A k \in DOMAIN requests \ {n} : [requests EXCEPT ![n].status = s][k] = requests[k]
         /\ [requests EXCEPT ![n].status = s][n] = [requests[n] EXCEPT !.status = s]
<1> DEFINE moved == [requests[n] EXCEPT !.status = s]
<1>1. requests \in Seq(Asked) /\ requests[n] \in Asked
  BY DEF Typed
<1>2. moved \in Asked
  BY <1>1 DEF Asked
<1>3. [requests EXCEPT ![n].status = s] = [requests EXCEPT ![n] = moved]
  OBVIOUS
<1> HIDE DEF moved
<1>4. /\ [requests EXCEPT ![n] = moved] \in Seq(Asked)
      /\ Len([requests EXCEPT ![n] = moved]) = Len(requests)
      /\ \A k \in DOMAIN requests \ {n} : [requests EXCEPT ![n] = moved][k] = requests[k]
      /\ [requests EXCEPT ![n] = moved][n] = moved
  BY <1>1, <1>2
<1> USE DEF moved
<1> QED
  BY <1>3, <1>4

LEMMA InitTyped == Init => Typed
<1> SUFFICES ASSUME Init PROVE Typed
  OBVIOUS
<1> QED
  BY Constants, DeliveryAssumption DEF Init, Typed

LEMMA TypedNext ==
  ASSUME Typed, [Next]_vars
  PROVE  Typed'
<1> USE DEF Typed
<1>0. Shas \subseteq Nat /\ 0 \in Shas /\ Ended \in Jobs
  BY Constants
<1>a. /\ \A v \in {"none", "success", "failure"} :
           Append(verdicts, v) \in Seq({"none", "success", "failure"})
      /\ \A c \in Shas : Append(builds, c) \in Seq(Shas)
      /\ \A x \in Asked : Append(requests, x) \in Seq(Asked)
      /\ Len(verdicts) + 1 \in Nat /\ Len(builds) + 1 \in Nat /\ Len(requests) \in Nat
  BY Appended, JobTypes
<1>1. CASE UNCHANGED vars
  BY <1>1 DEF vars, group, platform
<1>2. CASE Push
  BY <1>2, DeliveryAssumption DEF Push, group, platform, Shas
<1>3. ASSUME NEW c \in Shas, NEW w \in Workflows, CISucceeds(c, w) \/ CIFails(c, w)
      PROVE Typed'
  <2>1. verdicts' \in Seq({"none", "success", "failure"}) /\ waiting' \in Nat
    BY <1>3, <1>a DEF CISucceeds, CIFails, Wake
  <2> QED
    BY <1>3, <2>1 DEF CISucceeds, CIFails, Wake, platform
<1>4. CASE StartRun
  <2>1. job' \in Jobs
    BY <1>4, <1>0 DEF StartRun, Ended, Jobs, Stages, Results
  <2> QED
    BY <1>4, <2>1 DEF StartRun, platform
<1>5. CASE Gate \/ CheckSchema \/ Approve \/ CheckAgain \/ ReadCurrent \/ JobFails \/ VerifyFails
  <2>1. \A p \in Stages : [job EXCEPT !.pc = p] \in Jobs
    BY JobTyped
  <2>2. CASE Gate
    <3>1. [job EXCEPT !.pc = "schema", !.sha = head] \in Jobs /\ [job EXCEPT !.pc = "ended"] \in Jobs
      BY JobTyped DEF Stages
    <3> QED
      BY <2>2, <3>1 DEF Gate, Ends, platform
  <2>3. CASE CheckSchema \/ Approve \/ CheckAgain
    BY <2>3, <2>1 DEF CheckSchema, Approve, CheckAgain, Ends, GoesTo, platform, Stages
  <2>4. CASE ReadCurrent
    <3>1. [job EXCEPT !.pc = "build", !.previous = alias] \in Jobs /\ [job EXCEPT !.pc = "ended"] \in Jobs
      BY JobTyped DEF Stages
    <3> QED
      BY <2>4, <3>1 DEF ReadCurrent, Ends, platform
  <2>5. CASE JobFails \/ VerifyFails
    BY <2>5, <2>1 DEF JobFails, VerifyFails, GoesTo, AfterFailure, platform, Stages
  <2> QED
    BY <1>5, <2>2, <2>3, <2>4, <2>5
<1>6. CASE Migrate
  BY <1>6 DEF Migrate, group, platform
<1>7. CASE Build
  <2>0. Len(builds) + 1 \in Nat /\ job.sha \in Shas
    BY <1>a DEF Jobs
  <2>3. /\ [job EXCEPT !.pc = "switch", !.candidate = Len(builds) + 1] \in Jobs
        /\ [job EXCEPT !.pc = "ended"] \in Jobs
    BY <2>0, JobTyped DEF Stages
  <2>1. job' \in Jobs
    BY <1>7, <2>3 DEF Build, Ends
  <2>2. builds' \in Seq(Shas)
    BY <1>7, <2>0, <1>a DEF Build
  <2> QED
    BY <1>7, <2>1, <2>2 DEF Build, Ends
<1>8. ASSUME NEW v \in {"success", "failure"}, NEW x \in Results, SwitchEnds(v, x)
      PROVE job' \in Jobs /\ verdicts' \in Seq({"none", "success", "failure"})
  <2>1. [job EXCEPT !.pc = "ended", !.result = x] \in Jobs
    BY JobTyped DEF Stages
  <2>2. [verdicts EXCEPT ![job.run] = v] \in Seq({"none", "success", "failure"})
    BY Replaced
  <2> QED
    BY <1>8, <2>1, <2>2 DEF SwitchEnds
<1>9. CASE Verify \/ GiveUp \/ SwitchBreaks \/ RolledBack
  <2>1. job' \in Jobs /\ verdicts' \in Seq({"none", "success", "failure"})
    BY <1>9, <1>8, JobTyped DEF Verify, GiveUp, SwitchBreaks, RolledBack, GoesTo, Stages, Results
  <2> QED
    BY <1>9, <2>1 DEF Verify, GiveUp, SwitchBreaks, RolledBack, platform
<1>10. CASE Promote
  <2>0. Len(requests) \in Nat /\ [job EXCEPT !.pc = "verify", !.baseline = Len(requests)] \in Jobs
    BY <1>a, JobTyped DEF Stages
  <2>1. job' \in Jobs /\ verdicts' \in Seq({"none", "success", "failure"})
    BY <1>10, <1>8, <2>0 DEF Promote, Results
  <2>3. [type |-> "promote", target |-> job.candidate, run |-> job.run] \in Commands
    BY DEF Commands, Jobs
  <2>2. wire' \in SUBSET Commands
    BY <1>10, <2>3 DEF Promote, Send
  <2> QED
    BY <1>10, <2>1, <2>2 DEF Promote
<1>11. CASE Recover
  <2>0. Len(requests) \in Nat /\ [job EXCEPT !.pc = "rollback", !.promoted = Len(requests)] \in Jobs
    BY <1>a, JobTyped DEF Stages
  <2>1. job' \in Jobs /\ verdicts' \in Seq({"none", "success", "failure"})
    BY <1>11, <1>8, <2>0 DEF Recover, Results
  <2> QED
    BY <1>11, <2>1 DEF Recover, platform
<1>12. CASE Rollback
  <2>1. job' \in Jobs /\ verdicts' \in Seq({"none", "success", "failure"})
    BY <1>12, <1>8, JobTyped DEF Rollback, GoesTo, Stages, Results
  <2>2. wire' \in SUBSET Commands
    BY <1>12 DEF Rollback, Send, Commands, Jobs
  <2> QED
    BY <1>12, <2>1, <2>2 DEF Rollback
<1>13. ASSUME NEW c \in wire, Land(c) \/ IsLost(c)
       PROVE Typed'
  <2>1. [type |-> c.type, target |-> c.target, by |-> c.run, status |-> "pending"] \in Asked
    BY DEF Commands, Asked
  <2> HIDE DEF Typed
  <2>2. requests' \in Seq(Asked)
    BY <1>13, <2>1, SMTT(30) DEF Land, IsLost, Typed
  <2> QED
    BY <1>13, <2>2 DEF Land, IsLost, group, Typed
<1>14. ASSUME NEW n \in DOMAIN requests, Moves(n) \/ Succeeds(n) \/ RequestFails(n)
       PROVE Typed'
  <2>0. requests[n] \in Asked
    OBVIOUS
  <2>3. \A s \in {"pending", "in-progress", "succeeded", "failed"} :
          [requests EXCEPT ![n].status = s] \in Seq(Asked)
    BY StatusTyped
  <2>1. requests' \in Seq(Asked)
    BY <1>14, <2>3 DEF Moves, Succeeds, RequestFails, Status
  <2>2. alias' \in Nat
    BY <1>14, <2>0 DEF Moves, Succeeds, RequestFails, Asked
  <2> QED
    BY <1>14, <2>1, <2>2 DEF Moves, Succeeds, RequestFails, group
<1>15. CASE RunAgain
  BY <1>15 DEF RunAgain, platform
<1>16. ASSUME NEW w \in Workflows, WakeAgain(w)
       PROVE Typed'
  BY <1>16 DEF WakeAgain, group, platform
<1>17. ASSUME NEW c \in Shas, NEW w \in Workflows, CIRunsAgain(c, w)
       PROVE Typed'
  BY <1>17 DEF CIRunsAgain, group, platform
<1>18. ASSUME NEW d \in DOMAIN builds, SwitchByHand(d)
       PROVE Typed'
  BY <1>18 DEF SwitchByHand, group, Asked
<1> QED
  BY <1>1, <1>2, <1>3, <1>4, <1>5, <1>6, <1>7, <1>9, <1>10, <1>11, <1>12, <1>13, <1>14, <1>15,
     <1>16, <1>17, <1>18
     DEF Next, RunNext, PlatformNext, OperatorNext, UpsetNext

-----------------------------------------------------------------------------
(* What the steps change.  Most of them leave the platform and the database *)
(* alone and move the run, which keeps its number.                          *)

Outside ==
  \/ Push \/ RunAgain \/ \E w \in Workflows : WakeAgain(w)
  \/ \E c \in Shas, w \in Workflows : CISucceeds(c, w) \/ CIFails(c, w) \/ CIRunsAgain(c, w)

Early == {"ended", "gate", "schema", "approval", "migrate", "deploy", "build"}

LEMMA OutsideStep ==
  ASSUME Outside
  PROVE  UNCHANGED <<platform, applied, job>>
BY DEF Outside, Push, RunAgain, WakeAgain, CISucceeds, CIFails, CIRunsAgain, Wake, group

(* The steps of a run before it has a candidate. *)
LEMMA EarlyStep ==
  ASSUME Typed, StartRun \/ Gate \/ CheckSchema \/ Approve \/ CheckAgain \/ ReadCurrent \/ JobFails
  PROVE  /\ UNCHANGED <<platform, applied, verdicts>>
         /\ job.pc \in Early /\ job'.pc \in Early
         /\ StartRun \/ (UNCHANGED waiting /\ job'.run = job.run /\ job'.result = job.result
                         /\ job'.baseline = job.baseline /\ job'.promoted = job.promoted
                         /\ job'.candidate = job.candidate /\ ~GroupFree)
<1> USE DEF Early, Jobs
<1>0. job \in Jobs
  BY DEF Typed
<1>1. CASE StartRun
  BY <1>0, <1>1 DEF StartRun, Ended, GroupFree
<1>2. CASE Gate
  BY <1>0, <1>2 DEF Gate, AtStep, Ends, GroupFree
<1>3. CASE CheckSchema \/ Approve \/ CheckAgain
  BY <1>0, <1>3 DEF CheckSchema, Approve, CheckAgain, AtStep, Ends, GoesTo, GroupFree
<1>4. CASE ReadCurrent
  BY <1>0, <1>4 DEF ReadCurrent, AtStep, Ends, GroupFree
<1>5. CASE JobFails
  BY <1>0, <1>5 DEF JobFails, GoesTo, AfterFailure, GroupFree
<1> QED
  BY <1>1, <1>2, <1>3, <1>4, <1>5

(* The end of a switch. *)
LEMMA SwitchEnded ==
  ASSUME Typed, NEW v \in {"success", "failure"}, NEW x \in Results, SwitchEnds(v, x)
  PROVE  /\ job'.pc = "ended" /\ job'.result = x /\ job'.run = job.run
         /\ job'.baseline = job.baseline /\ job'.promoted = job.promoted
         /\ job'.candidate = job.candidate /\ job'.previous = job.previous
         /\ DOMAIN verdicts' = DOMAIN verdicts /\ Len(verdicts') = Len(verdicts)
         /\ \A n \in DOMAIN verdicts : verdicts'[n] = IF n = job.run THEN v ELSE verdicts[n]
<1>1. job \in Jobs
  BY DEF Typed
<1>2. verdicts \in Seq({"none", "success", "failure"})
  BY DEF Typed
<1> QED
  BY <1>1, <1>2, Replaced DEF SwitchEnds, Jobs

(* The steps of a switch: each goes on, keeping what it knows, or ends.     *)
SwitchSteps == Promote \/ Verify \/ VerifyFails \/ Recover \/ Rollback \/ RolledBack \/ GiveUp \/ SwitchBreaks

GoesOn(p) ==
  /\ job'.pc = p /\ job'.run = job.run /\ job'.result = job.result /\ UNCHANGED verdicts
  /\ job'.candidate = job.candidate /\ job'.previous = job.previous

LEMMA SwitchStep ==
  ASSUME Typed, SwitchSteps
  PROVE  /\ UNCHANGED <<head, waiting, builds, alias, requests, applied>>
         /\ job.pc \in Switching
         /\ \/ \E p \in Switching : GoesOn(p)
            \/ \E v \in {"success", "failure"}, x \in Results : SwitchEnds(v, x) /\ wire' = wire
<1> USE DEF GoesOn, Jobs, Switching
<1>0. job \in Jobs
  BY DEF Typed
<1>1. CASE Promote
  BY <1>0, <1>1 DEF Promote, AtStep, Results
<1>2. CASE Verify
  BY <1>0, <1>2 DEF Verify, AtStep, GoesTo, Results, platform
<1>3. CASE VerifyFails
  BY <1>0, <1>3 DEF VerifyFails, AtStep, GoesTo, platform
<1>4. CASE Recover
  BY <1>0, <1>4 DEF Recover, AtStep, Results, platform
<1>5. CASE Rollback
  BY <1>0, <1>5 DEF Rollback, AtStep, GoesTo, Results
<1>6. CASE RolledBack
  BY <1>0, <1>6 DEF RolledBack, AtStep, Results, platform
<1>7. CASE GiveUp
  BY <1>0, <1>7 DEF GiveUp, AtStep, GoesTo, Results, platform
<1>8. CASE SwitchBreaks
  BY <1>0, <1>8 DEF SwitchBreaks, Results, platform
<1> QED
  BY <1>1, <1>2, <1>3, <1>4, <1>5, <1>6, <1>7, <1>8 DEF SwitchSteps

(* Only these two send a command. *)
LEMMA WaitStep ==
  ASSUME SwitchSteps, ~Promote, ~Rollback
  PROVE  UNCHANGED <<requests, wire>>
BY DEF SwitchSteps, Verify, VerifyFails, Recover, RolledBack, GiveUp, SwitchBreaks, platform

(* The steps of the platform, in the requests and the wire. *)
LEMMA StatusStep ==
  ASSUME Typed, NEW n \in DOMAIN requests, Moves(n) \/ Succeeds(n) \/ RequestFails(n)
  PROVE  /\ Live(requests[n]) /\ UNCHANGED <<head, group, builds, wire, applied>>
         /\ alias' \in {alias, requests[n].target}
         /\ Len(requests') = Len(requests) /\ DOMAIN requests' = DOMAIN requests
         /\ \A k \in DOMAIN requests :
              /\ requests'[k].type = requests[k].type /\ requests'[k].target = requests[k].target
              /\ requests'[k].by = requests[k].by
              /\ Terminal(requests[k]) => requests'[k].status = requests[k].status
<1>0. requests[n] \in Asked /\ DOMAIN requests = 1 .. Len(requests)
  BY DEF Typed
<1>1. PICK s \in {"pending", "in-progress", "succeeded", "failed"} :
        requests' = [requests EXCEPT ![n].status = s]
  BY DEF Moves, Succeeds, RequestFails, Status
<1>2. requests' \in Seq(Asked) /\ Len(requests') = Len(requests)
  BY <1>1, StatusTyped
<1>3. DOMAIN requests' = DOMAIN requests
  BY <1>0, <1>2
<1>4. Live(requests[n]) /\ ~Terminal(requests[n])
  BY DEF Moves, Succeeds, RequestFails, Live, Terminal
<1>5. \A k \in DOMAIN requests \ {n} : requests'[k] = requests[k]
  BY <1>1, StatusTyped
<1>6. requests'[n] = [requests[n] EXCEPT !.status = s]
  BY <1>1, StatusTyped
<1>7. /\ requests'[n].type = requests[n].type /\ requests'[n].target = requests[n].target
      /\ requests'[n].by = requests[n].by
  BY <1>0, <1>6 DEF Asked
<1>8. \A k \in DOMAIN requests :
        /\ requests'[k].type = requests[k].type /\ requests'[k].target = requests[k].target
        /\ requests'[k].by = requests[k].by
        /\ Terminal(requests[k]) => requests'[k].status = requests[k].status
  BY <1>4, <1>5, <1>7
<1>9. alias' \in {alias, requests[n].target} /\ UNCHANGED <<head, group, builds, wire, applied>>
  BY DEF Moves, Succeeds, RequestFails
<1> QED
  BY <1>2, <1>3, <1>4, <1>8, <1>9

LEMMA NewRequest ==
  ASSUME Typed, NEW a \in Asked, requests' = Append(requests, a)
  PROVE  /\ Len(requests) \in Nat /\ Len(requests') = Len(requests) + 1
         /\ DOMAIN requests = 1 .. Len(requests)
         /\ DOMAIN requests' = 1 .. Len(requests) + 1
         /\ \A n \in DOMAIN requests : requests'[n] = requests[n]
         /\ requests'[Len(requests) + 1] = a
<1>1. requests \in Seq(Asked)
  BY DEF Typed
<1> QED
  BY <1>1, Appended

(* Every step is one of these. *)
LEMMA Steps ==
  ASSUME [Next]_vars
  PROVE  \/ UNCHANGED vars \/ Outside
         \/ StartRun \/ Gate \/ CheckSchema \/ Approve \/ CheckAgain \/ ReadCurrent \/ JobFails
         \/ Migrate \/ Build \/ SwitchSteps
         \/ \E c \in wire : Land(c) \/ IsLost(c)
         \/ \E n \in DOMAIN requests : Moves(n) \/ Succeeds(n) \/ RequestFails(n)
         \/ \E d \in DOMAIN builds : SwitchByHand(d)
BY DEF Next, RunNext, PlatformNext, OperatorNext, UpsetNext, Outside, SwitchSteps

-----------------------------------------------------------------------------
(* What can be served has been built, and what was built has its schema.    *)

LEMMA BuiltNext ==
  ASSUME Typed, Typed', BuiltOK, [Next]_vars
  PROVE  BuiltOK'
<1> USE DEF BuiltOK, Deployable
<1>1. CASE UNCHANGED vars
  BY <1>1 DEF vars, group, platform
<1>2. CASE Outside
  BY <1>2, OutsideStep DEF platform
<1>3. CASE StartRun
  BY <1>3, EarlyStep DEF StartRun, Ended, platform, Switching
<1>4. CASE Gate
  BY <1>4, EarlyStep DEF Gate, Ends, platform, Switching, Early, Typed, Jobs
<1>5. CASE CheckSchema
  <2>1. job \in Jobs /\ job' = [job EXCEPT !.pc = IF applied = Needs[job.sha] THEN "deploy" ELSE "approval"]
    BY <1>5 DEF CheckSchema, GoesTo, Typed
  <2>2. job'.pc = "deploy" => applied = Needs[job'.sha]
    BY <2>1 DEF Jobs
  <2>3. job'.pc \in {"deploy", "approval"} /\ job.sha \in Shas
    BY <2>1 DEF Jobs
  <2>4. Needs[job'.sha] \in Nat
    BY DeliveryAssumption DEF Typed, Jobs
  <2> QED
    BY <1>5, <2>2, <2>3, <2>4, EarlyStep DEF platform, Switching, Typed
<1>6. CASE Approve
  BY <1>6, EarlyStep DEF Approve, Ends, GoesTo, platform, Switching, Typed, Jobs
<1>7. CASE CheckAgain
  <2>1. job \in Jobs /\ job' = [job EXCEPT !.pc = "deploy"] /\ applied = Needs[job.sha]
    BY <1>7 DEF CheckAgain, GoesTo, Typed
  <2>2. job'.pc = "deploy" /\ job'.sha = job.sha
    BY <2>1 DEF Jobs
  <2> QED
    BY <1>7, <2>1, <2>2, EarlyStep DEF platform, Switching, Typed
<1>8. CASE ReadCurrent
  BY <1>8, EarlyStep DEF ReadCurrent, AtStep, Ends, platform, Switching, Typed, Jobs
<1>9. CASE JobFails
  BY <1>9, EarlyStep DEF JobFails, GoesTo, AfterFailure, platform, Switching, Typed, Jobs
<1>10. CASE Migrate
  <2>1. \A d \in DOMAIN builds : Needs[builds[d]] \in Nat
    BY DeliveryAssumption DEF Typed
  <2>2. applied' = applied + 1 /\ applied \in Nat /\ UNCHANGED <<group, platform>>
    BY <1>10 DEF Migrate, Typed
  <2>3. job.pc = "migrate"
    BY <1>10 DEF Migrate, AtStep
  <2> QED
    BY <2>1, <2>2, <2>3 DEF group, platform, Switching
<1>11. CASE Build
  <2>1. AtStep("build") /\ job \in Jobs /\ builds \in Seq(Shas) /\ job.sha \in Shas
    BY <1>11 DEF Build, Typed, Jobs
  <2>2. UNCHANGED <<alias, requests, wire, applied>>
    BY <1>11 DEF Build
  <2>3. CASE head = job.sha
    <3>1. builds' = Append(builds, job.sha)
      BY <1>11, <2>3 DEF Build
    <3>2. job' = [job EXCEPT !.pc = "switch", !.candidate = Len(builds) + 1]
      BY <1>11, <2>3 DEF Build
    <3>3. /\ DOMAIN builds = 1 .. Len(builds) /\ DOMAIN builds' = 1 .. Len(builds) + 1
          /\ Len(builds) \in Nat
          /\ \A d \in DOMAIN builds : builds'[d] = builds[d]
          /\ builds'[Len(builds) + 1] = job.sha
      BY <2>1, <3>1, Appended
    <3>4. /\ job'.pc = "switch" /\ job'.candidate = Len(builds) + 1
          /\ job'.previous = job.previous
      BY <2>1, <3>2 DEF Jobs
    <3>5. \A d \in DOMAIN builds' : applied' >= Needs[builds'[d]]
      BY <2>1, <2>2, <3>3 DEF AtStep
    <3>6. DOMAIN builds \subseteq DOMAIN builds'
      BY <3>3
    <3>7. job'.candidate \in DOMAIN builds'
      BY <3>3, <3>4
    <3> QED
      BY <2>1, <2>2, <3>4, <3>5, <3>6, <3>7 DEF AtStep, Switching
  <2>4. CASE head # job.sha
    BY <1>11, <2>1, <2>2, <2>4 DEF Build, Ends, Jobs, Switching
  <2> QED
    BY <2>3, <2>4
<1>12. CASE SwitchSteps
  <2>1. /\ UNCHANGED <<builds, alias, requests, applied>> /\ job.pc \in Switching
        /\ \/ \E p \in Switching : GoesOn(p)
           \/ \E v \in {"success", "failure"}, x \in Results : SwitchEnds(v, x) /\ wire' = wire
    BY <1>12, SwitchStep
  <2>2. \A c \in wire' : c \in wire \/ c.target \in {job.candidate, job.previous}
    <3>1. CASE Promote
      <4>1. wire' = wire \/ wire' = wire \union {[type |-> "promote", target |-> job.candidate, run |-> job.run]}
        BY <3>1 DEF Promote, Send
      <4> QED
        BY <4>1
    <3>2. CASE Rollback
      BY <3>2 DEF Rollback, Send
    <3>3. CASE ~Promote /\ ~Rollback
      BY <1>12, <3>3, WaitStep
    <3> QED
      BY <3>1, <3>2, <3>3
  <2>3. \A c \in wire' : Deployable(c.target)
    BY <2>1, <2>2
  <2>4. CASE \E p \in Switching : GoesOn(p)
    BY <2>1, <2>3, <2>4 DEF GoesOn, Switching
  <2>5. ASSUME NEW v \in {"success", "failure"}, NEW x \in Results, SwitchEnds(v, x)
        PROVE job'.pc = "ended"
    BY <2>5, SwitchEnded
  <2> QED
    BY <2>1, <2>3, <2>4, <2>5 DEF Switching
<1>13. ASSUME NEW c \in wire, Land(c)
       PROVE BuiltOK'
  <2>1. [type |-> c.type, target |-> c.target, by |-> c.run, status |-> "pending"] \in Asked
    BY DEF Typed, Commands, Asked
  <2>2. /\ DOMAIN requests' = 1 .. Len(requests) + 1 /\ DOMAIN requests = 1 .. Len(requests)
        /\ \A n \in DOMAIN requests : requests'[n] = requests[n]
        /\ requests'[Len(requests) + 1].target = c.target
        /\ Len(requests) \in Nat
    BY <1>13, <2>1, NewRequest DEF Land
  <2>3. UNCHANGED <<job, builds, alias, applied>> /\ wire' \subseteq wire
    BY <1>13 DEF Land, group
  <2> QED
    BY <2>2, <2>3
<1>14. ASSUME NEW c \in wire, IsLost(c)
       PROVE BuiltOK'
  BY <1>14 DEF IsLost, group
<1>15. ASSUME NEW n \in DOMAIN requests, Moves(n) \/ Succeeds(n) \/ RequestFails(n)
       PROVE BuiltOK'
  BY <1>15, StatusStep DEF group
<1>16. ASSUME NEW d \in DOMAIN builds, SwitchByHand(d)
       PROVE BuiltOK'
  <2>1. [type |-> "rollback", target |-> d, by |-> 0, status |-> "pending"] \in Asked
    BY DEF Typed, Asked
  <2>2. /\ DOMAIN requests' = 1 .. Len(requests) + 1 /\ DOMAIN requests = 1 .. Len(requests)
        /\ \A n \in DOMAIN requests : requests'[n] = requests[n]
        /\ requests'[Len(requests) + 1].target = d
        /\ Len(requests) \in Nat
    BY <1>16, <2>1, NewRequest DEF SwitchByHand
  <2>3. UNCHANGED <<job, builds, alias, applied, wire>>
    BY <1>16 DEF SwitchByHand, group
  <2> QED
    BY <2>2, <2>3
<1> QED
  BY Steps, <1>1, <1>2, <1>3, <1>4, <1>5, <1>6, <1>7, <1>8, <1>9, <1>10, <1>11, <1>12, <1>13, <1>14,
     <1>15, <1>16

-----------------------------------------------------------------------------
(* Runs come in their order, and failures block. *)

LEMMA VerdictTypes ==
  ASSUME Typed
  PROVE  /\ Len(verdicts) \in Nat /\ DOMAIN verdicts = 1 .. Len(verdicts)
         /\ DOMAIN verdicts \subseteq Nat \ {0}
         /\ \A n \in DOMAIN verdicts : verdicts[n] \in {"none", "success", "failure"}
         /\ job.run \in Nat /\ waiting \in Nat /\ job.pc \in Stages
BY DEF Typed, Jobs

(* A run that is woken is the newest, has no verdict yet, and waits. *)
LEMMA WakeStep ==
  ASSUME Typed, Wake
  PROVE  /\ waiting' = Len(verdicts) + 1 /\ job' = job
         /\ DOMAIN verdicts' = 1 .. Len(verdicts) + 1
         /\ \A n \in DOMAIN verdicts : verdicts'[n] = verdicts[n]
         /\ verdicts'[Len(verdicts) + 1] = "none"
<1>1. verdicts \in Seq({"none", "success", "failure"})
  BY DEF Typed
<1> QED
  BY <1>1, Appended DEF Wake

LEMMA OutsideGroup ==
  ASSUME Outside
  PROVE  Wake \/ RunAgain \/ UNCHANGED group
BY DEF Outside, Push, WakeAgain, CISucceeds, CIFails, CIRunsAgain

(* Nothing else touches the group. *)
LEMMA GroupStep ==
  ASSUME Typed, [Next]_vars
  PROVE  \/ UNCHANGED group \/ Wake \/ RunAgain
         \/ StartRun \/ Gate \/ CheckSchema \/ Approve \/ CheckAgain \/ ReadCurrent \/ JobFails
         \/ Build \/ SwitchSteps
<1>1. CASE Outside
  BY <1>1, OutsideGroup
<1>2. ASSUME NEW n \in DOMAIN requests, Moves(n) \/ Succeeds(n) \/ RequestFails(n)
      PROVE UNCHANGED group
  BY <1>2, StatusStep
<1> QED
  BY Steps, <1>1, <1>2 DEF vars, Migrate, Land, IsLost, SwitchByHand

LEMMA BuildStep ==
  ASSUME Typed, Build
  PROVE  /\ job.pc = "build" /\ job'.pc \in {"ended", "switch"}
         /\ job'.run = job.run /\ job'.result = job.result /\ job'.baseline = job.baseline
         /\ UNCHANGED <<verdicts, waiting, alias, requests, wire>>
BY DEF Build, AtStep, Ends, Typed, Jobs

LEMMA OrderNext ==
  ASSUME Typed, Typed', OrderOK, [Next]_vars
  PROVE  OrderOK'
<1> USE VerdictTypes DEF OrderOK, GroupFree
<1>1. CASE UNCHANGED group
  BY <1>1 DEF group
<1>2. CASE Wake
  BY <1>2, WakeStep
<1>3. CASE RunAgain
  BY <1>3 DEF RunAgain, Stopped
<1>4. CASE StartRun
  <2>1. job'.run = waiting /\ job'.pc = "gate" /\ waiting' = 0 /\ UNCHANGED verdicts
        /\ job'.result = "none"
    BY <1>4 DEF StartRun, Ended
  <2> QED
    BY <1>4, <2>1 DEF StartRun
<1>5. CASE ~StartRun /\ (Gate \/ CheckSchema \/ Approve \/ CheckAgain \/ ReadCurrent \/ JobFails)
  BY <1>5, EarlyStep
<1>6. CASE Build
  BY <1>6, BuildStep
<1>7. CASE SwitchSteps
  <2>1. job.pc \in Switching /\ UNCHANGED waiting
    BY <1>7, SwitchStep
  <2>2. CASE \E p \in Switching : GoesOn(p)
    BY <2>1, <2>2 DEF GoesOn, Switching
  <2>3. ASSUME NEW v \in {"success", "failure"}, NEW x \in Results, SwitchEnds(v, x)
        PROVE OrderOK'
    <3>1. /\ job'.pc = "ended" /\ job'.run = job.run /\ DOMAIN verdicts' = DOMAIN verdicts
          /\ \A n \in DOMAIN verdicts : n # job.run => verdicts'[n] = verdicts[n]
      BY <2>3, SwitchEnded
    <3>2. job.pc # "ended"
      BY <2>1 DEF Switching
    <3> QED
      BY <2>1, <3>1, <3>2
  <2> QED
    BY <1>7, <2>2, <2>3, SwitchStep
<1> QED
  BY GroupStep, <1>1, <1>2, <1>3, <1>4, <1>5, <1>6, <1>7

LEMMA BlocksNext ==
  ASSUME Typed, Typed', OrderOK, BlocksOK, [Next]_vars
  PROVE  BlocksOK'
<1> USE VerdictTypes DEF BlocksOK
<1>1. CASE UNCHANGED group
  BY <1>1 DEF group
<1>2. CASE Wake
  BY <1>2, WakeStep
<1>3. CASE RunAgain
  BY <1>3 DEF RunAgain, Stopped, GroupFree
<1>4. CASE StartRun
  BY <1>4 DEF StartRun, Ended
<1>5. CASE Gate
  <2>1. UNCHANGED verdicts /\ job'.run = job.run /\ job.pc = "gate"
    BY <1>5, EarlyStep DEF Gate, AtStep, StartRun, GroupFree
  <2>2. CASE job'.pc = "ended"
    BY <2>1, <2>2
  <2>3. CASE job'.pc # "ended"
    <3>1. ~Blocked(job.run)
      BY <1>5, <2>3, <2>1 DEF Gate, Ends, Typed, Jobs
    <3>2. ASSUME NEW r \in DOMAIN verdicts \ {job.run}, verdicts[r] = "failure"
          PROVE FALSE
      <4>1. \A k \in Switched(job.run) : k <= r
        BY <3>2 DEF Switched
      <4>2. r \in Switched(job.run)
        BY <3>2 DEF Switched
      <4> QED
        BY <3>1, <3>2, <4>1, <4>2 DEF Blocked
    <3> QED
      BY <2>1, <3>2
  <2> QED
    BY <2>2, <2>3
<1>6. CASE ~StartRun /\ (CheckSchema \/ Approve \/ CheckAgain \/ ReadCurrent \/ JobFails)
  <2>1. UNCHANGED verdicts /\ job'.run = job.run
    BY <1>6, EarlyStep
  <2>2. job.pc \in {"ended", "gate"} => job'.pc = "ended"
    BY <1>6 DEF CheckSchema, Approve, CheckAgain, ReadCurrent, JobFails, AtStep, GoesTo, AfterFailure, Typed, Jobs
  <2> QED
    BY <2>1, <2>2
<1>7. CASE Build
  BY <1>7, BuildStep
<1>8. CASE SwitchSteps
  <2>1. job.pc \in Switching /\ job.pc \notin {"ended", "gate"}
    BY <1>8, SwitchStep DEF Switching
  <2>2. CASE \E p \in Switching : GoesOn(p)
    BY <2>1, <2>2 DEF GoesOn
  <2>3. ASSUME NEW v \in {"success", "failure"}, NEW x \in Results, SwitchEnds(v, x)
        PROVE BlocksOK'
    <3>1. /\ job'.pc = "ended" /\ job'.run = job.run /\ DOMAIN verdicts' = DOMAIN verdicts
          /\ \A n \in DOMAIN verdicts : verdicts'[n] = IF n = job.run THEN v ELSE verdicts[n]
      BY <2>3, SwitchEnded
    <3>2. \A n \in DOMAIN verdicts : n > job.run => verdicts[n] = "none"
      BY <2>1 DEF OrderOK, GroupFree
    <3>3. \A n \in DOMAIN verdicts' : verdicts'[n] = "failure" => n = job.run
      BY <2>1, <3>1
    <3> QED
      BY <3>1, <3>2, <3>3
  <2> QED
    BY <1>8, <2>2, <2>3, SwitchStep
<1> QED
  BY GroupStep, <1>1, <1>2, <1>3, <1>4, <1>5, <1>6, <1>7, <1>8

-----------------------------------------------------------------------------
(* At most one request is under way. *)

LEMMA RequestTypes ==
  ASSUME Typed
  PROVE  /\ Len(requests) \in Nat /\ DOMAIN requests = 1 .. Len(requests)
         /\ \A n \in DOMAIN requests :
              requests[n] \in Asked /\ (Live(requests[n]) \/ Terminal(requests[n]))
              /\ ~(Live(requests[n]) /\ Terminal(requests[n]))
         /\ job.baseline \in Nat /\ job.promoted \in Nat /\ job.run \in Nat
         /\ job.pc \in Stages
<1>1. requests \in Seq(Asked)
  BY DEF Typed
<1>2. Len(requests) \in Nat /\ DOMAIN requests = 1 .. Len(requests)
      /\ \A n \in DOMAIN requests : requests[n] \in Asked
  BY <1>1
<1>3. \A a \in Asked : (Live(a) \/ Terminal(a)) /\ ~(Live(a) /\ Terminal(a))
  BY DEF Asked, Live, Terminal
<1>4. /\ job.baseline \in Nat /\ job.promoted \in Nat /\ job.run \in Nat
      /\ job.pc \in Stages
  BY DEF Typed, Jobs
<1> QED
  BY <1>2, <1>3, <1>4

LEMMA LandStep ==
  ASSUME Typed, NEW c \in wire, Land(c)
  PROVE  /\ Len(requests') = Len(requests) + 1 /\ DOMAIN requests' = 1 .. Len(requests) + 1
         /\ \A n \in DOMAIN requests : requests'[n] = requests[n]
         /\ requests'[Len(requests) + 1].by = c.run
         /\ UNCHANGED <<group, alias>> /\ wire' = wire \ {c}
<1>1. [type |-> c.type, target |-> c.target, by |-> c.run, status |-> "pending"] \in Asked
  BY DEF Typed, Commands, Asked
<1> QED
  BY <1>1, NewRequest DEF Land

LEMMA ByHandStep ==
  ASSUME Typed, NEW d \in DOMAIN builds, SwitchByHand(d)
  PROVE  /\ Len(requests') = Len(requests) + 1 /\ DOMAIN requests' = 1 .. Len(requests) + 1
         /\ \A n \in DOMAIN requests : requests'[n] = requests[n]
         /\ requests'[Len(requests) + 1].by = 0
         /\ wire = {} /\ wire' = {} /\ \A n \in DOMAIN requests : Terminal(requests[n])
         /\ UNCHANGED <<group, alias>>
<1>1. [type |-> "rollback", target |-> d, by |-> 0, status |-> "pending"] \in Asked
  BY DEF Typed, Asked
<1> QED
  BY <1>1, NewRequest DEF SwitchByHand, Settled

(* When a run sends its command, everything that was asked for has ended.   *)
LEMMA PromoteStep ==
  ASSUME Typed, WireOK, RequestsOK, Promote
  PROVE  /\ UNCHANGED requests /\ wire = {} /\ job.pc = "switch"
         /\ \/ /\ \A n \in DOMAIN requests : Terminal(requests[n])
               /\ job'.pc = "verify" /\ job'.baseline = Len(requests) /\ job'.run = job.run
               /\ job'.result = job.result
               /\ wire' = {[type |-> "promote", target |-> job.candidate, run |-> job.run]}
            \/ wire' = {} /\ SwitchEnds("failure", "not attempted")
<1>1. wire = {} /\ job.pc = "switch" /\ job \in Jobs
  BY DEF Promote, AtStep, WireOK, Typed
<1>2. CASE Preflight /\ Send("promote", job.candidate)
  <2>1. \A n \in DOMAIN requests : Terminal(requests[n])
    <3>1. ASSUME NEW n \in DOMAIN requests
          PROVE Terminal(requests[n])
      <4>1. requests # <<>> /\ Len(requests) \in Nat /\ n \in 1 .. Len(requests)
        BY RequestTypes
      <4>2. Terminal(requests[Len(requests)])
        BY <1>2, <4>1 DEF Preflight, Newest
      <4> QED
        BY <4>1, <4>2 DEF RequestsOK
    <3> QED
      BY <3>1
  <2> QED
    BY <1>1, <1>2, <2>1 DEF Promote, Send, SwitchEnds, Jobs
<1> QED
  BY <1>1, <1>2 DEF Promote

LEMMA RollbackStep ==
  ASSUME Typed, WireOK, RequestsOK, Rollback
  PROVE  /\ UNCHANGED requests /\ wire = {} /\ job.pc = "rollback"
         /\ \/ /\ \A n \in DOMAIN requests : Terminal(requests[n])
               /\ job'.pc = "rolling" /\ job'.promoted = Len(requests) /\ job'.run = job.run
               /\ job'.baseline = job.baseline /\ job'.result = job.result
               /\ wire' = {[type |-> "rollback", target |-> job.previous, run |-> job.run]}
            \/ wire' = {} /\ SwitchEnds("failure", "unverified")
<1>1. wire = {} /\ job.pc = "rollback" /\ job \in Jobs
  BY DEF Rollback, AtStep, WireOK, Typed
<1>2. CASE Len(requests) = job.promoted
  <2>1. \A n \in DOMAIN requests : Terminal(requests[n])
    BY <1>1, <1>2, RequestTypes DEF RequestsOK, AtStep, Newest
  <2> QED
    BY <1>1, <1>2, <2>1 DEF Rollback, GoesTo, Send, Jobs
<1> QED
  BY <1>1, <1>2 DEF Rollback

(* A run that has seen its request has nothing left on the wire. *)
LEMMA SeenStep ==
  ASSUME Typed, WireOK,
         \/ AtStep("verify") /\ Seen("promote", job.candidate, job.baseline)
         \/ AtStep("recover") /\ Seen("promote", job.candidate, job.baseline)
         \/ AtStep("rolling") /\ Seen("rollback", job.previous, job.promoted)
  PROVE  wire = {} /\ requests # <<>> /\ Len(requests) \in DOMAIN requests
BY RequestTypes DEF WireOK, Seen, AtStep

LEMMA WireGone ==
  ASSUME Typed, WireOK, GiveUp
  PROVE  wire = {}
BY DEF WireOK, GiveUp, Switching

(* What the steps of a switch that only wait do to what WireOK speaks of. *)
LEMMA WaitEnds ==
  ASSUME Typed, WireOK, RequestsOK, Verify \/ Recover \/ RolledBack \/ GiveUp
  PROVE  wire = {} /\ wire' = {}
BY SeenStep, WireGone DEF Verify, Recover, RolledBack, GiveUp, Evidence, platform

LEMMA RequestsNext ==
  ASSUME Typed, Typed', WireOK, RequestsOK, [Next]_vars
  PROVE  RequestsOK'
<1> USE RequestTypes DEF RequestsOK
<1>1. CASE UNCHANGED <<requests, job>>
  BY <1>1 DEF AtStep, Newest
<1>2. CASE Outside
  BY <1>1, <1>2, OutsideStep DEF platform
<1>3. CASE StartRun
  BY <1>3, EarlyStep DEF StartRun, Ended, platform, Switching, AtStep
<1>4. CASE ~StartRun /\ (Gate \/ CheckSchema \/ Approve \/ CheckAgain \/ ReadCurrent \/ JobFails)
  BY <1>4, EarlyStep DEF platform, Switching, Early, AtStep
<1>5. CASE Migrate
  BY <1>1, <1>5 DEF Migrate, group, platform
<1>6. CASE Build
  BY <1>6, BuildStep DEF AtStep
<1>7. CASE SwitchSteps
  <2>1. job.pc \in Switching /\ UNCHANGED requests
    BY <1>7, SwitchStep
  <2>2. ASSUME NEW v \in {"success", "failure"}, NEW x \in Results, SwitchEnds(v, x)
        PROVE RequestsOK'
    BY <2>1, <2>2, SwitchEnded DEF AtStep, Switching
  <2>3. CASE Promote
    <3>1. CASE SwitchEnds("failure", "not attempted")
      BY <2>2, <3>1 DEF Results
    <3>2. CASE job'.pc = "verify" /\ job'.baseline = Len(requests)
      BY <2>1, <3>2 DEF AtStep
    <3> QED
      BY <2>3, <3>1, <3>2, PromoteStep
  <2>4. CASE Rollback
    BY <2>1, <2>2, <2>4, RollbackStep DEF AtStep, Results
  <2>5. CASE Recover
    <3>1. CASE job' = [job EXCEPT !.pc = "rollback", !.promoted = Len(requests)]
      <4>1. job'.pc = "rollback" /\ job'.promoted = Len(requests) /\ job'.baseline = job.baseline
        BY <3>1 DEF Typed, Jobs
      <4>2. Len(requests) > 0 /\ Terminal(Newest)
        BY <2>5, SeenStep DEF Recover, Evidence
      <4> QED
        BY <2>1, <4>1, <4>2 DEF AtStep, Newest
    <3> QED
      BY <2>2, <2>5, <3>1 DEF Recover, Results
  <2>6. CASE Verify \/ VerifyFails \/ GiveUp
    <3>1. CASE GoesTo("recover")
      <4>1. job'.pc = "recover" /\ job'.baseline = job.baseline
        BY <3>1 DEF GoesTo, Typed, Jobs
      <4> QED
        BY <2>1, <4>1 DEF AtStep
    <3> QED
      BY <2>2, <2>6, <3>1 DEF Verify, VerifyFails, GiveUp, Results
  <2>7. CASE RolledBack \/ SwitchBreaks
    BY <2>2, <2>7 DEF RolledBack, SwitchBreaks, Results
  <2> QED
    BY <1>7, <2>3, <2>4, <2>5, <2>6, <2>7 DEF SwitchSteps
<1>8. ASSUME NEW c \in wire, Land(c)
      PROVE RequestsOK'
  <2>1. \A n \in DOMAIN requests : Terminal(requests[n])
    BY DEF WireOK
  <2>2. job.pc # "rollback"
    BY DEF WireOK
  <2> QED
    BY <1>8, <2>1, <2>2, LandStep DEF AtStep, group
<1>9. ASSUME NEW c \in wire, IsLost(c)
      PROVE RequestsOK'
  BY <1>1, <1>9 DEF IsLost, group
<1>10. ASSUME NEW n \in DOMAIN requests, Moves(n) \/ Succeeds(n) \/ RequestFails(n)
       PROVE RequestsOK'
  <2>1. /\ UNCHANGED job /\ Len(requests') = Len(requests) /\ DOMAIN requests' = DOMAIN requests
        /\ \A k \in DOMAIN requests : Terminal(requests[k]) => Terminal(requests'[k])
    BY <1>10, StatusStep DEF group, Terminal
  <2> QED
    BY <2>1 DEF AtStep, Newest
<1>11. ASSUME NEW d \in DOMAIN builds, SwitchByHand(d)
       PROVE RequestsOK'
  BY <1>11, ByHandStep DEF AtStep, Newest, group
<1> QED
  BY Steps, <1>1, <1>2, <1>3, <1>4, <1>5, <1>6, <1>7, <1>8, <1>9, <1>10, <1>11
     DEF vars, group, platform

(* Who still can: a failed switch, and no run past the gate but its own.    *)
LEMMA WireNext ==
  ASSUME Typed, Typed', OrderOK, BlocksOK, WireOK, RequestsOK, BlocksOK', OrderOK', [Next]_vars
  PROVE  WireOK'
<1> USE DEF WireOK
<1> SUFFICES ASSUME wire' # {}
             PROVE  WireOK'
  OBVIOUS
<1>1. CASE UNCHANGED <<requests, wire, group>>
  BY <1>1 DEF AtStep, group
<1>2. CASE Wake /\ UNCHANGED <<requests, wire>>
  <2>1. job' = job
    BY <1>2 DEF Wake
  <2>2. ASSUME NEW r \in DOMAIN verdicts, verdicts[r] = "failure"
        PROVE r \in DOMAIN verdicts' /\ verdicts'[r] = "failure" /\ waiting' # r
    BY <1>2, <2>2, WakeStep, VerdictTypes
  <2> QED
    BY <1>2, <2>1, <2>2 DEF AtStep
<1>3. CASE RunAgain
  BY <1>3 DEF RunAgain, Stopped, Settled, platform
<1>4. CASE StartRun
  <2>1. job.pc = "ended" /\ job'.pc = "gate" /\ job'.run = waiting /\ waiting' = 0
        /\ UNCHANGED <<requests, wire, verdicts>>
    BY <1>4 DEF StartRun, Ended, GroupFree, platform
  <2> QED
    BY <2>1, VerdictTypes DEF AtStep, Switching
<1>5. CASE Gate
  <2>1. job.pc = "gate" /\ UNCHANGED <<requests, wire, verdicts, waiting>> /\ job'.run = job.run
    BY <1>5, EarlyStep DEF Gate, AtStep, platform, StartRun, GroupFree
  <2>2. PICK r \in DOMAIN verdicts :
          verdicts[r] = "failure" /\ waiting # r /\ job.run # r
    BY <2>1 DEF AtStep
  <2>3. job'.pc = "ended"
    <3>1. CASE job' = [job EXCEPT !.pc = "ended"]
      BY <3>1 DEF Typed, Jobs
    <3>2. CASE job' = [job EXCEPT !.pc = "schema", !.sha = head]
      <4>1. job'.pc = "schema"
        BY <3>2 DEF Typed, Jobs
      <4> QED
        BY <2>1, <2>2, <4>1 DEF BlocksOK
    <3> QED
      BY <1>5, <3>1, <3>2 DEF Gate, Ends
  <2> QED
    BY <2>1, <2>2, <2>3 DEF AtStep, Switching
<1>6. CASE ~StartRun /\ (CheckSchema \/ Approve \/ CheckAgain \/ ReadCurrent \/ JobFails)
  <2>1. /\ job.pc \in Early \ {"ended"} /\ UNCHANGED <<requests, wire, verdicts, waiting>>
        /\ job'.run = job.run
    BY <1>6, EarlyStep DEF platform, GroupFree
  <2>2. job.pc = "gate"
    BY <2>1 DEF Early
  <2>3. job'.pc = "ended"
    BY <1>6, <2>2 DEF CheckSchema, Approve, CheckAgain, ReadCurrent, JobFails, AtStep, GoesTo, AfterFailure, Typed, Jobs
  <2> QED
    BY <2>1, <2>2, <2>3 DEF AtStep, Switching
<1>7. CASE Build
  BY <1>7, BuildStep
<1>8. CASE SwitchSteps
  <2>1. job.pc \in Switching /\ job.pc # "ended" /\ UNCHANGED <<requests, waiting>> /\ job.run \in DOMAIN verdicts
    BY <1>8, SwitchStep DEF Switching, OrderOK, GroupFree
  <2>2. CASE Promote
    <3>1. /\ \A n \in DOMAIN requests : Terminal(requests[n])
          /\ job'.pc = "verify" /\ job'.baseline = Len(requests) /\ job'.run = job.run
          /\ wire' = {[type |-> "promote", target |-> job.candidate, run |-> job.run]}
      BY <2>2, PromoteStep
    <3> QED
      BY <2>1, <3>1 DEF AtStep
  <2>3. CASE Rollback
    <3>1. /\ \A n \in DOMAIN requests : Terminal(requests[n])
          /\ job'.pc = "rolling" /\ job'.promoted = Len(requests) /\ job'.run = job.run
          /\ wire' = {[type |-> "rollback", target |-> job.previous, run |-> job.run]}
      BY <2>3, RollbackStep
    <3> QED
      BY <2>1, <3>1 DEF AtStep
  <2>4. CASE Verify \/ Recover \/ RolledBack \/ GiveUp
    BY <2>4, WaitEnds
  <2>5. CASE VerifyFails
    <3>1. /\ job.pc = "verify" /\ job'.pc = "recover" /\ job'.run = job.run
          /\ job'.baseline = job.baseline /\ UNCHANGED <<wire, verdicts>>
      BY <2>5 DEF VerifyFails, AtStep, GoesTo, Typed, Jobs, platform
    <3> QED
      BY <2>1, <3>1 DEF AtStep, Switching
  <2>6. CASE SwitchBreaks
    <3>1. /\ job'.pc = "ended" /\ job'.run = job.run /\ UNCHANGED wire
          /\ DOMAIN verdicts' = DOMAIN verdicts /\ verdicts'[job.run] = "failure"
      BY <2>1, <2>6, SwitchEnded DEF SwitchBreaks, Results, platform
    <3>2. waiting # job.run
      BY <2>1, VerdictTypes DEF OrderOK, GroupFree
    <3> QED
      BY <2>1, <3>1, <3>2 DEF AtStep, Switching
  <2> QED
    BY <1>8, <2>2, <2>3, <2>4, <2>5, <2>6 DEF SwitchSteps
<1>9. ASSUME NEW c \in wire, Land(c)
      PROVE WireOK'
  BY <1>9, LandStep
<1>10. ASSUME NEW c \in wire, IsLost(c)
       PROVE WireOK'
  BY <1>10 DEF IsLost
<1>11. ASSUME NEW n \in DOMAIN requests, Moves(n) \/ Succeeds(n) \/ RequestFails(n)
       PROVE WireOK'
  <2>1. Live(requests[n]) /\ wire' = wire
    BY <1>11, StatusStep
  <2> QED
    BY <2>1, RequestTypes
<1>12. ASSUME NEW d \in DOMAIN builds, SwitchByHand(d)
       PROVE WireOK'
  BY <1>12, ByHandStep
<1>13. CASE Outside
  <2>1. UNCHANGED <<requests, wire, job>>
    BY <1>13, OutsideStep DEF platform
  <2> QED
    BY <1>1, <1>2, <1>3, <1>13, <2>1, OutsideGroup DEF group
<1> QED
  BY Steps, <1>1, <1>4, <1>5, <1>6, <1>7, <1>8, <1>9, <1>10, <1>11, <1>12, <1>13
     DEF vars, group, platform, Migrate

-----------------------------------------------------------------------------
(* What a run told of its switch. *)

LEMMA ResultsNext ==
  ASSUME Typed, Typed', OrderOK, OrderOK', WireOK, RequestsOK, RequestsOK', ResultsStand, [Next]_vars
  PROVE  ResultsStand'
<1> DEFINE Told == job.result \in {"verified", "rolled-back"}
           There == alias = IF job.result = "verified" THEN job.candidate ELSE job.previous
           Own == \A n \in DOMAIN requests : n > job.baseline => requests[n].by = job.run
<1> USE DEF ResultsStand
<1> SUFFICES ASSUME job'.pc = "ended", Told', Own'
             PROVE  There' /\ Settled'
  BY DEF GroupFree
<1>1. CASE UNCHANGED <<requests, wire, alias, job>>
  BY <1>1 DEF GroupFree, Settled
<1>2. CASE Outside
  BY <1>1, <1>2, OutsideStep DEF platform
<1>3. CASE StartRun
  BY <1>3 DEF StartRun, Ended
<1>4. CASE ~StartRun /\ (Gate \/ CheckSchema \/ Approve \/ CheckAgain \/ ReadCurrent \/ JobFails)
  <2>1. ~GroupFree /\ job'.result = job.result
    BY <1>4, EarlyStep
  <2> QED
    BY <2>1 DEF OrderOK
<1>5. CASE Migrate
  BY <1>1, <1>5 DEF Migrate, group, platform
<1>6. CASE Build
  BY <1>6, BuildStep DEF OrderOK, GroupFree
<1>7. CASE SwitchSteps
  <2>1. UNCHANGED <<alias, requests>> /\ job.pc \in Switching /\ job.result = "none"
    BY <1>7, SwitchStep DEF Switching, OrderOK, GroupFree
  <2>2. ASSUME NEW v \in {"success", "failure"}, NEW x \in Results, SwitchEnds(v, x)
        PROVE /\ x = job'.result /\ job'.candidate = job.candidate /\ job'.previous = job.previous
    BY <2>2, SwitchEnded
  <2>3. ASSUME NEW type, NEW target, NEW baseline, Evidence(type, target, baseline),
               wire = {}, Len(requests) \in DOMAIN requests
        PROVE Settled
    <3>1. Terminal(requests[Len(requests)])
      BY <2>3 DEF Evidence, Newest
    <3>2. \A n \in DOMAIN requests : n < Len(requests) \/ n = Len(requests)
      BY RequestTypes
    <3> QED
      BY <2>3, <3>1, <3>2 DEF Settled, RequestsOK
  <2>4. CASE Verify
    <3>1. SwitchEnds("success", "verified") /\ alias = job.candidate
      BY <2>1, <2>4 DEF Verify, GoesTo, Typed, Jobs
    <3>2. Settled /\ UNCHANGED wire
      BY <2>3, <2>4, SeenStep DEF Verify, Evidence, platform
    <3>3. job'.result = "verified" /\ job'.candidate = job.candidate
      BY <2>2, <3>1 DEF Results
    <3> QED
      BY <2>1, <3>1, <3>2, <3>3 DEF Settled
  <2>5. CASE RolledBack
    <3>1. CASE SwitchEnds("failure", "rolled-back") /\ alias = job.previous
      <4>1. Settled /\ UNCHANGED wire
        BY <2>3, <2>5, SeenStep DEF RolledBack, Evidence, platform
      <4>2. job'.result = "rolled-back" /\ job'.previous = job.previous
        BY <2>2, <3>1 DEF Results
      <4> QED
        BY <2>1, <3>1, <4>1, <4>2 DEF Settled
    <3>2. CASE SwitchEnds("failure", "unverified")
      BY <2>2, <3>2 DEF Results
    <3> QED
      BY <2>5, <3>1, <3>2 DEF RolledBack
  <2>6. CASE Promote \/ VerifyFails \/ Recover \/ Rollback \/ GiveUp \/ SwitchBreaks
    <3>1. \/ job'.result = "none" \/ SwitchEnds("failure", "not attempted")
          \/ SwitchEnds("failure", "unverified")
      BY <2>1, <2>6 DEF Promote, VerifyFails, Recover, Rollback, GiveUp, SwitchBreaks, GoesTo, Typed, Jobs
    <3> QED
      BY <2>2, <3>1 DEF Results
  <2> QED
    BY <1>7, <2>4, <2>5, <2>6 DEF SwitchSteps
<1>8. ASSUME NEW c \in wire, Land(c)
      PROVE There' /\ Settled'
  <2>1. UNCHANGED job /\ ~Settled
    BY <1>8, LandStep DEF group, Settled
  <2>2. \A n \in DOMAIN requests : n \in DOMAIN requests' /\ requests'[n] = requests[n]
    BY <1>8, LandStep, RequestTypes
  <2> QED
    BY <2>1, <2>2 DEF GroupFree
<1>9. ASSUME NEW c \in wire, IsLost(c)
      PROVE There' /\ Settled'
  <2>1. UNCHANGED <<job, requests>> /\ ~Settled
    BY <1>9 DEF IsLost, group, Settled
  <2> QED
    BY <2>1 DEF GroupFree
<1>10. ASSUME NEW n \in DOMAIN requests, Moves(n) \/ Succeeds(n) \/ RequestFails(n)
       PROVE There' /\ Settled'
  <2>1. UNCHANGED job /\ Live(requests[n]) /\ DOMAIN requests' = DOMAIN requests
        /\ \A k \in DOMAIN requests : requests'[k].by = requests[k].by
    BY <1>10, StatusStep DEF group
  <2>2. ~Settled
    BY <2>1, RequestTypes DEF Settled
  <2> QED
    BY <2>1, <2>2 DEF GroupFree
<1>11. ASSUME NEW d \in DOMAIN builds, SwitchByHand(d)
       PROVE There' /\ Settled'
  <2>1. UNCHANGED job /\ Len(requests) + 1 \in DOMAIN requests' /\ requests'[Len(requests) + 1].by = 0
    BY <1>11, ByHandStep, RequestTypes DEF group
  <2>2. job.baseline < Len(requests) + 1
    BY RequestTypes DEF RequestsOK
  <2>3. job.run # 0
    BY <2>1, VerdictTypes DEF OrderOK
  <2> QED
    BY <2>1, <2>2, <2>3
<1> QED
  BY Steps, <1>1, <1>2, <1>3, <1>4, <1>5, <1>6, <1>7, <1>8, <1>9, <1>10, <1>11
     DEF vars, group, platform

-----------------------------------------------------------------------------
LEMMA DeliveryInvHolds == Spec => []Inv
<1>1. Init => Inv
  <2> SUFFICES ASSUME Init PROVE Inv
    OBVIOUS
  <2>1. Typed
    BY InitTyped
  <2>2. /\ builds = <<0>> /\ alias = 1 /\ requests = <<>> /\ wire = {} /\ verdicts = <<>>
        /\ waiting = 0 /\ applied = Needs[0]
        /\ job.pc = "ended" /\ job.result = "none" /\ job.baseline = 0
    BY DEF Init, Ended
  <2>3. Len(requests) = 0 /\ DOMAIN requests = {} /\ DOMAIN verdicts = {}
        /\ DOMAIN builds = {1} /\ builds[1] = 0 /\ Needs[0] \in Nat
    BY <2>2, Constants, DeliveryAssumption
  <2> QED
    BY <2>1, <2>2, <2>3 DEF Inv, BuiltOK, OrderOK, BlocksOK, WireOK, RequestsOK, ResultsStand, GroupFree,
       Deployable, Switching, AtStep
<1>2. Inv /\ [Next]_vars => Inv'
  <2> SUFFICES ASSUME Inv, [Next]_vars PROVE Inv'
    OBVIOUS
  <2> USE DEF Inv
  <2>1. Typed'
    BY TypedNext
  <2>2. BuiltOK'
    BY <2>1, BuiltNext
  <2>3. OrderOK'
    BY <2>1, OrderNext
  <2>4. BlocksOK'
    BY <2>1, BlocksNext
  <2>5. WireOK'
    BY <2>1, <2>3, <2>4, WireNext
  <2>6. RequestsOK'
    BY <2>1, RequestsNext
  <2>7. ResultsStand'
    BY <2>1, <2>3, <2>6, ResultsNext
  <2> QED
    BY <2>1, <2>2, <2>3, <2>4, <2>5, <2>6, <2>7
<1> QED
  BY <1>1, <1>2, PTL DEF Spec

(* What a run told of its switch stays true until somebody else asks for    *)
(* one, for any number of runs, lost or late requests and broken switches.  *)
THEOREM ResultsAreFinal == Spec => []ResultsStand
<1>1. Inv => ResultsStand
  BY DEF Inv
<1> QED
  BY <1>1, DeliveryInvHolds, PTL

(* Whatever becomes production, at whatever time, by a run, a rollback or   *)
(* the operator's hand, finds its migrations in the database.               *)
THEOREM SchemaComesFirst == Spec => []ServedCodeHasItsSchema
<1>1. Inv => ServedCodeHasItsSchema
  BY DEF Inv, BuiltOK, Deployable, ServedCodeHasItsSchema
<1> QED
  BY <1>1, DeliveryInvHolds, PTL

(* The gate looks at one verdict, the newest; that is enough for no run to  *)
(* switch while the switch of any other has failed.                         *)
THEOREM GateBlocks == Spec => []FailedSwitchesBlock
<1>1. Inv => FailedSwitchesBlock
  BY DEF Inv, BlocksOK, FailedSwitchesBlock
<1> QED
  BY <1>1, DeliveryInvHolds, PTL
=============================================================================
