------------------------------ MODULE DemoSeed ------------------------------
(***************************************************************************)
(* Installing the two goals of the demonstration, apps/api/src/db/         *)
(* seed-demo.ts, by operators who run the command at the same time for one *)
(* account, while its owner creates and deletes goals over the API.        *)
(*                                                                         *)
(* The writes of a seeder and its COMMIT are one step, because nobody sees *)
(* them before; the locks it has taken until then are not.                 *)
(***************************************************************************)
EXTENDS Naturals, Functions

CONSTANTS
  Seeders,     \* runs of the command
  Slots,       \* 'fast-resumption', 'slow-resumption'
  MaxGoals,    \* bound of the model: goals ever created
  NoMarker     \* no row in demo_seed_goal

VARIABLES
  goals,       \* ids of the account's goals
  markers,     \* demo_seed_goal: [Slots -> id or NoMarker]
  madeBy,      \* [ids ever given -> the seeder that made the goal, or "owner"] (history)
  installed,   \* the markers that the last COMMIT of a seeder wrote (history)
  deleted,     \* ids the owner has deleted (history)
  seeders      \* [Seeders -> the state of seedDemo()]

seedVars == <<goals, markers, madeBy, installed, deleted, seeders>>

ASSUME SeedAssumption ==
  /\ MaxGoals \in Nat /\ NoMarker \notin Nat
  /\ "owner" \notin Seeders

SeedInit ==
  /\ goals = {} /\ madeBy = <<>> /\ deleted = {}
  /\ markers = [x \in Slots |-> NoMarker] /\ installed = markers
  /\ seeders = [s \in Seeders |->
       [pc |-> "start", locked |-> {}, marked |-> {}, told |-> "nothing", committed |-> FALSE]]

Marked == {markers[x] : x \in Slots} \ {NoMarker}
Fresh == 1 .. MaxGoals \ DOMAIN madeBy
Makes(ids, who) == madeBy' = [g \in DOMAIN madeBy \union ids |-> IF g \in ids THEN who ELSE madeBy[g]]

(* The transaction is open on the server, with its locks.                   *)
Open(s) == seeders[s].pc \in {"locking", "reading", "writing", "lingering"}

(* pg_advisory_xact_lock of the account: one transaction has it.            *)
MayLockAccount(s) == \A t \in Seeders \ {s} : ~Open(t)

(* Mutant: the goals are read without FOR UPDATE.                           *)
LockedUnheld(s) == {}

(* Goal rows the seeder holds FOR UPDATE.                                   *)
Locked(s) == IF Open(s) THEN seeders[s].locked ELSE {}

Seeding(s, pc) == seeders[s].pc = pc

Tells(s, told, pc) == seeders' = [seeders EXCEPT ![s].told = told, ![s].pc = pc]

-----------------------------------------------------------------------------
(* INVALID_INPUT, AUTH_USER_NOT_FOUND, a lock that is not had in 30 s: the  *)
(* transaction has done nothing.                                            *)
Refuse(s) ==
  /\ Seeding(s, "start")
  /\ Tells(s, "failed", "ended")
  /\ UNCHANGED <<goals, markers, madeBy, installed, deleted>>

LockAccount(s) ==
  /\ Seeding(s, "start") /\ MayLockAccount(s)
  /\ seeders' = [seeders EXCEPT ![s].pc = "locking"]
  /\ UNCHANGED <<goals, markers, madeBy, installed, deleted>>

(* The marked goals, locked in the order of their ids.                      *)
LockGoals(s) ==
  /\ Seeding(s, "locking")
  /\ seeders' = [seeders EXCEPT ![s].pc = "reading", ![s].locked = Marked \intersect goals]
  /\ UNCHANGED <<goals, markers, madeBy, installed, deleted>>

(* The markers again, in a statement of their own.                          *)
ReadMarkers(s) ==
  /\ Seeding(s, "reading")
  /\ seeders' = [seeders EXCEPT ![s].pc = "writing", ![s].marked = Marked]
  /\ UNCHANGED <<goals, markers, madeBy, installed, deleted>>

(* Both tests of the ownership: the markers are of locked goals, and every  *)
(* one of these is deleted.                                                 *)
Owned(s) == seeders[s].marked \subseteq seeders[s].locked \intersect goals

OwnershipInvalid(s) ==
  /\ Seeding(s, "writing") /\ ~Owned(s)
  /\ Tells(s, "OWNERSHIP_INVALID", "ended")
  /\ UNCHANGED <<goals, markers, madeBy, installed, deleted>>

(* Mutant: the loop over the slots ends with the first of them.             *)
ReplacesFirst(s) ==
  \E x \in Slots, g \in Fresh :
    /\ goals' = (goals \ seeders[s].marked) \union {g}
    /\ markers' = [y \in Slots |-> IF y = x THEN g ELSE NoMarker]
    /\ installed' = markers'
    /\ Makes({g}, s)
    /\ UNCHANGED deleted

(* DELETE with its cascade, then a goal and a marker per slot.              *)
Replaces(s) ==
  \E id \in {f \in [Slots -> Fresh] : IsInjective(f)} :
    LET new == {id[x] : x \in Slots}
    IN /\ goals' = (goals \ seeders[s].marked) \union new
       /\ markers' = id /\ installed' = id
       /\ Makes(new, s)
       /\ UNCHANGED deleted

Commit(s) ==
  /\ Seeding(s, "writing") /\ Owned(s)
  /\ Replaces(s)
  /\ seeders' = [seeders EXCEPT ![s].pc = "ended", ![s].told = "ok", ![s].committed = TRUE]

(* Mutant: a failed COMMIT is reported as any other failure.                *)
OutcomeIsFailure(committed) == "failed"

(* COMMIT was sent: its answer is lost, or it is not carried out.           *)
OutcomeOfCommit(committed) == "COMMIT_OUTCOME_UNKNOWN"

CommitUnanswered(s) ==
  /\ Seeding(s, "writing") /\ Owned(s)
  /\ Replaces(s)
  /\ seeders' = [seeders EXCEPT ![s].pc = "ended", ![s].told = OutcomeOfCommit(TRUE),
                                ![s].committed = TRUE]

CommitNotDone(s) ==
  /\ Seeding(s, "writing") /\ Owned(s)
  /\ Tells(s, OutcomeOfCommit(FALSE), "lingering")
  /\ UNCHANGED <<goals, markers, madeBy, installed, deleted>>

(* A statement fails: ROLLBACK ends the transaction, or it is lost with the *)
(* connection (ROLLBACK_FAILED, a crash) and the server ends it later.      *)
Fail(s) ==
  /\ Open(s) /\ ~Seeding(s, "lingering")
  /\ \E pc \in {"ended", "lingering"} : Tells(s, "failed", pc)
  /\ UNCHANGED <<goals, markers, madeBy, installed, deleted>>

ServerAborts(s) ==
  /\ Seeding(s, "lingering")
  /\ seeders' = [seeders EXCEPT ![s].pc = "ended"]
  /\ UNCHANGED <<goals, markers, madeBy, installed, deleted>>

-----------------------------------------------------------------------------
(* createGoal and deleteGoal of the account, which know nothing of demos.   *)

OwnerCreates ==
  \E g \in Fresh :
    /\ goals' = goals \union {g}
    /\ Makes({g}, "owner")
    /\ UNCHANGED <<markers, installed, deleted, seeders>>

OwnerDeletes ==
  \E g \in goals :
    /\ \A s \in Seeders : g \notin Locked(s)
    /\ goals' = goals \ {g}
    /\ markers' = [x \in Slots |-> IF markers[x] = g THEN NoMarker ELSE markers[x]]
    /\ deleted' = deleted \union {g}
    /\ UNCHANGED <<madeBy, installed, seeders>>

SeederNext(s) ==
  \/ Refuse(s) \/ LockAccount(s) \/ LockGoals(s) \/ ReadMarkers(s)
  \/ OwnershipInvalid(s) \/ Commit(s) \/ CommitUnanswered(s) \/ CommitNotDone(s)
  \/ Fail(s) \/ ServerAborts(s)

SeedNext == (\E s \in Seeders : SeederNext(s)) \/ OwnerCreates \/ OwnerDeletes

SeedSpec == SeedInit /\ [][SeedNext]_seedVars

-----------------------------------------------------------------------------
(* The goals that a committed seeder left behind: one of its own in every   *)
(* slot, and no goal in two.                                                *)
InstalledBy(s) ==
  /\ seeders[s].committed
  /\ \A x \in Slots : installed[x] \in DOMAIN madeBy /\ madeBy[installed[x]] = s
  /\ IsInjective(installed)

NothingInstalled ==
  /\ \A s \in Seeders : ~seeders[s].committed
  /\ \A x \in Slots : installed[x] = NoMarker

(* The demonstration is installed as a whole or not at all, and only        *)
(* replaces itself.  As installed, every slot has a goal of its own, all of *)
(* one seeder; of these the account has every one, marked, but those its    *)
(* owner has deleted since.  Every seeded goal is marked, so that the next  *)
(* seeder replaces it, and no goal of the owner's own is lost but by the    *)
(* owner; and what a seeder told is true, OWNERSHIP_INVALID never among it  *)
(* (seed-demo.ts).                                                          *)
SeedIsAllOrNothing ==
  /\ NothingInstalled \/ \E s \in Seeders : InstalledBy(s)
  /\ \A x \in Slots :
       \/ markers[x] = installed[x]
       \/ markers[x] = NoMarker /\ installed[x] \in deleted
  /\ Marked \subseteq goals
  /\ \A g \in goals : madeBy[g] # "owner" => g \in Marked
  /\ \A g \in DOMAIN madeBy \ goals : madeBy[g] = "owner" => g \in deleted
  /\ \A s \in Seeders :
       /\ seeders[s].told # "OWNERSHIP_INVALID"
       /\ seeders[s].told = "ok" => seeders[s].committed
       /\ seeders[s].told = "failed" => ~seeders[s].committed
=============================================================================
