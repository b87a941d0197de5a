------------------------------ MODULE Delivery ------------------------------
(***************************************************************************)
(* Delivery of main to production: .github/workflows/deploy-production.yml *)
(* and its scripts deploy-gate.mjs and production-switch.mjs, with the     *)
(* operator of docs/operations/release-guide.md, section 12.               *)
(*                                                                         *)
(* The end of a CI workflow wakes a run of the delivery.  One run is       *)
(* active and one waits; a newer one takes the place of the one that       *)
(* waits.  The run delivers what main is when it starts: it checks CI and  *)
(* the schema, migrates, builds a candidate and switches the alias of      *)
(* production to it.  The switch is a request that the platform carries    *)
(* out while, or after, the run waits for it.                              *)
(*                                                                         *)
(* What does not go well is counted against a budget, MaxUpsets, so that   *)
(* a bounded number of failures is explored in every order.                *)
(***************************************************************************)
EXTENDS Naturals, Sequences, FiniteSets

CONSTANTS
  MaxCommit,   \* bound of the model: commits pushed to main, after commit 0
  Needs,       \* [0 .. MaxCommit -> number of its last migration]
  Workflows,   \* "Application", "Foundation"
  MaxUpsets    \* bound of the model

VARIABLES
  head,        \* the commit main points to
  ci,          \* [commits -> [Workflows -> "none", "running", "success" or "failure"]]
  verdicts,    \* of every run: of the last attempt that had a switch job, or "none"
  waiting,     \* the run that waits for the group, or 0
  job,         \* the active run, or the last one
  builds,      \* the deployments: the commit each was built from
  alias,       \* the deployment that production points to
  requests,    \* alias requests, in the order of requestedAt; by a run, or 0
  wire,        \* commands the platform has not received yet
  applied,     \* number of the last migration applied to the database
  manual,      \* the operator has switched by hand
  upsets

group == <<verdicts, waiting, job>>
platform == <<builds, alias, requests, wire>>
vars == <<head, ci, group, platform, applied, manual, upsets>>

Shas == 0 .. MaxCommit

ASSUME DeliveryAssumption == MaxCommit \in Nat /\ Needs \in [Shas -> Nat]

Ended == [run |-> 0, pc |-> "ended", sha |-> 0, previous |-> 0, candidate |-> 0,
          baseline |-> 0, promoted |-> 0, result |-> "none"]

Init ==
  /\ head = 0
  /\ ci = [c \in Shas |-> [w \in Workflows |-> IF c = 0 THEN "success" ELSE "none"]]
  /\ verdicts = <<>> /\ waiting = 0 /\ job = Ended
  /\ builds = <<0>> /\ alias = 1 /\ requests = <<>> /\ wire = {}
  /\ applied = Needs[0]
  /\ manual = FALSE /\ upsets = 0

Upset == upsets < MaxUpsets /\ upsets' = upsets + 1

-----------------------------------------------------------------------------
(* Commits, CI and the runs they wake.                                      *)

Push ==
  /\ head < MaxCommit
  /\ head' = head + 1
  /\ ci' = [ci EXCEPT ![head + 1] = [w \in Workflows |-> "running"]]
  /\ UNCHANGED <<group, platform, applied, manual, upsets>>

(* workflow_run, completed: whatever its conclusion, it wakes a run, which  *)
(* takes the place of the one that waits.                                   *)
Wake ==
  /\ verdicts' = Append(verdicts, "none")
  /\ waiting' = Len(verdicts) + 1
  /\ UNCHANGED job

CISucceeds(c, w) ==
  /\ ci[c][w] = "running"
  /\ ci' = [ci EXCEPT ![c][w] = "success"]
  /\ Wake
  /\ UNCHANGED <<head, platform, applied, manual, upsets>>

CIFails(c, w) ==
  /\ ci[c][w] = "running" /\ Upset
  /\ ci' = [ci EXCEPT ![c][w] = "failure"]
  /\ Wake
  /\ UNCHANGED <<head, platform, applied, manual>>

(* Someone runs CI of a commit again, the old one of another commit too.    *)
CIRunsAgain(c, w) ==
  /\ ci[c][w] \in {"success", "failure"} /\ Upset
  /\ ci' = [ci EXCEPT ![c][w] = "running"]
  /\ UNCHANGED <<head, group, platform, applied, manual>>

GroupFree == job.pc = "ended"

StartRun ==
  /\ GroupFree /\ waiting # 0
  /\ job' = [Ended EXCEPT !.run = waiting, !.pc = "gate"]
  /\ waiting' = 0
  /\ UNCHANGED <<head, ci, verdicts, platform, applied, manual, upsets>>

(* Mutant: the earlier attempts of the run itself count.                    *)
SwitchedAtAll(r) == {n \in DOMAIN verdicts : verdicts[n] # "none"}

(* Mutant: only the newest other run is looked at.                          *)
NewestBlocks(r) ==
  \E n \in DOMAIN verdicts \ {r} : /\ \A k \in DOMAIN verdicts \ {r} : k <= n
                                   /\ verdicts[n] = "failure"

(* previousSwitchBlocks: the newest other run with a switch decides.        *)
Switched(r) == {n \in DOMAIN verdicts \ {r} : verdicts[n] # "none"}

Blocked(r) ==
  \E n \in Switched(r) : /\ \A k \in Switched(r) : k <= n
                         /\ verdicts[n] = "failure"

-----------------------------------------------------------------------------
(* The run, up to the candidate.                                            *)

AtStep(pc) == job.pc = pc
GoesTo(pc) == job' = [job EXCEPT !.pc = pc]
Ends == job' = [job EXCEPT !.pc = "ended"] /\ UNCHANGED verdicts

(* evaluateCurrentMain: the target is main as it is now, not the commit     *)
(* whose CI woke the run.                                                   *)
Gate ==
  /\ AtStep("gate")
  /\ IF /\ ~Blocked(job.run)
        /\ \A w \in Workflows : ci[head][w] = "success"
     THEN job' = [job EXCEPT !.pc = "schema", !.sha = head] /\ UNCHANGED verdicts
     ELSE Ends
  /\ UNCHANGED <<head, ci, waiting, platform, applied, manual, upsets>>

(* db:check and classifySchema.                                             *)
CheckSchema ==
  /\ AtStep("schema")
  /\ GoesTo(IF applied = Needs[job.sha] THEN "deploy" ELSE "approval")
  /\ UNCHANGED <<head, ci, verdicts, waiting, platform, applied, manual, upsets>>

(* The approval, and the check that main is still the same.                 *)
Approve ==
  /\ AtStep("approval")
  /\ IF head = job.sha THEN GoesTo("migrate") /\ UNCHANGED verdicts ELSE Ends
  /\ UNCHANGED <<head, ci, waiting, platform, applied, manual, upsets>>

(* db:migrate, a file at a time, and db:check.                              *)
Migrate ==
  /\ AtStep("migrate") /\ applied < Needs[job.sha]
  /\ applied' = applied + 1
  /\ UNCHANGED <<head, ci, group, platform, manual, upsets>>

CheckAgain ==
  /\ AtStep("migrate") /\ applied = Needs[job.sha]
  /\ GoesTo("deploy")
  /\ UNCHANGED <<head, ci, verdicts, waiting, platform, applied, manual, upsets>>

(* Production already is this commit, or it is what the switch goes back to. *)
ReadCurrent ==
  /\ AtStep("deploy")
  /\ IF builds[alias] = job.sha THEN Ends
     ELSE job' = [job EXCEPT !.pc = "build", !.previous = alias] /\ UNCHANGED verdicts
  /\ UNCHANGED <<head, ci, waiting, platform, applied, manual, upsets>>

Build ==
  /\ AtStep("build")
  /\ IF head = job.sha
     THEN /\ builds' = Append(builds, job.sha)
          /\ job' = [job EXCEPT !.pc = "switch", !.candidate = Len(builds) + 1]
          /\ UNCHANGED verdicts
     ELSE Ends /\ UNCHANGED builds
  /\ UNCHANGED <<head, ci, waiting, alias, requests, wire, applied, manual, upsets>>

(* Mutant: the deployment only asks whether the schema was stopped.         *)
DeploysAnyway(pc) == IF pc \in {"approval", "migrate"} THEN "deploy" ELSE "ended"

(* A job before the switch fails or is cancelled; a failed migration leads  *)
(* to no deployment.                                                        *)
AfterFailure(pc) == "ended"

JobFails ==
  /\ job.pc \in {"gate", "schema", "approval", "migrate", "deploy", "build"} /\ Upset
  /\ GoesTo(AfterFailure(job.pc))
  /\ UNCHANGED <<head, ci, verdicts, waiting, platform, applied, manual>>

-----------------------------------------------------------------------------
(* The switch, production-switch.mjs.                                       *)

Live(r) == r.status \in {"pending", "in-progress"}
Terminal(r) == r.status \in {"succeeded", "failed"}
Newest == requests[Len(requests)]

(* requestState: the newest request is the one that was asked for.          *)
Seen(type, target, baseline) ==
  /\ Len(requests) > baseline
  /\ Newest.type = type /\ Newest.target = target

(* Mutant: a request that is under way counts as one that has ended.        *)
AnyEvidence(type, target, baseline) == Seen(type, target, baseline)

Evidence(type, target, baseline) == Seen(type, target, baseline) /\ Terminal(Newest)

SwitchEnds(verdict, result) ==
  /\ verdicts' = [verdicts EXCEPT ![job.run] = verdict]
  /\ job' = [job EXCEPT !.pc = "ended", !.result = result]

Send(type, target) == wire' = wire \union {[type |-> type, target |-> target, run |-> job.run]}

(* The head check and preflight; attemptPromotion records the attempt and   *)
(* then sends the command.                                                  *)
Preflight ==
  /\ head = job.sha
  /\ requests # <<>> => Terminal(Newest)
  /\ alias = job.previous

Promote ==
  /\ AtStep("switch")
  /\ \/ /\ Preflight
        /\ job' = [job EXCEPT !.pc = "verify", !.baseline = Len(requests)]
        /\ Send("promote", job.candidate)
        /\ UNCHANGED verdicts
     \/ /\ ~Preflight
        /\ SwitchEnds("failure", "not attempted")
        /\ UNCHANGED wire
  /\ UNCHANGED <<head, ci, waiting, builds, alias, requests, applied, manual, upsets>>

(* verify: the request has ended, production is the candidate and works.    *)
Verify ==
  /\ AtStep("verify")
  /\ Evidence("promote", job.candidate, job.baseline)
  /\ IF Newest.status = "succeeded" /\ alias = job.candidate
     THEN SwitchEnds("success", "verified")
     ELSE GoesTo("recover") /\ UNCHANGED verdicts
  /\ UNCHANGED <<head, ci, waiting, platform, applied, manual, upsets>>

(* The command or its verification fails, times out or is cancelled.        *)
VerifyFails ==
  /\ AtStep("verify") /\ Upset
  /\ GoesTo("recover")
  /\ UNCHANGED <<head, ci, verdicts, waiting, platform, applied, manual>>

(* recover: no rollback while the promotion may still be under way, nor     *)
(* over a switch of somebody else.                                          *)
Recover ==
  /\ AtStep("recover")
  /\ Evidence("promote", job.candidate, job.baseline)
  /\ IF alias \in {job.candidate, job.previous}
     THEN /\ job' = [job EXCEPT !.pc = "rollback", !.promoted = Len(requests)]
          /\ UNCHANGED verdicts
     ELSE SwitchEnds("failure", "unverified")
  /\ UNCHANGED <<head, ci, waiting, platform, applied, manual, upsets>>

Rollback ==
  /\ AtStep("rollback")
  /\ IF Len(requests) = job.promoted
     THEN /\ GoesTo("rolling") /\ UNCHANGED verdicts
          /\ Send("rollback", job.previous)
     ELSE SwitchEnds("failure", "unverified") /\ UNCHANGED wire
  /\ UNCHANGED <<head, ci, waiting, builds, alias, requests, applied, manual, upsets>>

RolledBack ==
  /\ AtStep("rolling")
  /\ Evidence("rollback", job.previous, job.promoted)
  /\ SwitchEnds("failure", IF Newest.status = "succeeded" /\ alias = job.previous
                           THEN "rolled-back" ELSE "unverified")
  /\ UNCHANGED <<head, ci, waiting, platform, applied, manual, upsets>>

(* The time to wait ends with no request that could still be the one.       *)
GiveUp ==
  /\ job.pc \in {"verify", "recover", "rolling"}
  /\ \A c \in wire : c.run # job.run
  /\ ~(\/ job.pc = "rolling" /\ Seen("rollback", job.previous, job.promoted)
       \/ job.pc # "rolling" /\ Seen("promote", job.candidate, job.baseline))
  /\ IF AtStep("verify") THEN GoesTo("recover") /\ UNCHANGED verdicts
     ELSE SwitchEnds("failure", "unverified")
  /\ UNCHANGED <<head, ci, waiting, platform, applied, manual, upsets>>

(* The runner is lost, the run is cancelled by force, the time ends early.  *)
SwitchBreaks ==
  /\ job.pc \in {"switch", "verify", "recover", "rollback", "rolling"} /\ Upset
  /\ SwitchEnds("failure", "unverified")
  /\ UNCHANGED <<head, ci, waiting, platform, applied, manual>>

-----------------------------------------------------------------------------
(* The platform.                                                            *)

Land(c) ==
  /\ c \in wire
  /\ wire' = wire \ {c}
  /\ requests' = Append(requests, [type |-> c.type, target |-> c.target, by |-> c.run,
                                   status |-> "pending"])
  /\ UNCHANGED <<head, ci, group, builds, alias, applied, manual, upsets>>

IsLost(c) ==
  /\ c \in wire /\ Upset
  /\ wire' = wire \ {c}
  /\ UNCHANGED <<head, ci, group, builds, alias, requests, applied, manual>>

Status(n, s) == requests' = [requests EXCEPT ![n].status = s]

Moves(n) ==
  /\ requests[n].status = "pending"
  /\ Status(n, "in-progress") /\ alias' = requests[n].target
  /\ UNCHANGED <<head, ci, group, builds, wire, applied, manual, upsets>>

Succeeds(n) ==
  /\ requests[n].status = "in-progress"
  /\ Status(n, "succeeded")
  /\ UNCHANGED <<head, ci, group, builds, alias, wire, applied, manual, upsets>>

(* Failed or skipped, before or after the alias has moved.                  *)
RequestFails(n) ==
  /\ Live(requests[n]) /\ Upset
  /\ Status(n, "failed")
  /\ UNCHANGED <<head, ci, group, builds, alias, wire, applied, manual>>

-----------------------------------------------------------------------------
(* The operator.                                                            *)

Settled == wire = {} /\ \A n \in DOMAIN requests : Terminal(requests[n])

(* A switch by hand, when nothing that was asked for is under way; a run    *)
(* may be at any step but waiting for its own request.                      *)
SwitchByHand(d) ==
  /\ ~manual /\ Upset
  /\ Settled
  /\ requests' = Append(requests, [type |-> "rollback", target |-> d, by |-> 0,
                                   status |-> "pending"])
  /\ manual' = TRUE
  /\ UNCHANGED <<head, ci, group, builds, alias, wire, applied>>

(* The delivery has stopped, and main is not in production.                 *)
Stopped == GroupFree /\ waiting = 0 /\ Settled /\ builds[alias] # head
Green == \A w \in Workflows : ci[head][w] = "success"

(* The run whose switch blocks the others is run again as a whole.          *)
RunAgain ==
  /\ Stopped /\ Green
  /\ \E r \in DOMAIN verdicts :
       /\ verdicts[r] = "failure" /\ \A n \in DOMAIN verdicts : n > r => verdicts[n] = "none"
       /\ waiting' = r
  /\ UNCHANGED <<head, ci, verdicts, job, platform, applied, manual, upsets>>

(* CI of main is run again: what has failed of it or, when nothing else     *)
(* will wake a run, one that has not.                                       *)
WakeAgain(w) ==
  /\ Stopped /\ ci[head][w] \in {"success", "failure"}
  /\ IF Green THEN ~Blocked(0) ELSE ci[head][w] = "failure"
  /\ ci' = [ci EXCEPT ![head][w] = "running"]
  /\ UNCHANGED <<head, group, platform, applied, manual, upsets>>

-----------------------------------------------------------------------------
RunNext ==
  \/ StartRun \/ Gate \/ CheckSchema \/ Approve \/ Migrate \/ CheckAgain \/ ReadCurrent
  \/ Build \/ Promote \/ Verify \/ Recover \/ Rollback \/ RolledBack \/ GiveUp

PlatformNext ==
  \/ \E c \in wire : Land(c)
  \/ \E n \in DOMAIN requests : Moves(n) \/ Succeeds(n)

OperatorNext == RunAgain \/ \E w \in Workflows : WakeAgain(w)

UpsetNext ==
  \/ JobFails \/ VerifyFails \/ SwitchBreaks
  \/ \E c \in wire : IsLost(c)
  \/ \E n \in DOMAIN requests : RequestFails(n)
  \/ \E d \in DOMAIN builds : SwitchByHand(d)
  \/ \E c \in Shas, w \in Workflows : CIFails(c, w) \/ CIRunsAgain(c, w)

Next ==
  \/ Push \/ RunNext \/ PlatformNext \/ OperatorNext \/ UpsetNext
  \/ \E c \in Shas, w \in Workflows : CISucceeds(c, w)

(* Runs, the platform and CI go on, and the operator answers a delivery     *)
(* that has stopped.  Nothing is assumed of pushes and failures.            *)
Fairness ==
  /\ WF_vars(RunNext) /\ WF_vars(PlatformNext) /\ WF_vars(OperatorNext)
  /\ \A c \in Shas, w \in Workflows : WF_vars(CISucceeds(c, w))

Spec == Init /\ [][Next]_vars /\ Fairness

-----------------------------------------------------------------------------
(* What a run told of its switch stays true until somebody else asks for    *)
(* one: nothing it or an earlier run has asked for can still move           *)
(* production away from it (production-switch.mjs).                         *)
ResultsStand ==
  /\ GroupFree /\ job.result \in {"verified", "rolled-back"}
  /\ \A n \in DOMAIN requests : n > job.baseline => requests[n].by = job.run
  => /\ alias = IF job.result = "verified" THEN job.candidate ELSE job.previous
     /\ Settled

(* Production never runs code whose migrations the database does not have   *)
(* (deploy-production.yml, schema, migrate and deploy).                     *)
ServedCodeHasItsSchema == applied >= Needs[builds[alias]]

(* No run switches while a switch of another run has failed and was not     *)
(* answered (deploy-gate.mjs, switchBlocks).                                *)
FailedSwitchesBlock ==
  job.pc \in {"switch", "verify", "recover", "rollback", "rolling"} =>
    \A r \in DOMAIN verdicts \ {job.run} : verdicts[r] # "failure"

(* When the pushes end, production becomes main and stays it, whatever      *)
(* waiting run was replaced by which, and however often a step has failed,  *)
(* unless the operator has switched by hand.                                *)
MainIsDeployed == <>[](builds[alias] = head \/ manual)
=============================================================================
