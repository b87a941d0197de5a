----------------------------- MODULE CreateForm -----------------------------
(***************************************************************************)
(* Creating a goal from the browser: the form of /goals/new, the operation *)
(* it keeps in sessionStorage until its outcome is known, the mutations in *)
(* flight, and the server's ledger of creations.                           *)
(* (apps/web/src/features/goals, apps/api/src/goals/routes.ts)             *)
(*                                                                         *)
(* The page (GoalCreatePage) outlives its form: a check of the session     *)
(* unmounts the form at once, in the render the session's change causes,   *)
(* and mounts another when the boundary opens again; what the mutations of *)
(* the first one report reaches the page, which accepts it only during the *)
(* visit it was sent from, without a break in the session's continuity     *)
(* (acceptsVisit).  Both only go forward: what the page would no longer    *)
(* accept is dropped here at once (Forgets).  Leaving the page, or         *)
(* reloading the tab, keeps only sessionStorage.                           *)
(*                                                                         *)
(* A body is its author and one of BodyKinds: "sound", "dated" (its target *)
(* date may come to lie in the past) or "unsound" (passes the form's       *)
(* checks, not the contract's).  Equal keys mean equal bodies, so a key is *)
(* never refused for another body.  An input also has the generation it    *)
(* was typed in, None when it comes from an operation: history too.        *)
(* issued, settled and rejected are history: no guard reads the last two.  *)
(***************************************************************************)
EXTENDS WebSession

CONSTANTS
  Keys,          \* idempotency keys crypto.randomUUID may return
  BodyKinds,     \* kinds of bodies the users type
  Slots,         \* mutations in flight
  None           \* null, undefined

VARIABLES
  here,          \* the page is shown
  draft,         \* what useMemoryDraft holds
  receipt,       \* what useGoalFormFailure holds
  saved,         \* what useConfirmedGoalSave holds
  form,          \* the mounted GoalForm
  posts,         \* [Slots -> mutation or None]
  storage,       \* [Users -> operation in sessionStorage, or None]
  ledger,        \* creations the server has recorded
  expired,       \* the target date of "dated" bodies has passed
  issued,        \* operations made
  settled,       \* those whose outcome the tab has been told
  rejected       \* those of them that were told 422

pageVars == <<here, draft, receipt, saved, form>>
serverVars == <<ledger, expired>>
historyVars == <<issued, settled, rejected>>
formVars == <<pageVars, posts, storage, serverVars, historyVars>>
vars == <<sessionVars, formVars>>

Operations == [key : Keys, body : [author : Users, kind : BodyKinds]]

(* What the server answers, and what else a mutation may end with.          *)
Answers == {"unknown", "owner", "signedout", "invalid", "saved", "deleted"}

Inputs == [author : Users, kind : BodyKinds, gen : Nat \union {None}]

(* The state of a mounted GoalForm.                                         *)
Forms ==
  [owner : Users, attempt : Operations \union {None}, body : Inputs \union {None},
   failed : Answers \union {"no"}, blocked : {"no", "recovery", "other"},
   op : Operations \union {None}, saving : BOOLEAN]

ASSUME CreateFormAssumption ==
  /\ None \notin Operations /\ None \notin Forms /\ None \notin Keys
  /\ Nobody \notin Users /\ Unknown \notin Owners
  /\ BodyKinds \subseteq {"sound", "dated", "unsound"}

FormInit ==
  /\ here = TRUE
  /\ draft = None /\ receipt = None /\ saved = None /\ form = None
  /\ posts = [s \in Slots |-> None] /\ storage = [u \in Users |-> None]
  /\ ledger = {} /\ expired = FALSE
  /\ issued = {} /\ settled = {} /\ rejected = {}

Init == SessionInit /\ FormInit

-----------------------------------------------------------------------------
(* What the page renders.                                                  *)

(* useConfirmedGoalSave's confirmed.                                       *)
SaveConfirmed == saved # None /\ Ready

(* GoalCreatePage renders the form: not while it waits for a rejected       *)
(* operation to be put away, nor after a confirmed save.                    *)
Shown == /\ here /\ Ready
         /\ ~(receipt # None /\ receipt.complete)
         /\ ~SaveConfirmed

(* useInterruptedOperation: a save sent during this visit, by a form that a *)
(* check of the session has unmounted.                                      *)
Operating == \E s \in Slots : /\ posts[s] # None /\ posts[s].visit
                              /\ posts[s].op.body.author = epoch.owner

Unmounted(p) == [p EXCEPT !.live = FALSE]
Unheard(p)   == [p EXCEPT !.live = FALSE, !.heard = FALSE]
Abandoned(p) == [p EXCEPT !.live = FALSE, !.heard = FALSE, !.visit = FALSE]
Every(Turned(_)) == [s \in Slots |-> IF posts[s] = None THEN None ELSE Turned(posts[s])]

(* acceptsVisit turns false.                                                *)
Forgets == draft' = None /\ receipt' = None /\ saved' = None /\ form' = None

(* Mutant: the held input survives a sign-in.                              *)
RerenderKeepsDraft ==
  IF continuity'.gen # continuity.gen
  THEN /\ draft' = draft /\ receipt' = None /\ saved' = None /\ form' = None
       /\ posts' = Every(Unheard)
  ELSE /\ UNCHANGED <<draft, receipt, saved>>
       /\ IF form # None /\ ~Shown'
          THEN form' = None /\ posts' = Every(Unmounted)
          ELSE UNCHANGED <<form, posts>>

(* The render after a step of the session.                                  *)
Rerender ==
  IF continuity'.gen # continuity.gen
  THEN Forgets /\ posts' = Every(Unheard)
  ELSE /\ UNCHANGED <<draft, receipt, saved>>
       /\ IF form # None /\ ~Shown'
          THEN form' = None /\ posts' = Every(Unmounted)
          ELSE UNCHANGED <<form, posts>>

Boundary == /\ SessionNext
            /\ UNCHANGED <<here, storage, serverVars, historyVars>>
            /\ Rerender

(* What it takes to leave the page: navigation, closing or reloading.       *)
Left ==
  /\ here' = FALSE
  /\ Forgets
  /\ posts' = Every(Abandoned)

Leave == /\ here
         /\ Left
         /\ UNCHANGED <<sessionVars, storage, serverVars, historyVars>>

(* Another visit counts for an upset, and so does an exception of           *)
(* sessionStorage below.                                                    *)
Enter ==
  /\ ~here /\ Upset(TRUE)
  /\ here' = TRUE
  /\ UNCHANGED <<boundaryVars, draft, receipt, saved, form, posts, storage, serverVars,
                 historyVars>>

-----------------------------------------------------------------------------
(* sessionStorage (create-attempt.ts).                                     *)

Input(body, gen) == [author |-> body.author, kind |-> body.kind, gen |-> gen]
BodyOf(input) == [author |-> input.author, kind |-> input.kind]

Readable(op) == op.body.kind # "unsound"

(* clearCreateAttempt: what is stored, when it is another operation, stays. *)
Clears(op) == storage[op.body.author] \in {None, op}
ClearedStorage(op) == [storage EXCEPT ![op.body.author] =
                         IF @ = op THEN None ELSE @]

(* prepareCreateAttempt throws when what is stored cannot be read.          *)
Unreadable(owner) == storage[owner] # None /\ ~Readable(storage[owner])

-----------------------------------------------------------------------------
(* The form.                                                               *)

Definite(answer) == answer \in {"saved", "invalid", "deleted"}

(* What the form knows of its own failure, and gives to the page.           *)
Failure(f) == [failed |-> f.failed, blocked |-> f.blocked,
               op |-> IF f.failed = "no" THEN f.attempt ELSE f.op,
               body |-> f.body, complete |-> FALSE]

(* The two layout effects: what the page holds of the mounted form f.  An   *)
(* input is held only before it has been sent.                              *)
Held(f) ==
  /\ draft' = IF f.attempt = None /\ f.blocked = "no" /\ ~f.saving /\ f.failed = "no"
              THEN f.body
              ELSE None
  /\ receipt' = IF (f.failed # "no" \/ f.blocked # "no") /\ ~f.saving
                THEN Failure(f)
                ELSE IF f.saving THEN None ELSE receipt

FormBecomes(f) == form' = f /\ Held(f)

(* loadRecovery and restoreFormDraft, with the page's receipt and draft.    *)
Restored ==
  LET owner    == epoch.owner
      stored   == storage[owner]
      bad      == Unreadable(owner)
      known    == bad /\ receipt # None /\ receipt.failed = "invalid"
                      /\ receipt.op = stored
      attempt  == IF bad /\ ~known THEN None ELSE stored
      old      == IF /\ receipt # None /\ (~bad \/ known)
                     /\ IF attempt # None THEN receipt.op = attempt
                        ELSE receipt.op = None \/ receipt.failed = "invalid"
                  THEN receipt ELSE None
  IN [owner   |-> owner,
      attempt |-> attempt,
      body    |-> IF attempt # None THEN Input(attempt.body, None)
                  ELSE IF old # None THEN old.body
                  ELSE IF bad THEN None ELSE draft,
      failed  |-> IF old # None THEN old.failed ELSE "no",
      blocked |-> IF bad THEN "recovery" ELSE IF old # None THEN old.blocked ELSE "no",
      op      |-> IF old # None THEN old.op ELSE None,
      saving  |-> FALSE]

Mount ==
  /\ form = None /\ Shown /\ ~Operating
  /\ FormBecomes(Restored)
  /\ UNCHANGED <<sessionVars, here, saved, posts, storage, serverVars, historyVars>>

(* update: the fields are disabled while a save runs or an operation is     *)
(* pending.  Correcting what the contract refused makes it a draft again.   *)
Type ==
  /\ form # None /\ ~form.saving /\ form.attempt = None /\ form.blocked # "recovery"
  /\ \E kind \in BodyKinds :
       LET fresh == [form EXCEPT !.body = [author |-> form.owner, kind |-> kind,
                                           gen |-> continuity.gen]]
       IN IF form.failed = "invalid"
          THEN /\ form' = [fresh EXCEPT !.failed = "no"]
               /\ draft' = form'.body
               /\ receipt' = None
          ELSE FormBecomes(fresh)
  /\ UNCHANGED <<sessionVars, here, saved, posts, storage, serverVars, historyVars>>

(* isCreateBlocked, and a recovery that could not be read.                  *)
MaySubmit == /\ form # None /\ ~form.saving /\ form.blocked # "recovery"
             /\ form.failed \notin {"conflict", "deleted"}

Sends(s, op) ==
  /\ posts[s] = None
  /\ form' = [form EXCEPT !.attempt = op, !.op = op, !.saving = TRUE, !.failed = "no",
                          !.blocked = "no"]
  /\ posts' = [posts EXCEPT ![s] =
       [op |-> op, pc |-> "check", answer |-> "unknown",
        visit |-> TRUE, heard |-> TRUE, live |-> TRUE]]

(* onSubmit: the operation at hand, the one in sessionStorage, or a new one  *)
(* that prepareCreateAttempt stores before anything is sent.                *)
Submit(s) ==
  LET known == IF form.attempt # None THEN form.attempt ELSE storage[form.owner]
  IN /\ MaySubmit
     /\ form.attempt # None \/ ~Unreadable(form.owner)
     /\ draft' = None /\ receipt' = None
     /\ IF known # None
        THEN Sends(s, known) /\ UNCHANGED <<storage, issued>>
        ELSE /\ form.body # None
             /\ \E key \in Keys \ {op.key : op \in issued} :
                  LET op == [key |-> key, body |-> BodyOf(form.body)]
                  IN /\ Sends(s, op)
                     /\ storage' = [storage EXCEPT ![form.owner] = op]
                     /\ issued' = issued \union {op}
     /\ UNCHANGED <<sessionVars, here, saved, serverVars, settled, rejected>>

(* prepareCreateAttempt throws: nothing is sent.                            *)
SubmitThrows ==
  /\ MaySubmit /\ form.attempt = None
  /\ storage[form.owner] = None \/ Unreadable(form.owner)
  /\ Upset(~Unreadable(form.owner))
  /\ FormBecomes([form EXCEPT !.failed = "no",
       !.blocked = IF Unreadable(form.owner) THEN "recovery" ELSE "other"])
  /\ UNCHANGED <<boundaryVars, here, saved, posts, storage, serverVars, historyVars>>

-----------------------------------------------------------------------------
(* A mutation, and the server.                                             *)

At(s, pc) == posts[s] # None /\ posts[s].pc = pc

Answered(s, answer) == posts' = [posts EXCEPT ![s].pc = "answered", ![s].answer = answer]

(* mutationFn looks at the session before it sends anything.                *)
Confirm(s) ==
  /\ At(s, "check")
  /\ \/ cookie = posts[s].op.body.author /\ posts' = [posts EXCEPT ![s].pc = "sent"]
     \/ cookie # posts[s].op.body.author /\ Answered(s, "owner")
     \/ Answered(s, "unknown")
  /\ UNCHANGED <<sessionVars, pageVars, storage, serverVars, historyVars>>

(* POST /api/goals, for whoever the cookie names by now: the guard, the     *)
(* contract, the owner the operation was made by, and createGoalOnce.       *)
Created(op) == {e \in ledger : e.owner = cookie /\ e.op = op}

(* Mutant: whose operation it is goes unchecked.                           *)
ReplyToAnyone(op) ==
  IF cookie = Nobody THEN "signedout"
  ELSE IF op.body.kind = "unsound" THEN "invalid"
  ELSE IF Created(op) # {} THEN IF \E e \in Created(op) : e.alive THEN "saved" ELSE "deleted"
  ELSE IF op.body.kind = "dated" /\ expired THEN "invalid"
  ELSE "saved"

(* Mutant: the target date is looked at before the ledger.                 *)
ReplyDateFirst(op) ==
  IF cookie = Nobody THEN "signedout"
  ELSE IF op.body.kind = "unsound" THEN "invalid"
  ELSE IF cookie # op.body.author THEN "owner"
  ELSE IF op.body.kind = "dated" /\ expired THEN "invalid"
  ELSE IF Created(op) # {} THEN IF \E e \in Created(op) : e.alive THEN "saved" ELSE "deleted"
  ELSE "saved"

Reply(op) ==
  IF cookie = Nobody THEN "signedout"
  ELSE IF op.body.kind = "unsound" THEN "invalid"
  ELSE IF cookie # op.body.author THEN "owner"
  ELSE IF Created(op) # {} THEN IF \E e \in Created(op) : e.alive THEN "saved" ELSE "deleted"
  ELSE IF op.body.kind = "dated" /\ expired THEN "invalid"
  ELSE "saved"

Serve(s) ==
  LET op    == posts[s].op
      reply == Reply(op)
  IN /\ At(s, "sent")
     /\ Answered(s, reply)
     /\ ledger' = IF reply = "saved" /\ Created(op) = {}
                  THEN ledger \union {[owner |-> cookie, op |-> op, alive |-> TRUE]}
                  ELSE ledger
     /\ UNCHANGED <<sessionVars, pageVars, storage, expired, historyVars>>

(* The request or its answer is lost, or the server fails.                  *)
Lose(s) ==
  /\ At(s, "sent") \/ (At(s, "answered") /\ posts[s].answer # "unknown")
  /\ Answered(s, "unknown")
  /\ UNCHANGED <<sessionVars, pageVars, storage, serverVars, historyVars>>

Told(op, answer) ==
  /\ settled' = IF Definite(answer) THEN settled \union {op} ELSE settled
  /\ rejected' = IF answer = "invalid" THEN rejected \union {op} ELSE rejected
  /\ issued' = issued

(* onSuccess, up to its await: a form still there puts the operation away.  *)
Succeed(s) ==
  LET p == posts[s]
  IN /\ At(s, "answered") /\ p.answer = "saved"
     /\ posts' = [posts EXCEPT ![s].pc = "saved"]
     /\ Told(p.op, "saved")
     /\ IF ~p.live THEN UNCHANGED <<upsets, storage, form, draft, receipt>>
        ELSE \E throws \in BOOLEAN :
          /\ Upset(throws)
          /\ storage' = IF throws THEN storage ELSE ClearedStorage(p.op)
          /\ form' = [form EXCEPT
               !.attempt = IF ~throws /\ Clears(p.op) /\ @ = p.op THEN None ELSE @,
               !.blocked = IF throws THEN "recovery" ELSE @]
          /\ UNCHANGED <<draft, receipt>>
     /\ UNCHANGED <<boundaryVars, here, saved, serverVars>>

(* onSuccess, after the queries were invalidated: onSaved.                  *)
Deliver(s) ==
  LET p == posts[s]
  IN /\ At(s, "saved")
     /\ posts' = [posts EXCEPT ![s] = None]
     /\ saved' = IF p.heard THEN [op |-> p.op, failed |-> FALSE] ELSE saved
     /\ UNCHANGED <<sessionVars, here, draft, receipt, storage, serverVars,
                    historyVars>>
     /\ form' = IF Shown' THEN form ELSE None

(* Mutant: any refusal ends the operation.                                 *)
FailOnRefusal(s) ==
  LET p       == posts[s]
      invalid == p.answer \in {"invalid", "owner"}
  IN /\ At(s, "answered") /\ p.answer # "saved"
     /\ posts' = [posts EXCEPT ![s] = None]
     /\ Told(p.op, p.answer)
     /\ IF p.live
        THEN \E throws \in IF invalid THEN BOOLEAN ELSE {FALSE} :
          LET f == [form EXCEPT
                      !.saving = FALSE, !.failed = p.answer,
                      !.attempt = IF invalid /\ ~throws /\ Clears(p.op) /\ @ = p.op
                                  THEN None ELSE @,
                      !.blocked = IF throws THEN "recovery" ELSE @]
          IN /\ Upset(throws)
             /\ storage' = IF invalid /\ ~throws THEN ClearedStorage(p.op) ELSE storage
             /\ FormBecomes(f)
        ELSE /\ receipt' = IF p.heard
                           THEN [failed |-> p.answer, blocked |-> "no", op |-> p.op,
                                 body |-> Input(p.op.body, None), complete |-> invalid]
                           ELSE receipt
             /\ UNCHANGED <<upsets, storage, form, draft>>
     /\ UNCHANGED <<boundaryVars, here, saved, serverVars>>

(* onError.  A refusal by the contract puts the operation away, or, when    *)
(* the form is gone, asks the page to.                                      *)
Fail(s) ==
  LET p       == posts[s]
      invalid == p.answer = "invalid"
  IN /\ At(s, "answered") /\ p.answer # "saved"
     /\ posts' = [posts EXCEPT ![s] = None]
     /\ Told(p.op, p.answer)
     /\ IF p.live
        THEN \E throws \in IF invalid THEN BOOLEAN ELSE {FALSE} :
          LET f == [form EXCEPT
                      !.saving = FALSE, !.failed = p.answer,
                      !.attempt = IF invalid /\ ~throws /\ Clears(p.op) /\ @ = p.op
                                  THEN None ELSE @,
                      !.blocked = IF throws THEN "recovery" ELSE @]
          IN /\ Upset(throws)
             /\ storage' = IF invalid /\ ~throws THEN ClearedStorage(p.op) ELSE storage
             /\ FormBecomes(f)
        ELSE /\ receipt' = IF p.heard
                           THEN [failed |-> p.answer, blocked |-> "no", op |-> p.op,
                                 body |-> Input(p.op.body, None), complete |-> invalid]
                           ELSE receipt
             /\ UNCHANGED <<upsets, storage, form, draft>>
     /\ UNCHANGED <<boundaryVars, here, saved, serverVars>>

-----------------------------------------------------------------------------
(* The effects of the page.                                                *)

(* useGoalFormFailure: the refused operation is put away once the owner is  *)
(* confirmed; when that throws, the form shows it and saves nothing.        *)
PutAway ==
  /\ Ready /\ receipt # None /\ receipt.complete
  /\ \/ /\ Upset(TRUE)
        /\ receipt' = [receipt EXCEPT !.complete = FALSE, !.blocked = "recovery"]
        /\ storage' = storage
     \/ /\ Upset(FALSE)
        /\ receipt' = IF Clears(receipt.op) THEN [receipt EXCEPT !.complete = FALSE]
                      ELSE None
        /\ storage' = ClearedStorage(receipt.op)
  /\ UNCHANGED <<boundaryVars, here, draft, saved, form, posts, serverVars, historyVars>>

(* useConfirmedGoalSave: the operation is put away and the list shown; an   *)
(* operation that has taken its place goes back to its form.                *)
Finish ==
  /\ SaveConfirmed /\ ~saved.failed
  /\ \/ /\ Upset(FALSE) /\ Clears(saved.op)
        /\ storage' = ClearedStorage(saved.op)
        /\ Left
     \/ /\ Upset(FALSE) /\ ~Clears(saved.op)
        /\ saved' = None
        /\ UNCHANGED <<storage, here, draft, receipt, form, posts>>
     \/ /\ Upset(TRUE)
        /\ saved' = [saved EXCEPT !.failed = TRUE]
        /\ UNCHANGED <<storage, here, draft, receipt, form, posts>>
  /\ UNCHANGED <<boundaryVars, serverVars, historyVars>>

(* restartCreate, after 410, and resumeCorrection, after a refusal whose    *)
(* operation could not be put away.                                         *)
Restart ==
  /\ form # None /\ ~form.saving /\ form.attempt # None
  /\ \/ form.failed = "deleted" /\ form.blocked = "no"
     \/ form.failed = "invalid" /\ form.blocked = "recovery" /\ form.op = form.attempt
  /\ Clears(form.attempt)
  /\ \/ /\ Upset(TRUE)
        /\ FormBecomes([form EXCEPT !.blocked = "recovery"])
        /\ storage' = storage
     \/ /\ Upset(FALSE)
        /\ storage' = ClearedStorage(form.attempt)
        /\ form' = [form EXCEPT !.attempt = None, !.blocked = "no",
                               !.failed = IF @ = "deleted" THEN "no" ELSE @]
        /\ IF form.failed = "deleted"
           THEN /\ draft' = form.body
                /\ receipt' = None
           ELSE draft' = None /\ receipt' = Failure(form')
  /\ UNCHANGED <<boundaryVars, here, saved, posts, serverVars, historyVars>>

-----------------------------------------------------------------------------
(* Elsewhere: the goal is deleted; the target date passes.                  *)

Delete == \E e \in ledger :
  /\ e.alive
  /\ ledger' = (ledger \ {e}) \union {[e EXCEPT !.alive = FALSE]}
  /\ UNCHANGED <<sessionVars, pageVars, posts, storage, expired, historyVars>>

DatePasses ==
  /\ ~expired /\ \E op \in issued : op.body.kind = "dated"
  /\ expired' = TRUE
  /\ UNCHANGED <<sessionVars, pageVars, posts, storage, ledger, historyVars>>

Next ==
  \/ Boundary \/ Enter \/ Leave
  \/ Mount \/ Type \/ SubmitThrows \/ Restart
  \/ PutAway \/ Finish
  \/ Delete \/ DatePasses
  \/ \E s \in Slots : Submit(s) \/ Confirm(s) \/ Serve(s) \/ Lose(s)
                        \/ Succeed(s) \/ Deliver(s) \/ Fail(s)

Spec == Init /\ [][Next]_vars

-----------------------------------------------------------------------------
(* A creation whose outcome the tab has not been told is still in           *)
(* sessionStorage, whatever was unmounted, left, retried or answered in     *)
(* between: it is never given up for a new key (create-attempt.ts).         *)
UnknownCreationsAreKept ==
  \A op \in issued \ settled : storage[op.body.author] = op

(* What the tab was told is refused never becomes a goal, though an older   *)
(* copy of the request may still be on its way.                             *)
RefusalsStand == \A e \in ledger : e.op \notin rejected

(* A goal belongs to the account whose form it was typed in, whatever       *)
(* became of the cookie between the form, the look at the session and the   *)
(* request (X-Create-Owner).                                                *)
GoalsBelongToTheirAuthor == \A e \in ledger : e.owner = e.op.body.author

(* A form shows only what its own user typed; and what was not sent, only   *)
(* when nobody signed in or out and no check failed since it was typed.     *)
InputsStayWithTheirOwner ==
  form # None /\ form.body # None =>
    /\ form.body.author = form.owner
    /\ form.body.gen \in {None, continuity.gen}

(* What one account typed is neither stored for another nor shown to it     *)
(* (session-draft.ts, goals/routes.ts).                                     *)
WorkStaysWithItsOwner == GoalsBelongToTheirAuthor /\ InputsStayWithTheirOwner
=============================================================================
