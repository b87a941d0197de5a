------------------------------ MODULE EditForm ------------------------------
(***************************************************************************)
(* Editing a goal from the browser: the form of /goals/$goalId/edit        *)
(* (GoalEditPage, GoalForm), which compares what is typed with the row it  *)
(* was opened on, and the PATCHes it has in flight, beside edits, records  *)
(* and a deletion from elsewhere.                                          *)
(*                                                                         *)
(* Of the goal's fields there is one of each kind: "amount", whose change  *)
(* withdraws the answers (sessionAmount; unit without its lock), "zone",   *)
(* which a record freezes (timezone, initialProgress), and "answers".  The *)
(* other settings are like "zone" before the first record.                 *)
(*                                                                         *)
(* Of the session boundary (WebSession) the form sees only whether private *)
(* data may be used: a check of the session closes the boundary, unmounts  *)
(* the form and empties the cache; a break in the continuity of the user   *)
(* also ends what the page holds.  Posts outlive both.                     *)
(*                                                                         *)
(* A fetch is answered from the row as it arrives: a change between the    *)
(* two is a change just after the arrival.  work is history: what the user *)
(* has changed since the row the form is compared with.                    *)
(***************************************************************************)
EXTENDS Naturals, FiniteSets

CONSTANTS
  None,
  MaxChanges,   \* bound of the model: edits and records from elsewhere
  MaxSaves,     \* bound of the model: PATCHes sent from the page
  MaxUpsets     \* bound of the model: checks and breaks of the session, visits

VARIABLES
  row,          \* the goal on the server, or None when it was deleted
  changes, saves, upsets,
  ready,        \* privateDataReady
  here,         \* the page is shown
  interrupted,  \* useInterruptedOperation: a check came while a save was pending
  query,        \* the cached goal: [data, asked]
  form,         \* the mounted GoalForm
  held,         \* what the page keeps of a form that is gone: draft or failure
  saved,        \* useConfirmedGoalSave
  posts,        \* PATCHes whose outcome is open, for the tab or for the server
  work          \* history: [Fields -> value or None]

bounds == <<changes, saves, upsets>>
pageVars == <<ready, here, interrupted, query, form, held, saved, posts, work>>
vars == <<row, bounds, pageVars>>

Fields == {"amount", "zone", "answers"}

Values == [Fields -> {0, 1}]

(* No answers.                                                             *)
Empty == 0

NoWork == [f \in Fields |-> None]

Rows == [at : Values, rev : Nat, arev : Nat, logs : BOOLEAN]

(* The state of a mounted GoalForm.                                        *)
Forms == [values : Values, baseline : Rows, saving : BOOLEAN, reloading : BOOLEAN,
          failed : {"no", "conflict", "refused", "unknown"}]

(* What the page keeps of a form: a draft over its source, or a failure.    *)
Memories == [values : Values, baseline : Rows, source : Rows \union {None},
             failed : {"no", "conflict", "refused", "unknown"}]

ASSUME EditFormAssumption ==
  None \notin Nat /\ None \notin Rows /\ None \notin Forms /\ None \notin Memories

Init ==
  /\ row \in [at : {[f \in Fields |-> 0], [[f \in Fields |-> 0] EXCEPT !["answers"] = 1]},
              rev : {0}, arev : {0}, logs : {FALSE}]
  /\ changes = 0 /\ saves = 0 /\ upsets = 0
  /\ ready = TRUE /\ here = TRUE /\ interrupted = FALSE
  /\ query = [data |-> None, asked |-> TRUE]
  /\ form = None /\ held = None /\ saved = FALSE
  /\ posts = {} /\ work = NoWork

Upset == upsets < MaxUpsets /\ upsets' = upsets + 1

-----------------------------------------------------------------------------
(* The server (GoalStore, PatchVerdict).                                    *)

Changed(old, patch) == {f \in DOMAIN patch : patch[f] # old.at[f]}

Withdraws(old, patch) == "amount" \in Changed(old, patch)

Verdict(p) ==
  IF row = None THEN "refused"
  ELSE IF p.rev # row.rev THEN "conflict"
  ELSE IF p.arev \notin {None, row.arev} THEN "conflict"
  ELSE IF row.logs /\ "zone" \in Changed(row, p.patch) THEN "refused"
  ELSE "saved"

Patched(old, patch) ==
  LET at   == [f \in Fields |-> IF f \in DOMAIN patch THEN patch[f] ELSE old.at[f]]
      next == IF Withdraws(old, patch) THEN [at EXCEPT !["answers"] = Empty] ELSE at
  IN [old EXCEPT
        !.at = next,
        !.rev = @ + (IF Changed(old, patch) \ {"answers"} # {} THEN 1 ELSE 0),
        !.arev = @ + (IF Withdraws(old, patch) \/ next["answers"] # old.at["answers"] THEN 1 ELSE 0)]

Elsewhere == row # None /\ changes < MaxChanges /\ changes' = changes + 1

EditElsewhere ==
  /\ Elsewhere
  /\ \E f \in Fields : /\ f = "zone" => ~row.logs
                       /\ row' = Patched(row, [g \in {f} |-> 1 - row.at[f]])
  /\ UNCHANGED <<saves, upsets, pageVars>>

RecordElsewhere ==
  /\ Elsewhere /\ ~row.logs
  /\ row' = [row EXCEPT !.logs = TRUE]
  /\ UNCHANGED <<saves, upsets, pageVars>>

DeleteElsewhere ==
  /\ Elsewhere
  /\ row' = None
  /\ UNCHANGED <<saves, upsets, pageVars>>

-----------------------------------------------------------------------------
(* The page and what it keeps of its form.                                 *)

(* Pending mutations of the goal's form, also those of an earlier visit.    *)
Pending(ps) == \E p \in ps : p.pc # "orphan"

Unmounted == {[p EXCEPT !.live = FALSE] : p \in posts}
Unheard == {[p EXCEPT !.live = FALSE, !.heard = FALSE] : p \in posts}

(* Mutant: a failure is not kept.                                          *)
KeptWithoutFailure(f, goal) ==
  IF f.saving \/ f.failed # "no" THEN None
  ELSE [values |-> f.values, baseline |-> f.baseline, failed |-> "no",
        source |-> goal]

(* The two layout effects of the form, over the goal it was last given.     *)
Kept(f, goal) ==
  IF f.saving THEN None
  ELSE [values |-> f.values, baseline |-> f.baseline, failed |-> f.failed,
        source |-> IF f.failed = "no" THEN goal ELSE None]

(* A check of the session.                                                 *)
Close ==
  /\ ready /\ Upset
  /\ ready' = FALSE /\ interrupted' = here
  /\ query' = [data |-> None, asked |-> FALSE]
  /\ form' = None /\ posts' = Unmounted
  /\ held' = IF form # None THEN Kept(form, query.data) ELSE held
  /\ UNCHANGED <<row, changes, saves, here, saved, work>>

Open ==
  /\ ~ready
  /\ ready' = TRUE
  /\ interrupted' = (here /\ Pending(posts))
  /\ query' = [query EXCEPT !.asked = here]
  /\ UNCHANGED <<row, bounds, here, form, held, saved, posts, work>>

Forgets == form' = None /\ held' = None /\ saved' = FALSE /\ work' = NoWork

(* Somebody may have signed in or out, or the check fails.                  *)
Break ==
  /\ Upset
  /\ ready' = FALSE /\ interrupted' = here
  /\ query' = [data |-> None, asked |-> FALSE]
  /\ posts' = Unheard
  /\ Forgets
  /\ UNCHANGED <<row, changes, saves, here>>

Left == here' = FALSE /\ interrupted' = FALSE /\ posts' = Unheard /\ Forgets

Leave ==
  /\ here
  /\ Left
  /\ UNCHANGED <<row, bounds, ready, query>>

Enter ==
  /\ ~here /\ Upset
  /\ here' = TRUE /\ interrupted' = ~ready
  /\ query' = [query EXCEPT !.asked = ready]
  /\ UNCHANGED <<row, changes, saves, ready, form, held, saved, posts, work>>

(* onSaved was accepted: to the list.                                       *)
Finish ==
  /\ saved /\ ready
  /\ Left
  /\ UNCHANGED <<row, bounds, ready, query>>

-----------------------------------------------------------------------------
(* The form.                                                               *)

Fresh(goal) == [values |-> goal.at, baseline |-> goal, failed |-> "no",
                saving |-> FALSE, reloading |-> FALSE]

(* restoreFormDraft: a failure is shown again over its own baseline; what   *)
(* was not sent, only over the goal it was typed on (sameEditableGoal).     *)
Restorable == held # None /\ (held.failed # "no" \/ held.source = query.data)

Mount ==
  /\ here /\ ready /\ ~saved /\ form = None
  /\ ~(interrupted /\ Pending(posts))
  /\ query.data # None
  /\ form' = IF Restorable
             THEN [Fresh(query.data) EXCEPT !.values = held.values, !.baseline = held.baseline,
                                            !.failed = held.failed]
             ELSE Fresh(query.data)
  /\ work' = IF Restorable THEN work ELSE NoWork
  /\ held' = None
  /\ UNCHANGED <<row, bounds, ready, here, interrupted, query, saved, posts>>

(* answersLockReason: the answers are not asked while the amount is being   *)
(* changed, and are not sent with it.                                       *)
AnswersLocked(values, baseline) == values["amount"] # baseline.at["amount"]

Enabled(f) ==
  /\ f = "zone" => ~query.data.logs
  /\ f = "answers" => ~AnswersLocked(form.values, form.baseline)

(* update.                                                                 *)
Type(f) ==
  /\ form # None /\ ~form.saving /\ Enabled(f)
  /\ form' = [form EXCEPT !.values[f] = 1 - @]
  /\ work' = [work EXCEPT ![f] = IF form'.values[f] = form.baseline.at[f] THEN None
                                 ELSE form'.values[f]]
  /\ UNCHANGED <<row, bounds, ready, here, interrupted, query, held, saved, posts>>

(* toPatchBody: what differs from the baseline, but for what a record has   *)
(* frozen by the latest goal, and the answers beside a new amount.          *)
PatchOf(values, baseline, goal) ==
  LET sent == {f \in Fields : /\ values[f] # baseline.at[f]
                              /\ f = "zone" => ~goal.logs
                              /\ f = "answers" => ~AnswersLocked(values, baseline)}
  IN [f \in sent |-> values[f]]

(* Mutant: the form is compared with the goal as it has been fetched again. *)
ComparedWithTheLatest(f, goal) == goal

ComparedWith(f, goal) == f.baseline

(* onSubmit and mutationFn; nothing is sent when nothing has changed.       *)
Submit ==
  LET base  == ComparedWith(form, query.data)
      patch == PatchOf(form.values, base, query.data)
  IN /\ form # None /\ ~form.saving /\ ~form.reloading /\ form.failed # "conflict"
     /\ saves < MaxSaves /\ saves' = saves + 1
     /\ form' = [form EXCEPT !.saving = TRUE, !.failed = "no"]
     /\ posts' = posts \union
          {[patch |-> patch, rev |-> base.rev,
            arev |-> IF DOMAIN patch \intersect {"amount", "answers"} # {} THEN base.arev ELSE None,
            values |-> form.values, baseline |-> form.baseline, work |-> work,
            pc |-> IF DOMAIN patch = {} THEN "saved" ELSE "sent", live |-> TRUE, heard |-> TRUE]}
     /\ UNCHANGED <<row, changes, upsets, ready, here, interrupted, query, held, saved, work>>

-----------------------------------------------------------------------------
(* PATCH /api/goals/:goalId and its answers.                               *)

Serve(p) ==
  /\ p.pc \in {"sent", "orphan"}
  /\ row' = IF Verdict(p) = "saved" THEN Patched(row, p.patch) ELSE row
  /\ posts' = (posts \ {p}) \union IF p.pc = "sent" THEN {[p EXCEPT !.pc = Verdict(p)]} ELSE {}
  /\ UNCHANGED <<bounds, ready, here, interrupted, query, form, held, saved, work>>

Interrupted(ps) == interrupted /\ (~ready \/ Pending(ps))

(* onError: the form, or the page in its place, keeps what was sent.        *)
Fails(p, kind, rest) ==
  /\ posts' = (posts \ {p}) \union rest
  /\ form' = IF p.live THEN [form EXCEPT !.saving = FALSE, !.failed = kind] ELSE form
  /\ held' = IF p.heard /\ ~p.live
             THEN [values |-> p.values, baseline |-> p.baseline, failed |-> kind, source |-> None]
             ELSE held
  /\ interrupted' = Interrupted(posts')
  /\ UNCHANGED <<row, bounds, ready, here, query, saved, work>>

Refused(p) == p.pc \in {"conflict", "refused"} /\ Fails(p, p.pc, {})

(* The request or its answer is lost, or comes later than the tab waits.    *)
IsLost(p) ==
  /\ p.pc \in {"sent", "conflict", "refused", "saved"} /\ DOMAIN p.patch # {}
  /\ \E rest \in IF p.pc = "sent"
                 THEN {{}, {[p EXCEPT !.pc = "orphan", !.live = FALSE, !.heard = FALSE]}}
                 ELSE {{}} : Fails(p, "unknown", rest)

(* onSuccess: the goals are fetched again, and then the page is told.       *)
Succeeds(p) ==
  /\ p.pc = "saved"
  /\ posts' = (posts \ {p}) \union {[p EXCEPT !.pc = "refreshing"]}
  /\ query' = [query EXCEPT !.asked = (ready /\ here) \/ @]
  /\ UNCHANGED <<row, bounds, ready, here, interrupted, form, held, saved, work>>

Settles(p) ==
  /\ p.pc = "refreshing"
  /\ posts' = posts \ {p}
  /\ interrupted' = Interrupted(posts')
  /\ IF p.heard THEN saved' = TRUE /\ form' = None /\ work' = NoWork
     ELSE UNCHANGED <<saved, form, work>>
  /\ UNCHANGED <<row, bounds, ready, here, query, held>>

-----------------------------------------------------------------------------
(* The goal is fetched, and read again after a conflict.                   *)

Refetch ==
  /\ here /\ ready /\ ~query.asked
  /\ query' = [query EXCEPT !.asked = TRUE]
  /\ UNCHANGED <<row, bounds, ready, here, interrupted, form, held, saved, posts, work>>

(* reloadLatest, which SaveFailure offers.                                  *)
ReloadLatest ==
  /\ form # None /\ form.failed \in {"conflict", "unknown"}
  /\ ~form.saving /\ ~form.reloading
  /\ form' = [form EXCEPT !.reloading = TRUE]
  /\ query' = [query EXCEPT !.asked = TRUE]
  /\ UNCHANGED <<row, bounds, ready, here, interrupted, held, saved, posts, work>>

(* Mutant: the latest goal takes the place of what was typed.               *)
TakenFromTheLatest(values, before, latest) == latest.at

(* rebaseValues: what was typed stays, what was not follows the latest.     *)
Rebased(values, before, latest) ==
  [f \in Fields |-> IF values[f] # before.at[f] THEN values[f] ELSE latest.at[f]]

QueryArrives ==
  /\ query.asked /\ row # None
  /\ query' = [data |-> row, asked |-> FALSE]
  /\ IF form # None /\ form.reloading
     THEN /\ form' = [form EXCEPT !.values = Rebased(form.values, form.baseline, row),
                                  !.baseline = row, !.failed = "no", !.reloading = FALSE]
          /\ work' = [f \in Fields |-> IF work[f] = row.at[f] THEN None ELSE work[f]]
     ELSE UNCHANGED <<form, work>>
  /\ UNCHANGED <<row, bounds, ready, here, interrupted, held, saved, posts>>

QueryFails ==
  /\ query.asked
  /\ query' = [query EXCEPT !.asked = FALSE]
  /\ form' = IF form # None THEN [form EXCEPT !.reloading = FALSE] ELSE form
  /\ UNCHANGED <<row, bounds, ready, here, interrupted, held, saved, posts, work>>

-----------------------------------------------------------------------------
Next ==
  \/ EditElsewhere \/ RecordElsewhere \/ DeleteElsewhere
  \/ Close \/ Open \/ Break \/ Leave \/ Enter \/ Finish
  \/ Mount \/ Submit \/ \E f \in Fields : Type(f)
  \/ \E p \in posts : \/ Serve(p) \/ Refused(p) \/ IsLost(p)
                      \/ Succeeds(p) \/ Settles(p)
  \/ Refetch \/ ReloadLatest \/ QueryArrives \/ QueryFails

Spec == Init /\ [][Next]_vars

-----------------------------------------------------------------------------
(* A step of the server for a request of the tab.                          *)
Applies(p) ==
  /\ p \in posts /\ p.pc \in {"sent", "orphan"} /\ p \notin posts'
  /\ row # None /\ row' # row /\ changes' = changes

(* A save changes only what its author has typed, to what was typed, and    *)
(* nothing that was changed elsewhere since the author last looked; only    *)
(* the withdrawal of the answers comes with a new amount (toPatchBody).     *)
OthersEditsSurvive ==
  [][\A p \in posts : Applies(p) =>
       \A f \in {g \in Fields : row'.at[g] # row.at[g]} :
         \/ row'.at[f] = p.work[f] /\ row.at[f] = p.baseline.at[f]
         \/ f = "answers" /\ row'.at["amount"] # row.at["amount"]]_vars

(* What the user has typed stays on the page until it is saved or given up: *)
(* in the form, in what the page keeps of it, or in the save under way;     *)
(* whatever checks, conflicts, lost answers and reloads come between.  Only *)
(* what was never sent is dropped, with a notice, when the goal has changed *)
(* during a check (discardedDraft, Mount).                                  *)
TypedEditsAreKept ==
  LET copies == (IF form # None THEN {form.values} ELSE {})
                \union (IF held # None THEN {held.values} ELSE {})
                \union {p.values : p \in {q \in posts : q.heard}}
  IN (\E f \in Fields : work[f] # None) =>
       /\ copies # {}
       /\ \A values \in copies, f \in Fields : work[f] # None => values[f] = work[f]
=============================================================================
