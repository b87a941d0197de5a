----------------------------- MODULE WebSession -----------------------------
(***************************************************************************)
(* The session boundary of one browser tab, apps/web/src/api/session-*.ts. *)
(*                                                                         *)
(* The cookie is shared by every tab; the tab knows its owner only through *)
(* the session atom of the auth client, which asks the API.  Two module    *)
(* variables follow the atom: continuity (session-draft.ts, updated with   *)
(* the atom itself) and epoch (session-cache.ts, updated by the effect of  *)
(* PrivateCacheGuard, some time after the render).  Pages use private data *)
(* only when both agree with the atom (Ready).                             *)
(*                                                                         *)
(* Generations of queries are only compared, and only grow: cleared and    *)
(* guard.seen say that the number held is still getPrivateGeneration().    *)
(* The promise of cancelQueries that was made for another generation or    *)
(* another epoch opens nothing when it settles: it is dropped as soon as   *)
(* it is out of date.                                                      *)
(*                                                                         *)
(* The answer of a check is read from the cookie as it arrives: a change   *)
(* of cookie between the two is a change just after the arrival, because   *)
(* nothing private is asked for while a check is under way.                *)
(***************************************************************************)
EXTENDS Naturals, FiniteSets

CONSTANTS
  Users,       \* accounts
  Nobody,      \* null: signed out
  Unknown,     \* undefined: not known yet
  MaxUpsets    \* bound of the model: changes of the cookie, unprompted checks, ...

VARIABLES
  cookie,      \* whose session the cookie names
  upsets,      \* how often it has changed, or was checked without news of it
  notice,      \* news of a change: "none", "sent" or "heard" (to be checked)
  atom,        \* authClient's session atom
  continuity,  \* who has been typing, without a break
  epoch,       \* whose private data may be used
  cleared,     \* clearedGeneration is the generation of the queries
  guard,       \* what the effect of PrivateCacheGuard last saw
  clears       \* owners for whom a promise of cancelQueries may open the boundary

boundaryVars == <<cookie, notice, atom, continuity, epoch, cleared, guard, clears>>
sessionVars == <<upsets, boundaryVars>>

Owners == Users \union {Nobody}

(* What the bound counts, when happens holds.                              *)
Upset(happens) ==
  /\ happens => upsets < MaxUpsets
  /\ upsets' = IF happens THEN upsets + 1 ELSE upsets

SessionInit ==
  /\ cookie \in Users
  /\ upsets = 0 /\ notice = "none"
  /\ atom = [owner |-> Nobody, busy |-> TRUE, error |-> FALSE]
  /\ continuity = [owner |-> Unknown, gen |-> 0]
  /\ epoch = [owner |-> Unknown, open |-> TRUE]
  /\ cleared = FALSE
  /\ guard = [user |-> Unknown, seen |-> TRUE, last |-> Unknown, reset |-> FALSE]
  /\ clears = {}

-----------------------------------------------------------------------------
(* What a render may use.                                                  *)

(* usePrivateEpoch and getPrivateEpoch: the effect may not have run yet, so *)
(* the epoch counts only while it agrees with the atom.                     *)
Agreed ==
  /\ ~atom.busy /\ ~atom.error
  /\ cleared
  /\ epoch.owner = atom.owner

(* privateDataReady(usePrivateEpoch()).                                    *)
Ready == Agreed /\ epoch.open /\ epoch.owner \in Users

(* isDraftOwner.                                                           *)
IsDraftOwner(owner, gen) == continuity.owner = owner /\ continuity.gen = gen

-----------------------------------------------------------------------------
(* continuity follows the atom.                                            *)

(* Another generation of the queries: what holds the number is out of date. *)
QueriesAge ==
  /\ cleared' = FALSE
  /\ guard' = [guard EXCEPT !.seen = FALSE]
  /\ clears' = {}

Invalidate(owner) ==
  /\ continuity' = [owner |-> owner, gen |-> continuity.gen + 1]
  /\ QueriesAge

(* observe, on the atom's next value; failed and checking are what it was. *)
Observe(next) ==
  LET owner == IF next.owner = Nobody /\ next.busy THEN Unknown ELSE next.owner
  IN IF owner # continuity.owner \/ (next.error /\ ~atom.error)
     THEN Invalidate(owner)
     ELSE /\ continuity' = continuity
          /\ IF next.busy /\ ~atom.busy THEN QueriesAge
             ELSE UNCHANGED <<cleared, guard, clears>>

AtomBecomes(next) == atom' = next /\ Observe(next)

(* The cookie changes: a sign in or out, in this tab or another (announced  *)
(* through $sessionSignal or localStorage), or a session that expires.      *)
CookieChanges(owner) ==
  /\ Upset(TRUE) /\ owner # cookie
  /\ cookie' = owner
  /\ \/ notice' = "sent"
     \/ owner = Nobody /\ notice' = notice
  /\ UNCHANGED <<atom, continuity, epoch, cleared, guard, clears>>

(* The listeners of useDraftContinuityTracking; the auth client asks anew. *)
NoticeIsHeard ==
  /\ notice = "sent"
  /\ notice' = "heard"
  /\ Invalidate(continuity.owner)
  /\ UNCHANGED <<cookie, upsets, atom, epoch>>

(* refetch: after news, when the window gets the focus, or when a route is  *)
(* entered (checkSession).  The old owner stays in the atom.                *)
CheckBegins ==
  /\ Upset(notice # "heard")
  /\ notice' = IF notice = "heard" THEN "none" ELSE notice
  /\ AtomBecomes([owner |-> atom.owner, busy |-> TRUE, error |-> FALSE])
  /\ UNCHANGED <<cookie, epoch>>

CheckAnswers ==
  /\ atom.busy
  /\ AtomBecomes([owner |-> cookie, busy |-> FALSE, error |-> FALSE])
  /\ UNCHANGED <<cookie, upsets, notice, epoch>>

(* The check fails: the client has an error and no data.                   *)
CheckFails ==
  /\ atom.busy
  /\ AtomBecomes([owner |-> Nobody, busy |-> FALSE, error |-> TRUE])
  /\ UNCHANGED <<cookie, upsets, notice, epoch>>

-----------------------------------------------------------------------------
(* PrivateCacheGuard.                                                      *)

Confirmed == IF atom.busy \/ atom.error THEN Unknown ELSE atom.owner

NextEpoch(user) ==
  IF user = epoch.owner THEN epoch
  ELSE [owner |-> user, open |-> epoch.owner = Unknown]

(* The effect, when the session is being checked or could not be: whatever  *)
(* arrives now belongs to nobody.                                           *)
GuardCloses ==
  /\ Confirmed = Unknown /\ ~(guard.user = Unknown /\ guard.seen)
  /\ IF epoch.owner = Unknown
     THEN /\ guard' = [guard EXCEPT !.user = Unknown, !.seen = TRUE]
          /\ UNCHANGED <<epoch, clears>>
     ELSE /\ guard' = [guard EXCEPT !.user = Unknown, !.seen = TRUE, !.reset = TRUE]
          /\ epoch' = [epoch EXCEPT !.open = FALSE]
          /\ clears' = {}
  /\ UNCHANGED <<cookie, upsets, notice, atom, continuity, cleared>>

(* The effect, when the owner is known: the cache is to be emptied after a  *)
(* check, an invalidation or a change of owner.                             *)
GuardOpens ==
  LET user   == Confirmed
      reset  == guard.reset \/ ~cleared
      next   == IF reset THEN [owner |-> user, open |-> FALSE] ELSE NextEpoch(user)
      change == guard.last # Unknown /\ guard.last # user
      kept   == IF reset \/ next # epoch THEN {} ELSE clears
  IN /\ user # Unknown /\ ~(guard.user = user /\ guard.seen)
     /\ epoch' = next
     /\ clears' = IF reset \/ change THEN kept \union {user} ELSE kept
     /\ guard' = [user |-> user, seen |-> TRUE, last |-> user,
                  reset |-> guard.reset /\ ~(reset \/ change)]
     /\ UNCHANGED <<cookie, upsets, notice, atom, continuity, cleared>>

(* The queries have been cancelled: the cache is emptied and the boundary   *)
(* opened, in this order; every other promise was made for another epoch.   *)
CancelSettles(owner) ==
  /\ owner \in clears
  /\ clears' = {}
  /\ cleared' = TRUE
  /\ epoch' = [owner |-> owner, open |-> TRUE]
  /\ UNCHANGED <<cookie, upsets, notice, atom, continuity, guard>>

SessionNext ==
  \/ \E o \in Owners : CookieChanges(o)
  \/ NoticeIsHeard \/ CheckBegins \/ CheckAnswers \/ CheckFails
  \/ GuardCloses \/ GuardOpens
  \/ \E o \in Owners : CancelSettles(o)
=============================================================================
