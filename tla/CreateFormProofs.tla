-------------------------- MODULE CreateFormProofs --------------------------
(***************************************************************************)
(* Proofs about CreateForm for any accounts, keys, mutations and any       *)
(* number of upsets, and about GoalFields, below.                          *)
(*                                                                         *)
(* What the page holds belongs to who has been typing, without a break     *)
(* (SessionOK, FormOK, MemoryOK); while a form is shown the page hears of  *)
(* no mutation but the one it waits for (PostsOK); and whatever the page   *)
(* would put away has been told (FormOK, MemoryOK).  So a key is never     *)
(* given up while its outcome is unknown (StorageOK).                      *)
(***************************************************************************)
EXTENDS CreateForm, GoalFields, TLAPS

Posts ==
  [op : Operations, pc : {"check", "sent", "answered", "saved"}, answer : Answers,
   visit : BOOLEAN, heard : BOOLEAN, live : BOOLEAN]

Receipts ==
  [failed : Answers \union {"no"}, blocked : {"no", "recovery", "other"},
   op : Operations \union {None}, body : Inputs \union {None}, complete : BOOLEAN]

Entries == [owner : Owners, op : Operations, alive : BOOLEAN]

SessionTyped ==
  /\ cookie \in Owners
  /\ atom \in [owner : Owners, busy : BOOLEAN, error : BOOLEAN]
  /\ continuity \in [owner : Owners \union {Unknown}, gen : Nat]

FormTyped ==
  /\ draft \in Inputs \union {None}
  /\ receipt \in Receipts \union {None}
  /\ saved \in [op : Operations, failed : BOOLEAN] \union {None}
  /\ form \in Forms \union {None}
  /\ posts \in [Slots -> Posts \union {None}]
  /\ storage \in [Users -> Operations \union {None}]
  /\ ledger \subseteq Entries
  /\ issued \subseteq Operations /\ settled \subseteq Operations /\ rejected \subseteq Operations

(* Who has been typing is who the atom names: continuity follows at once.  *)
SessionOK ==
  SessionTyped /\ continuity.owner = IF atom.owner = Nobody /\ atom.busy THEN Unknown ELSE atom.owner

(* An input that the page may show belongs to who has been typing. *)
Fresh(input) ==
  input # None => input.author = continuity.owner /\ input.gen \in {None, continuity.gen}

(* What was told of a failure is told of the operation it names.           *)
FormOK ==
  form # None =>
    /\ Shown
    /\ form.owner = continuity.owner
    /\ Fresh(form.body)
    /\ form.attempt # None => form.attempt.body.author = form.owner
    /\ form.failed \in {"invalid", "deleted"} => form.op \in settled
    /\ form.failed # "no" /\ form.attempt # None => form.attempt = form.op

(* What the page would put away has been told. *)
MemoryOK ==
  /\ Fresh(draft)
  /\ saved # None => saved.op \in settled
  /\ receipt # None =>
       /\ Fresh(receipt.body)
       /\ receipt.complete \/ receipt.failed \in {"invalid", "deleted"} => receipt.op \in settled

(* What has been refused would be refused again. *)
Barred(op) ==
  /\ op.body.kind = "unsound" \/ (op.body.kind = "dated" /\ expired)
  /\ \A e \in ledger : e.op # op

(* A mutation that the form waits for is the one it has sent; while a form  *)
(* is shown, the page hears of no other.                                    *)
PostOK(s) ==
  posts[s] # None =>
    /\ posts[s].heard => posts[s].op.body.author = continuity.owner /\ posts[s].visit
    /\ posts[s].live =>
         /\ posts[s].heard /\ form # None /\ form.saving
         /\ form.op = posts[s].op /\ form.attempt \in {None, posts[s].op}
    /\ posts[s].heard /\ form # None => posts[s].live
    /\ posts[s].pc = "saved" => posts[s].op \in settled
    /\ posts[s].pc = "answered" /\ posts[s].answer = "invalid" => Barred(posts[s].op)

Alive(s) == posts[s] # None /\ posts[s].live

PostsOK ==
  /\ \A s \in Slots : PostOK(s)
  /\ \A s, t \in Slots : Alive(s) /\ Alive(t) => s = t

StorageOK ==
  /\ \A u \in Users : storage[u] # None => storage[u].body.author = u
  /\ UnknownCreationsAreKept

LedgerOK ==
  /\ \A op \in rejected : Barred(op)
  /\ \A e \in ledger : e.op.body.kind # "unsound" /\ e.owner = e.op.body.author

Inv == SessionOK /\ FormTyped /\ FormOK /\ MemoryOK /\ PostsOK /\ StorageOK /\ LedgerOK

-----------------------------------------------------------------------------
(* The session. *)

LEMMA AtomStep ==
  ASSUME SessionTyped, NEW next \in [owner : Owners, busy : BOOLEAN, error : BOOLEAN],
         AtomBecomes(next), SessionOK
  PROVE  /\ continuity' \in [owner : Owners \union {Unknown}, gen : Nat]
         /\ continuity'.owner = IF next.owner = Nobody /\ next.busy THEN Unknown ELSE next.owner
         /\ continuity' = continuity \/ continuity'.gen # continuity.gen
BY DEF AtomBecomes, Observe, Invalidate, SessionOK, SessionTyped

LEMMA SessionStep ==
  ASSUME SessionOK, SessionNext
  PROVE  SessionOK' /\ (continuity' = continuity \/ continuity'.gen # continuity.gen)
<1> USE DEF SessionOK, SessionTyped
<1> DEFINE Atoms == [owner : Owners, busy : BOOLEAN, error : BOOLEAN]
<1>1. ASSUME NEW o \in Owners, CookieChanges(o)
      PROVE SessionOK' /\ continuity' = continuity
  BY <1>1 DEF CookieChanges
<1>2. CASE NoticeIsHeard
  BY <1>2 DEF NoticeIsHeard, Invalidate
<1>3. CASE CheckBegins \/ CheckAnswers \/ CheckFails
  <2>1. PICK next \in Atoms : AtomBecomes(next) /\ UNCHANGED cookie
    <3>1. /\ [owner |-> atom.owner, busy |-> TRUE, error |-> FALSE] \in Atoms
          /\ [owner |-> cookie, busy |-> FALSE, error |-> FALSE] \in Atoms
          /\ [owner |-> Nobody, busy |-> FALSE, error |-> TRUE] \in Atoms
      BY DEF Owners
    <3> QED
      BY <1>3, <3>1 DEF CheckBegins, CheckAnswers, CheckFails
  <2> QED
    BY <2>1, AtomStep DEF AtomBecomes
<1>4. CASE GuardCloses \/ GuardOpens
  BY <1>4 DEF GuardCloses, GuardOpens
<1>5. ASSUME NEW o \in Owners, CancelSettles(o)
      PROVE SessionOK' /\ continuity' = continuity
  BY <1>5 DEF CancelSettles
<1> QED
  BY <1>1, <1>2, <1>3, <1>4, <1>5 DEF SessionNext

(* Private data is used only for who has been typing. *)
LEMMA ReadyOwner ==
  ASSUME SessionOK, Ready
  PROVE  epoch.owner = continuity.owner /\ continuity.owner \in Users
BY CreateFormAssumption DEF SessionOK, Ready, Agreed, Owners

LEMMA SessionRests ==
  ASSUME UNCHANGED boundaryVars
  PROVE  /\ UNCHANGED <<cookie, notice, atom, continuity, epoch, cleared, guard, clears>>
         /\ Ready' = Ready
         /\ SessionOK => SessionOK'
BY DEF boundaryVars, Ready, Agreed, SessionOK, SessionTyped

-----------------------------------------------------------------------------
(* Types. *)

LEMMA Typing ==
  ASSUME FormTyped
  PROVE  /\ form # None => form \in Forms
         /\ receipt # None => receipt \in Receipts
         /\ saved # None => saved \in [op : Operations, failed : BOOLEAN]
         /\ draft # None => draft \in Inputs
         /\ \A s \in Slots : posts[s] # None => posts[s] \in Posts
         /\ \A u \in Users : storage[u] # None => storage[u] \in Operations
         /\ None \notin Operations
BY CreateFormAssumption DEF FormTyped

(* What the mutations are after the page has changed. *)
LEMMA EveryPost ==
  ASSUME FormTyped, posts' = Every(Unmounted) \/ posts' = Every(Unheard) \/ posts' = Every(Abandoned)
  PROVE  /\ posts' \in [Slots -> Posts \union {None}]
         /\ \A s \in Slots :
              /\ posts[s] = None => posts'[s] = None
              /\ posts[s] # None =>
                   /\ posts'[s].op = posts[s].op /\ posts'[s].pc = posts[s].pc
                   /\ posts'[s].answer = posts[s].answer /\ posts'[s].live = FALSE
                   /\ posts'[s].heard => posts[s].heard /\ posts'[s].visit = posts[s].visit
                   /\ posts' = Every(Unmounted) \/ posts'[s].heard = FALSE
<1>1. ASSUME NEW s \in Slots, posts[s] # None
      PROVE /\ Unmounted(posts[s]) \in Posts /\ Unheard(posts[s]) \in Posts
            /\ Abandoned(posts[s]) \in Posts
            /\ Unmounted(posts[s]).op = posts[s].op /\ Unmounted(posts[s]).pc = posts[s].pc
            /\ Unheard(posts[s]).op = posts[s].op /\ Unheard(posts[s]).pc = posts[s].pc
            /\ Abandoned(posts[s]).op = posts[s].op /\ Abandoned(posts[s]).pc = posts[s].pc
            /\ Unmounted(posts[s]).answer = posts[s].answer
            /\ Unheard(posts[s]).answer = posts[s].answer
            /\ Abandoned(posts[s]).answer = posts[s].answer
            /\ Unmounted(posts[s]).live = FALSE /\ Unheard(posts[s]).live = FALSE
            /\ Abandoned(posts[s]).live = FALSE
            /\ Unmounted(posts[s]).heard = posts[s].heard
            /\ Unmounted(posts[s]).visit = posts[s].visit
            /\ Unheard(posts[s]).heard = FALSE /\ Abandoned(posts[s]).heard = FALSE
  BY <1>1, Typing DEF Unmounted, Unheard, Abandoned, Posts
<1>2. CASE posts' = Every(Unmounted)
  BY <1>1, <1>2 DEF Every
<1>3. CASE posts' = Every(Unheard)
  BY <1>1, <1>3 DEF Every
<1>4. CASE posts' = Every(Abandoned)
  BY <1>1, <1>4 DEF Every
<1> QED
  BY <1>2, <1>3, <1>4

(* An answer. *)
LEMMA AnsweredPost ==
  ASSUME FormTyped, NEW s \in Slots, posts[s] # None, NEW a \in Answers, Answered(s, a)
  PROVE  /\ posts' \in [Slots -> Posts \union {None}]
         /\ \A t \in Slots : t # s => posts'[t] = posts[t]
         /\ posts'[s] \in Posts /\ posts'[s].op = posts[s].op /\ posts'[s].pc = "answered"
         /\ posts'[s].answer = a /\ posts'[s].live = posts[s].live
         /\ posts'[s].heard = posts[s].heard /\ posts'[s].visit = posts[s].visit
<1> DEFINE p == [posts[s] EXCEPT !.pc = "answered", !.answer = a]
<1>1. posts[s] \in Posts
  BY Typing
<1>2. /\ p \in Posts /\ p.op = posts[s].op /\ p.pc = "answered" /\ p.answer = a
      /\ p.live = posts[s].live /\ p.heard = posts[s].heard /\ p.visit = posts[s].visit
  BY <1>1 DEF Posts
<1>3. posts' = [posts EXCEPT ![s] = p]
  BY DEF Answered
<1> HIDE DEF p
<1> QED
  BY <1>2, <1>3 DEF FormTyped

(* A step of a mutation that has not been answered yet, or that succeeds.   *)
LEMMA MovedPost ==
  ASSUME FormTyped, NEW s \in Slots, posts[s] # None, NEW where \in {"sent", "saved"},
         posts' = [posts EXCEPT ![s].pc = where]
  PROVE  /\ posts' \in [Slots -> Posts \union {None}]
         /\ \A t \in Slots : t # s => posts'[t] = posts[t]
         /\ posts'[s] \in Posts /\ posts'[s].op = posts[s].op /\ posts'[s].pc = where
         /\ posts'[s].answer = posts[s].answer /\ posts'[s].live = posts[s].live
         /\ posts'[s].heard = posts[s].heard /\ posts'[s].visit = posts[s].visit
<1> DEFINE p == [posts[s] EXCEPT !.pc = where]
<1>1. posts[s] \in Posts
  BY Typing
<1>2. /\ p \in Posts /\ p.op = posts[s].op /\ p.pc = where /\ p.answer = posts[s].answer
      /\ p.live = posts[s].live /\ p.heard = posts[s].heard /\ p.visit = posts[s].visit
  BY <1>1 DEF Posts
<1>3. posts' = [posts EXCEPT ![s] = p]
  OBVIOUS
<1> HIDE DEF p
<1> QED
  BY <1>2, <1>3 DEF FormTyped

(* A mutation that is over. *)
LEMMA EndedPost ==
  ASSUME FormTyped, NEW s \in Slots, posts' = [posts EXCEPT ![s] = None]
  PROVE  /\ posts' \in [Slots -> Posts \union {None}]
         /\ posts'[s] = None /\ \A t \in Slots : t # s => posts'[t] = posts[t]
BY DEF FormTyped

(* A mutation that is sent, and the form that has sent it. *)
LEMMA SentPost ==
  ASSUME FormTyped, NEW s \in Slots, NEW o \in Operations, form # None, Sends(s, o)
  PROVE  /\ posts[s] = None /\ posts' \in [Slots -> Posts \union {None}]
         /\ \A t \in Slots : t # s => posts'[t] = posts[t]
         /\ posts'[s].op = o /\ posts'[s].pc = "check" /\ posts'[s].live /\ posts'[s].heard
         /\ posts'[s].visit /\ posts'[s].answer = "unknown"
         /\ form' \in Forms /\ form'.owner = form.owner /\ form'.body = form.body
         /\ form'.attempt = o /\ form'.op = o /\ form'.saving /\ form'.failed = "no"
<1> DEFINE p == [op |-> o, pc |-> "check", answer |-> "unknown",
                 visit |-> TRUE, heard |-> TRUE, live |-> TRUE]
<1>1. p \in Posts /\ p.op = o /\ p.pc = "check" /\ p.live /\ p.heard /\ p.visit /\ p.answer = "unknown"
  BY DEF Posts, Answers
<1>2. posts' = [posts EXCEPT ![s] = p] /\ posts[s] = None
  BY DEF Sends
<1> HIDE DEF p
<1>3. /\ posts' \in [Slots -> Posts \union {None}] /\ posts'[s] = p
      /\ \A t \in Slots : t # s => posts'[t] = posts[t]
  BY <1>1, <1>2 DEF FormTyped
<1>4. form \in Forms
  BY Typing
<1>5. /\ form' \in Forms /\ form'.owner = form.owner /\ form'.body = form.body
      /\ form'.attempt = o /\ form'.op = o /\ form'.saving /\ form'.failed = "no"
  BY <1>4 DEF Sends, Forms
<1> QED
  BY <1>1, <1>2, <1>3, <1>5

-----------------------------------------------------------------------------
(* What an action leaves as it was. *)

LEMMA LedgerRests ==
  ASSUME UNCHANGED <<ledger, expired, rejected>>, LedgerOK
  PROVE  LedgerOK'
BY DEF LedgerOK, Barred

LEMMA StorageRests ==
  ASSUME UNCHANGED <<storage, issued>>, settled \subseteq settled', StorageOK
  PROVE  StorageOK'
BY DEF StorageOK, UnknownCreationsAreKept

(* An operation is put away only when its outcome is known. *)
LEMMA StorageCleared ==
  ASSUME FormTyped, issued' = issued, settled \subseteq settled', StorageOK,
         NEW op \in settled', op \in Operations, storage' = ClearedStorage(op)
  PROVE  storage' \in [Users -> Operations \union {None}] /\ StorageOK'
<1>1. op.body.author \in Users
  BY DEF Operations
<1>2. /\ \A u \in Users : storage'[u] = storage[u] \/ (storage[u] = op /\ storage'[u] = None)
      /\ storage' \in [Users -> Operations \union {None}]
  BY <1>1 DEF ClearedStorage, FormTyped
<1>3. \A u \in Users : storage'[u] # None => storage'[u].body.author = u
  BY <1>2 DEF StorageOK
<1>4. ASSUME NEW o \in issued' \ settled' PROVE storage'[o.body.author] = o
  <2>1. o \in issued \ settled /\ o # op /\ o.body.author \in Users
    BY <1>4 DEF FormTyped, Operations
  <2> QED
    BY <2>1, <1>2 DEF StorageOK, UnknownCreationsAreKept
<1> QED
  BY <1>2, <1>3, <1>4 DEF StorageOK, UnknownCreationsAreKept

LEMMA ShownStays ==
  ASSUME UNCHANGED <<boundaryVars, here, saved>>, Shown,
         receipt' # None /\ receipt'.complete => receipt' = receipt
  PROVE  Shown'
BY SessionRests DEF Shown, SaveConfirmed

(* The page hears of no mutation but those a form waits for. *)
LEMMA Quiet ==
  ASSUME PostsOK, form # None, ~form.saving, NEW s \in Slots, posts[s] # None
  PROVE  ~posts[s].heard /\ ~posts[s].live
BY DEF PostsOK, PostOK

LEMMA QuietPosts ==
  ASSUME PostsOK, \A s \in Slots : posts[s] # None => ~posts[s].heard,
         UNCHANGED <<posts, settled, ledger, expired>>
  PROVE  PostsOK'
BY DEF PostsOK, PostOK, Alive, Barred

LEMMA PostsRest ==
  ASSUME PostsOK, UNCHANGED <<posts, form, continuity, ledger, expired>>, settled \subseteq settled'
  PROVE  PostsOK'
BY DEF PostsOK, PostOK, Alive, Barred

(* The form is gone: its mutation goes on. *)
LEMMA PostsUnmounted ==
  ASSUME FormTyped, PostsOK, UNCHANGED <<continuity, settled, ledger, expired>>,
         form' = None, posts' = Every(Unmounted)
  PROVE  PostsOK'
<1>1. ASSUME NEW s \in Slots PROVE PostOK(s)' /\ ~Alive(s)'
  <2>1. PostOK(s)
    BY DEF PostsOK
  <2>2. CASE posts[s] = None
    <3>1. posts'[s] = None
      BY <2>2, EveryPost
    <3> QED
      BY <3>1 DEF PostOK, Alive
  <2>3. CASE posts[s] # None
    <3>1. /\ posts'[s].op = posts[s].op /\ posts'[s].pc = posts[s].pc
          /\ posts'[s].answer = posts[s].answer /\ posts'[s].live = FALSE
          /\ posts'[s].heard => posts[s].heard /\ posts'[s].visit = posts[s].visit
      BY <2>3, EveryPost
    <3> QED
      BY <2>1, <2>3, <3>1 DEF PostOK, Alive, Barred
  <2> QED
    BY <2>2, <2>3
<1> QED
  BY <1>1 DEF PostsOK

(* Nobody hears of the mutations any longer. *)
LEMMA PostsForgotten ==
  ASSUME FormTyped, PostsOK, UNCHANGED <<settled, ledger, expired>>,
         form' = None, posts' = Every(Unheard) \/ posts' = Every(Abandoned)
  PROVE  PostsOK'
<1>1. ASSUME NEW s \in Slots, posts[s] # None PROVE ~posts'[s].heard
  <2>1. posts[s] \in Posts
    BY <1>1, Typing
  <2>2. ~Unheard(posts[s]).heard /\ ~Abandoned(posts[s]).heard
    BY <2>1 DEF Unheard, Abandoned, Posts
  <2> QED
    BY <1>1, <2>2 DEF Every
<1>2. ASSUME NEW s \in Slots PROVE PostOK(s)' /\ ~Alive(s)'
  <2>1. PostOK(s)
    BY DEF PostsOK
  <2> QED
    BY <1>1, <2>1, EveryPost, ZenonT(40) DEF PostOK, Alive, Barred
<1> QED
  BY <1>2 DEF PostsOK

(* What the page holds of a form. *)
LEMMA HeldStep ==
  ASSUME FormTyped, MemoryOK, NEW f \in Forms, Held(f), UNCHANGED <<continuity, saved>>,
         Fresh(f.body), settled \subseteq settled',
         f.failed \in {"invalid", "deleted"} => f.op \in settled'
  PROVE  /\ draft' \in Inputs \union {None} /\ receipt' \in Receipts \union {None}
         /\ MemoryOK'
         /\ receipt' # None /\ receipt'.complete => receipt' = receipt
<1>1. /\ f.attempt \in Operations \union {None} /\ f.body \in Inputs \union {None}
      /\ f.failed \in Answers \union {"no"} /\ f.blocked \in {"no", "recovery", "other"}
      /\ f.op \in Operations \union {None}
  BY DEF Forms
<1>2. /\ Failure(f) \in Receipts /\ Failure(f).body = f.body /\ Failure(f).failed = f.failed
      /\ ~Failure(f).complete
      /\ f.failed # "no" => Failure(f).op = f.op
  BY <1>1 DEF Failure, Receipts
<1>3. /\ draft' = None \/ draft' = f.body
      /\ receipt' = None \/ receipt' = receipt \/ receipt' = Failure(f)
  BY DEF Held
<1>4. draft' \in Inputs \union {None} /\ receipt' \in Receipts \union {None}
  BY <1>1, <1>2, <1>3 DEF FormTyped
<1>5. Fresh(draft)' /\ (saved # None => saved.op \in settled)'
  BY <1>3 DEF Fresh, MemoryOK
<1>6. CASE receipt' = None
  BY <1>4, <1>5, <1>6 DEF MemoryOK
<1>7. CASE receipt' = receipt
  BY <1>4, <1>5, <1>7 DEF MemoryOK, Fresh
<1>8. CASE receipt' = Failure(f)
  <2>1. Fresh(receipt.body)'
    BY <1>2, <1>8 DEF Fresh
  <2>2. ~receipt'.complete /\ (receipt'.failed \in {"invalid", "deleted"} => receipt'.op \in settled')
    BY <1>2, <1>8
  <2> QED
    BY <1>4, <1>5, <2>1, <2>2 DEF MemoryOK
<1> QED
  BY <1>3, <1>6, <1>7, <1>8

(* A step of the page that only changes what it shows. *)
LEMMA PageStep ==
  ASSUME Inv, UNCHANGED <<boundaryVars, here, saved, posts, serverVars, historyVars>>, Shown,
         \A s \in Slots : posts[s] # None => ~posts[s].heard,
         form' \in Forms, form'.owner = continuity.owner, Fresh(form'.body),
         form'.attempt # None => form'.attempt.body.author = form'.owner,
         form'.failed \in {"invalid", "deleted"} => form'.op \in settled,
         form'.failed # "no" /\ form'.attempt # None => form'.attempt = form'.op,
         draft' \in Inputs \union {None}, receipt' \in Receipts \union {None}, MemoryOK',
         receipt' # None /\ receipt'.complete => receipt' = receipt,
         storage' \in [Users -> Operations \union {None}], StorageOK'
  PROVE  Inv'
<1>1. SessionOK' /\ UNCHANGED <<continuity, ledger, expired, issued, settled, rejected>>
  BY SessionRests DEF Inv, boundaryVars, serverVars, historyVars
<1>2. FormTyped'
  BY <1>1 DEF Inv, FormTyped
<1>3. FormOK'
  BY <1>1, ShownStays DEF FormOK, Fresh
<1>4. PostsOK'
  BY <1>1, QuietPosts DEF Inv
<1>5. LedgerOK'
  BY <1>1, LedgerRests DEF Inv
<1> QED
  BY <1>1, <1>2, <1>3, <1>4, <1>5 DEF Inv

-----------------------------------------------------------------------------
(* The session, and leaving the page. *)

LEMMA BoundaryStep ==
  ASSUME Inv, Boundary
  PROVE  Inv'
<1> USE DEF Inv
<1>1. /\ SessionOK' /\ (continuity' = continuity \/ continuity'.gen # continuity.gen)
      /\ UNCHANGED <<here, storage, ledger, expired, issued, settled, rejected>>
      /\ Rerender
  BY SessionStep DEF Boundary, serverVars, historyVars
<1>2. StorageOK' /\ LedgerOK'
  BY <1>1, StorageRests, LedgerRests
<1>3. CASE continuity'.gen # continuity.gen
  <2>1. Forgets /\ posts' = Every(Unheard)
    BY <1>1, <1>3 DEF Rerender
  <2>2. FormTyped'
    BY <1>1, <2>1, EveryPost DEF FormTyped, Forgets
  <2>3. PostsOK'
    BY <1>1, <2>1, PostsForgotten DEF Forgets
  <2>4. FormOK' /\ MemoryOK'
    BY <2>1 DEF Forgets, FormOK, MemoryOK, Fresh
  <2> QED
    BY <1>1, <1>2, <2>2, <2>3, <2>4
<1>4. CASE continuity' = continuity
  <2>1. /\ UNCHANGED <<draft, receipt, saved>>
        /\ \/ form' = None /\ posts' = Every(Unmounted)
           \/ (form # None => Shown') /\ UNCHANGED <<form, posts>>
    BY <1>1, <1>4 DEF Rerender
  <2>2. MemoryOK'
    BY <1>1, <1>4, <2>1 DEF MemoryOK, Fresh
  <2>3. CASE form' = None /\ posts' = Every(Unmounted)
    <3>1. FormTyped'
      BY <1>1, <2>1, <2>3, EveryPost DEF FormTyped
    <3>2. PostsOK'
      BY <1>1, <1>4, <2>3, PostsUnmounted
    <3> QED
      BY <1>1, <1>2, <2>2, <2>3, <3>1, <3>2 DEF FormOK
  <2>4. CASE (form # None => Shown') /\ UNCHANGED <<form, posts>>
    <3>1. FormTyped'
      BY <1>1, <2>1, <2>4 DEF FormTyped
    <3>2. PostsOK'
      BY <1>1, <1>4, <2>4, PostsRest
    <3>3. FormOK'
      BY <1>1, <1>4, <2>4 DEF FormOK, Fresh
    <3> QED
      BY <1>1, <1>2, <2>2, <3>1, <3>2, <3>3
  <2> QED
    BY <2>1, <2>3, <2>4
<1> QED
  BY <1>1, <1>3, <1>4

LEMMA LeftStep ==
  ASSUME Inv, Left, UNCHANGED <<boundaryVars, serverVars, historyVars>>,
         storage' \in [Users -> Operations \union {None}], StorageOK'
  PROVE  Inv'
<1> USE DEF Inv
<1>1. /\ SessionOK' /\ UNCHANGED <<ledger, expired, issued, settled, rejected>>
      /\ Forgets /\ posts' = Every(Abandoned)
  BY SessionRests DEF Left, serverVars, historyVars
<1>2. FormTyped'
  BY <1>1, EveryPost DEF FormTyped, Forgets
<1>3. PostsOK' /\ LedgerOK'
  BY <1>1, PostsForgotten, LedgerRests DEF Forgets
<1>4. FormOK' /\ MemoryOK'
  BY <1>1 DEF Forgets, FormOK, MemoryOK, Fresh
<1> QED
  BY <1>1, <1>2, <1>3, <1>4

LEMMA LeaveStep ==
  ASSUME Inv, Leave
  PROVE  Inv'
BY LeftStep, StorageRests DEF Leave, sessionVars, historyVars, Inv, FormTyped

LEMMA EnterStep ==
  ASSUME Inv, Enter
  PROVE  Inv'
<1> USE DEF Inv
<1>1. form = None
  BY DEF Enter, FormOK, Shown
<1>2. /\ SessionOK' /\ UNCHANGED <<continuity, draft, receipt, saved, form, posts, storage>>
      /\ UNCHANGED <<ledger, expired, issued, settled, rejected>>
  BY SessionRests DEF Enter, serverVars, historyVars, boundaryVars
<1>3. FormTyped' /\ MemoryOK'
  BY <1>2 DEF FormTyped, MemoryOK, Fresh
<1>4. FormOK' /\ PostsOK' /\ StorageOK' /\ LedgerOK'
  BY <1>1, <1>2, PostsRest, StorageRests, LedgerRests DEF FormOK
<1> QED
  BY <1>2, <1>3, <1>4

-----------------------------------------------------------------------------
(* The form. *)

(* A form that is mounted shows what is stored, or what was typed.         *)
LEMMA RestoredForm ==
  ASSUME Inv, Ready
  PROVE  /\ Restored \in Forms /\ Restored.owner = continuity.owner /\ Fresh(Restored.body)
         /\ Restored.attempt # None => Restored.attempt.body.author = Restored.owner
         /\ Restored.failed \in {"invalid", "deleted"} => Restored.op \in settled
         /\ Restored.failed # "no" /\ Restored.attempt # None => Restored.attempt = Restored.op
<1> DEFINE owner   == epoch.owner
           stored  == storage[owner]
           bad     == Unreadable(owner)
           known   == bad /\ receipt # None /\ receipt.failed = "invalid" /\ receipt.op = stored
           tried   == IF bad /\ ~known THEN None ELSE stored
           old     == IF /\ receipt # None /\ (~bad \/ known)
                         /\ IF tried # None THEN receipt.op = tried
                            ELSE receipt.op = None \/ receipt.failed = "invalid"
                      THEN receipt ELSE None
           body    == IF tried # None THEN Input(tried.body, None)
                      ELSE IF old # None THEN old.body
                      ELSE IF bad THEN None ELSE draft
           failed  == IF old # None THEN old.failed ELSE "no"
           blocked == IF bad THEN "recovery" ELSE IF old # None THEN old.blocked ELSE "no"
           op      == IF old # None THEN old.op ELSE None
<1>1. Restored = [owner |-> owner, attempt |-> tried, body |-> body, failed |-> failed,
                  blocked |-> blocked, op |-> op, saving |-> FALSE]
  BY DEF Restored
<1>2. owner = continuity.owner /\ owner \in Users
  BY ReadyOwner DEF Inv
<1>3. /\ stored \in Operations \union {None}
      /\ stored # None => stored.body.author = owner
  BY <1>2 DEF Inv, FormTyped, StorageOK
<1>4. tried \in {None, stored}
  OBVIOUS
<1>5. old = None \/ (old = receipt /\ (tried # None => receipt.op = tried))
  OBVIOUS
<1> HIDE DEF owner, stored, bad, known, tried, old
<1>6. /\ old # None => /\ old \in Receipts /\ Fresh(old.body)
                       /\ old.failed \in {"invalid", "deleted"} => old.op \in settled
      /\ Fresh(draft) /\ draft \in Inputs \union {None}
  BY <1>5, Typing DEF Inv, MemoryOK, FormTyped
<1>7. tried # None =>
        /\ tried \in Operations /\ tried.body.author = owner
        /\ Input(tried.body, None) \in Inputs /\ Fresh(Input(tried.body, None))
  BY <1>2, <1>3, <1>4 DEF Operations, Input, Inputs, Fresh
<1>8. body \in Inputs \union {None} /\ Fresh(body)
  <2>1. old # None => old.body \in Inputs \union {None}
    BY <1>6 DEF Receipts
  <2>2. Fresh(None)
    BY DEF Fresh
  <2> QED
    BY <1>6, <1>7, <2>1, <2>2
<1>9. /\ failed \in Answers \union {"no"} /\ blocked \in {"no", "recovery", "other"}
      /\ op \in Operations \union {None} /\ tried \in Operations \union {None}
      /\ failed \in {"invalid", "deleted"} => op \in settled
      /\ failed # "no" /\ tried # None => tried = op
  <2>1. old # None => /\ old.failed \in Answers \union {"no"}
                      /\ old.blocked \in {"no", "recovery", "other"}
                      /\ old.op \in Operations \union {None}
    BY <1>6 DEF Receipts
  <2> QED
    BY <1>5, <1>6, <1>7, <2>1
<1> HIDE DEF body, failed, blocked, op
<1>10. /\ Restored \in Forms /\ Restored.owner = owner /\ Restored.body = body
       /\ Restored.attempt = tried /\ Restored.failed = failed /\ Restored.op = op
  BY <1>1, <1>2, <1>8, <1>9 DEF Forms
<1> QED
  BY <1>2, <1>7, <1>8, <1>9, <1>10

LEMMA MountStep ==
  ASSUME Inv, Mount
  PROVE  Inv'
<1>1. /\ Shown /\ Ready /\ ~Operating /\ form' = Restored /\ Held(Restored)
      /\ UNCHANGED <<boundaryVars, here, saved, posts, serverVars, historyVars>>
      /\ UNCHANGED <<storage, continuity, settled, issued>>
  BY DEF Mount, Shown, FormBecomes, sessionVars, boundaryVars, historyVars
<1>2. ASSUME NEW s \in Slots, posts[s] # None, posts[s].heard PROVE FALSE
  <2>1. posts[s].op.body.author = epoch.owner /\ posts[s].visit
    BY <1>1, <1>2, ReadyOwner DEF Inv, PostsOK, PostOK
  <2> QED
    BY <1>1, <1>2, <2>1 DEF Operating
<1>3. /\ draft' \in Inputs \union {None} /\ receipt' \in Receipts \union {None} /\ MemoryOK'
      /\ receipt' # None /\ receipt'.complete => receipt' = receipt
  BY <1>1, RestoredForm, HeldStep DEF Inv
<1>4. StorageOK' /\ storage' \in [Users -> Operations \union {None}]
  BY <1>1, StorageRests DEF Inv, FormTyped
<1> QED
  BY <1>1, <1>2, <1>3, <1>4, RestoredForm, PageStep

(* A step of the mounted form while no save runs. *)
LEMMA HeldForm ==
  ASSUME Inv, form # None, ~form.saving, NEW f \in Forms, FormBecomes(f),
         UNCHANGED <<boundaryVars, here, saved, posts, serverVars, historyVars>>,
         f.owner = form.owner, Fresh(f.body), f.attempt = form.attempt,
         f.failed \in {"invalid", "deleted"} => f.op \in settled,
         f.failed # "no" /\ f.attempt # None => f.attempt = f.op,
         storage' = storage
  PROVE  Inv'
<1>1. UNCHANGED <<continuity, settled, issued>> /\ form' = f /\ Held(f)
  BY DEF boundaryVars, historyVars, FormBecomes
<1>2. /\ draft' \in Inputs \union {None} /\ receipt' \in Receipts \union {None} /\ MemoryOK'
      /\ receipt' # None /\ receipt'.complete => receipt' = receipt
  BY <1>1, HeldStep DEF Inv
<1>3. StorageOK' /\ storage' \in [Users -> Operations \union {None}]
  BY <1>1, StorageRests DEF Inv, FormTyped
<1>4. /\ Shown /\ f.owner = continuity.owner
      /\ f.attempt # None => f.attempt.body.author = f.owner
  BY DEF Inv, FormOK
<1>5. \A s \in Slots : posts[s] # None => ~posts[s].heard
  BY Quiet DEF Inv
<1> QED
  BY <1>1, <1>2, <1>3, <1>4, <1>5, PageStep

LEMMA TypeStep ==
  ASSUME Inv, Type
  PROVE  Inv'
<1>1. /\ form # None /\ ~form.saving /\ form.attempt = None /\ form \in Forms
      /\ UNCHANGED <<boundaryVars, here, saved, posts, serverVars, historyVars>>
      /\ UNCHANGED <<storage, continuity, settled, issued>>
  BY Typing DEF Type, sessionVars, boundaryVars, historyVars, Inv
<1> DEFINE Typed(kind) == [author |-> form.owner, kind |-> kind, gen |-> continuity.gen]
           Edited(kind) == [form EXCEPT !.body = Typed(kind)]
<1>2. PICK kind \in BodyKinds :
        IF form.failed = "invalid"
        THEN form' = [Edited(kind) EXCEPT !.failed = "no"] /\ draft' = form'.body /\ receipt' = None
        ELSE FormBecomes(Edited(kind))
  BY DEF Type
<1>3. Typed(kind) \in Inputs /\ Fresh(Typed(kind))
  <2>1. form.owner \in Users /\ form.owner = continuity.owner /\ continuity.gen \in Nat
    BY <1>1 DEF Inv, FormOK, SessionOK, SessionTyped, Forms
  <2> QED
    BY <2>1 DEF Inputs, Fresh
<1> HIDE DEF Typed
<1>4. /\ Edited(kind) \in Forms /\ Edited(kind).body = Typed(kind)
      /\ Edited(kind).owner = form.owner /\ Edited(kind).attempt = None
      /\ Edited(kind).failed = form.failed /\ Edited(kind).op = form.op
  BY <1>1, <1>3 DEF Forms
<1>5. CASE form.failed # "invalid"
  <2>1. FormBecomes(Edited(kind))
    BY <1>2, <1>5
  <2>2. form.failed \in {"invalid", "deleted"} => form.op \in settled
    BY <1>1 DEF Inv, FormOK
  <2> HIDE DEF Edited
  <2> QED
    BY <1>1, <1>3, <1>4, <2>1, <2>2, HeldForm
<1>6. CASE form.failed = "invalid"
  <2> DEFINE f == [Edited(kind) EXCEPT !.failed = "no"]
  <2> HIDE DEF Edited
  <2>1. /\ f \in Forms /\ f.body = Typed(kind) /\ f.owner = form.owner
        /\ f.attempt = None /\ f.failed = "no"
    BY <1>4 DEF Forms
  <2>2. form' = f /\ draft' = f.body /\ receipt' = None
    BY <1>2, <1>6
  <2> HIDE DEF f
  <2>3. MemoryOK' /\ draft' \in Inputs \union {None} /\ receipt' \in Receipts \union {None}
    BY <1>1, <1>3, <2>1, <2>2 DEF Inv, MemoryOK, Fresh
  <2>4. StorageOK' /\ storage' \in [Users -> Operations \union {None}]
    BY <1>1, StorageRests DEF Inv, FormTyped
  <2>5. Shown /\ form.owner = continuity.owner
    BY <1>1 DEF Inv, FormOK
  <2>6. \A s \in Slots : posts[s] # None => ~posts[s].heard
    BY <1>1, Quiet DEF Inv
  <2> QED
    BY <1>1, <1>3, <2>1, <2>2, <2>3, <2>4, <2>5, <2>6, PageStep
<1> QED
  BY <1>5, <1>6

LEMMA SubmitThrowsStep ==
  ASSUME Inv, SubmitThrows
  PROVE  Inv'
<1> DEFINE blocked == IF Unreadable(form.owner) THEN "recovery" ELSE "other"
           f == [form EXCEPT !.failed = "no", !.blocked = blocked]
<1>1. /\ form # None /\ ~form.saving /\ form.attempt = None /\ form \in Forms
      /\ UNCHANGED <<boundaryVars, here, saved, posts, serverVars, historyVars, storage>>
      /\ FormBecomes(f)
  BY Typing DEF SubmitThrows, MaySubmit, Inv
<1>2. blocked \in {"no", "recovery", "other"}
  OBVIOUS
<1> HIDE DEF blocked
<1>3. /\ f \in Forms /\ f.owner = form.owner /\ f.body = form.body /\ f.attempt = None
      /\ f.failed = "no"
  BY <1>1, <1>2 DEF Forms
<1>4. Fresh(form.body)
  BY <1>1 DEF Inv, FormOK
<1> HIDE DEF f
<1> QED
  BY <1>1, <1>3, <1>4, HeldForm

LEMMA RestartStep ==
  ASSUME Inv, Restart
  PROVE  Inv'
<1>1. /\ form # None /\ ~form.saving /\ form.attempt # None /\ form \in Forms
      /\ form.failed \in {"invalid", "deleted"}
      /\ UNCHANGED <<boundaryVars, here, saved, posts, serverVars, historyVars>>
      /\ UNCHANGED <<continuity, settled, issued>>
  BY Typing DEF Restart, Inv, boundaryVars, historyVars
<1>2. /\ Shown /\ form.owner = continuity.owner /\ Fresh(form.body)
      /\ form.attempt.body.author = form.owner
      /\ form.op \in settled /\ form.attempt = form.op
  BY <1>1 DEF Inv, FormOK
<1>3. CASE FormBecomes([form EXCEPT !.blocked = "recovery"]) /\ storage' = storage
  <2> DEFINE f == [form EXCEPT !.blocked = "recovery"]
  <2>1. /\ f \in Forms /\ f.owner = form.owner /\ f.body = form.body /\ f.attempt = form.attempt
        /\ f.failed = form.failed /\ f.op = form.op
    BY <1>1 DEF Forms
  <2>2. FormBecomes(f) /\ storage' = storage
    BY <1>3
  <2> HIDE DEF f
  <2> QED
    BY <1>1, <1>2, <2>1, <2>2, HeldForm
<1>4. CASE /\ storage' = ClearedStorage(form.attempt)
           /\ form' = [form EXCEPT !.attempt = None, !.blocked = "no",
                                  !.failed = IF @ = "deleted" THEN "no" ELSE @]
           /\ IF form.failed = "deleted"
              THEN draft' = form.body /\ receipt' = None
              ELSE draft' = None /\ receipt' = Failure(form')
  <2>1. form.body \in Inputs \union {None} /\ form.op \in Operations
    BY <1>1, <1>2 DEF Forms, Inv, FormTyped
  <2>2. /\ form' \in Forms /\ form'.owner = form.owner /\ form'.body = form.body
        /\ form'.attempt = None /\ form'.op = form.op
        /\ form'.failed = IF form.failed = "deleted" THEN "no" ELSE form.failed
    BY <1>1, <1>4 DEF Forms
  <2>3. /\ storage' \in [Users -> Operations \union {None}] /\ StorageOK'
    BY <1>1, <1>2, <1>4, <2>1, StorageCleared DEF Inv
  <2>4. form.failed # "deleted" =>
          /\ Failure(form') \in Receipts /\ Failure(form').body = form.body
          /\ ~Failure(form').complete /\ Failure(form').op = form.op
    BY <1>1, <2>1, <2>2 DEF Failure, Receipts, Forms
  <2>5. /\ draft' \in {None, form.body}
        /\ receipt' = None \/ (form.failed # "deleted" /\ receipt' = Failure(form'))
    BY <1>4
  <2>6. draft' \in Inputs \union {None} /\ receipt' \in Receipts \union {None}
    BY <2>1, <2>4, <2>5
  <2>7. Fresh(draft)' /\ (saved # None => saved.op \in settled)'
    BY <1>1, <1>2, <2>5 DEF Fresh, Inv, MemoryOK
  <2>8. receipt' # None =>
          /\ Fresh(receipt.body)' /\ receipt'.op \in settled' /\ ~receipt'.complete
    BY <1>1, <1>2, <2>4, <2>5 DEF Fresh
  <2>9. MemoryOK'
    BY <2>7, <2>8 DEF MemoryOK
  <2>10. \A s \in Slots : posts[s] # None => ~posts[s].heard
    BY <1>1, Quiet DEF Inv
  <2>11. Fresh(form'.body) /\ (form'.failed \in {"invalid", "deleted"} => form'.op \in settled)
    BY <1>2, <2>2
  <2> QED
    BY <1>1, <1>2, <2>2, <2>3, <2>6, <2>8, <2>9, <2>10, <2>11, PageStep
<1> QED
  BY <1>3, <1>4 DEF Restart

-----------------------------------------------------------------------------
(* The effects of the page. *)

LEMMA PutAwayStep ==
  ASSUME Inv, PutAway
  PROVE  Inv'
<1> USE DEF Inv
<1>1. /\ Ready /\ receipt # None /\ receipt.complete /\ receipt \in Receipts
      /\ UNCHANGED <<boundaryVars, here, draft, saved, form, posts, continuity>>
      /\ UNCHANGED <<ledger, expired, issued, settled, rejected>>
      /\ SessionOK'
  BY Typing, SessionRests DEF PutAway, boundaryVars, serverVars, historyVars
<1>2. /\ form = None
      /\ receipt.op \in settled /\ receipt.op \in Operations /\ Fresh(receipt.body)
  BY <1>1 DEF FormOK, Shown, MemoryOK, FormTyped
<1>3. /\ \/ receipt' = [receipt EXCEPT !.complete = FALSE, !.blocked = "recovery"]
         \/ receipt' = [receipt EXCEPT !.complete = FALSE]
         \/ receipt' = None
      /\ storage' = storage \/ storage' = ClearedStorage(receipt.op)
  BY DEF PutAway
<1>4. receipt' # None =>
        receipt' \in Receipts /\ receipt'.body = receipt.body /\ receipt'.op = receipt.op
  <2>1. LET r == [receipt EXCEPT !.complete = FALSE, !.blocked = "recovery"]
        IN r \in Receipts /\ r.body = receipt.body /\ r.op = receipt.op
    BY <1>1 DEF Receipts
  <2>2. LET r == [receipt EXCEPT !.complete = FALSE]
        IN r \in Receipts /\ r.body = receipt.body /\ r.op = receipt.op
    BY <1>1 DEF Receipts
  <2> QED
    BY <1>3, <2>1, <2>2
<1>5. storage' \in [Users -> Operations \union {None}] /\ StorageOK'
  <2>1. CASE storage' = storage
    BY <1>1, <2>1, StorageRests DEF FormTyped
  <2>2. CASE storage' = ClearedStorage(receipt.op)
    BY <1>1, <1>2, <2>2, StorageCleared
  <2> QED
    BY <1>3, <2>1, <2>2
<1>6. FormTyped'
  BY <1>1, <1>4, <1>5 DEF FormTyped
<1>7. Fresh(draft)' /\ (saved # None => saved.op \in settled)'
  BY <1>1 DEF Fresh, MemoryOK
<1>8. receipt' # None => Fresh(receipt.body)' /\ receipt'.op \in settled'
  BY <1>1, <1>2, <1>4 DEF Fresh
<1>9. MemoryOK'
  BY <1>7, <1>8 DEF MemoryOK
<1>10. FormOK' /\ PostsOK' /\ LedgerOK'
  BY <1>1, <1>2, PostsRest, LedgerRests DEF FormOK
<1> QED
  BY <1>1, <1>5, <1>6, <1>9, <1>10

LEMMA FinishStep ==
  ASSUME Inv, Finish
  PROVE  Inv'
<1> USE DEF Inv
<1>1. /\ saved # None /\ Ready /\ saved \in [op : Operations, failed : BOOLEAN]
      /\ UNCHANGED <<boundaryVars, continuity, ledger, expired, issued, settled, rejected>>
      /\ UNCHANGED <<serverVars, historyVars>>
      /\ SessionOK'
  BY Typing, SessionRests DEF Finish, SaveConfirmed, boundaryVars, serverVars, historyVars
<1>2. form = None /\ saved.op \in settled /\ saved.op \in Operations
  BY <1>1 DEF FormOK, Shown, SaveConfirmed, MemoryOK
<1>3. CASE storage' = ClearedStorage(saved.op) /\ Left
  BY <1>1, <1>2, <1>3, StorageCleared, LeftStep
<1>4. CASE /\ saved' = None \/ saved' = [saved EXCEPT !.failed = TRUE]
           /\ UNCHANGED <<storage, here, draft, receipt, form, posts>>
  <2>1. saved' # None => saved' \in [op : Operations, failed : BOOLEAN] /\ saved'.op = saved.op
    BY <1>1, <1>4
  <2>2. FormTyped'
    BY <1>1, <1>4, <2>1 DEF FormTyped
  <2>3. MemoryOK'
    BY <1>1, <1>2, <1>4, <2>1 DEF MemoryOK, Fresh
  <2>4. FormOK' /\ PostsOK' /\ LedgerOK' /\ StorageOK'
    BY <1>1, <1>2, <1>4, PostsRest, LedgerRests, StorageRests DEF FormOK
  <2> QED
    BY <1>1, <2>2, <2>3, <2>4
<1> QED
  BY <1>3, <1>4 DEF Finish

-----------------------------------------------------------------------------
(* Sending. *)

(* A new operation is made only when none of its author is stored.         *)
LEMMA StorageKeeps ==
  ASSUME FormTyped, StorageOK, NEW u \in Users, storage[u] = None, NEW op \in Operations,
         op.body.author = u, storage' = [storage EXCEPT ![u] = op],
         issued' = issued \union {op}, settled' = settled
  PROVE  /\ storage' \in [Users -> Operations \union {None}] /\ issued' \subseteq Operations
         /\ StorageOK'
<1>1. /\ storage' \in [Users -> Operations \union {None}] /\ issued' \subseteq Operations
      /\ storage'[u] = op /\ \A v \in Users : v # u => storage'[v] = storage[v]
  BY DEF FormTyped
<1>2. \A v \in Users : storage'[v] # None => storage'[v].body.author = v
  BY <1>1 DEF StorageOK
<1>3. ASSUME NEW o \in issued' \ settled' PROVE storage'[o.body.author] = o
  <2>1. CASE o = op
    BY <1>1, <2>1
  <2>2. CASE o # op
    <3>1. o \in Operations /\ o.body.author \in Users /\ storage[o.body.author] = o
      BY <1>3, <2>2 DEF FormTyped, Operations, StorageOK, UnknownCreationsAreKept
    <3>2. o.body.author # u
      BY <3>1, CreateFormAssumption
    <3> QED
      BY <1>1, <3>1, <3>2
  <2> QED
    BY <2>1, <2>2
<1> QED
  BY <1>1, <1>2, <1>3 DEF StorageOK, UnknownCreationsAreKept

LEMMA SubmitStep ==
  ASSUME Inv, NEW s \in Slots, Submit(s)
  PROVE  Inv'
<1> USE DEF Inv
<1> DEFINE known == IF form.attempt # None THEN form.attempt ELSE storage[form.owner]
<1>1. /\ form # None /\ ~form.saving /\ form \in Forms
      /\ draft' = None /\ receipt' = None
      /\ UNCHANGED <<boundaryVars, here, saved, continuity>>
      /\ UNCHANGED <<ledger, expired, settled, rejected>>
      /\ SessionOK'
  BY Typing, SessionRests DEF Submit, MaySubmit, sessionVars, boundaryVars, serverVars
<1>2. /\ form.owner \in Users /\ form.attempt \in Operations \union {None}
      /\ form.body \in Inputs \union {None}
  BY <1>1 DEF Forms
<1>3. /\ Shown /\ form.owner = continuity.owner /\ Fresh(form.body)
      /\ form.attempt # None => form.attempt.body.author = form.owner
  BY <1>1 DEF FormOK
<1>4. PICK o \in Operations :
        /\ o.body.author = form.owner /\ Sends(s, o)
        /\ \/ UNCHANGED <<storage, issued>>
           \/ /\ storage[form.owner] = None /\ issued' = issued \union {o}
              /\ storage' = [storage EXCEPT ![form.owner] = o]
  <2>1. CASE known # None
    <3>1. known \in Operations /\ known.body.author = form.owner
      BY <1>2, <1>3, <2>1 DEF FormTyped, StorageOK
    <3>2. Sends(s, known) /\ UNCHANGED <<storage, issued>>
      BY <2>1 DEF Submit
    <3> QED
      BY <3>1, <3>2
  <2>2. CASE known = None
    <3>1. form.body # None /\ storage[form.owner] = None
      BY <2>2 DEF Submit
    <3>2. PICK key \in Keys :
            LET op == [key |-> key, body |-> BodyOf(form.body)]
            IN /\ Sends(s, op)
               /\ storage' = [storage EXCEPT ![form.owner] = op]
               /\ issued' = issued \union {op}
      BY <2>2 DEF Submit
    <3> DEFINE op == [key |-> key, body |-> BodyOf(form.body)]
    <3>3. op \in Operations /\ op.body.author = form.owner
      BY <1>2, <1>3, <3>1 DEF Operations, BodyOf, Inputs, Fresh
    <3> HIDE DEF op
    <3> QED
      BY <3>1, <3>2, <3>3 DEF op
  <2> QED
    BY <2>1, <2>2
<1>5. /\ posts[s] = None /\ posts' \in [Slots -> Posts \union {None}]
      /\ \A t \in Slots : t # s => posts'[t] = posts[t]
      /\ posts'[s].op = o /\ posts'[s].pc = "check" /\ posts'[s].live /\ posts'[s].heard
      /\ posts'[s].visit /\ posts'[s].answer = "unknown"
      /\ form' \in Forms /\ form'.owner = form.owner /\ form'.body = form.body
      /\ form'.attempt = o /\ form'.op = o /\ form'.saving /\ form'.failed = "no"
  BY <1>1, <1>4, SentPost
<1>6. /\ storage' \in [Users -> Operations \union {None}] /\ issued' \subseteq Operations
      /\ StorageOK'
  <2>1. CASE UNCHANGED <<storage, issued>>
    BY <1>1, <2>1, StorageRests DEF FormTyped
  <2>2. CASE /\ storage[form.owner] = None /\ issued' = issued \union {o}
             /\ storage' = [storage EXCEPT ![form.owner] = o]
    BY <1>1, <1>2, <1>4, <2>2, StorageKeeps
  <2> QED
    BY <1>4, <2>1, <2>2
<1>7. FormTyped'
  BY <1>1, <1>5, <1>6 DEF FormTyped
<1>8. FormOK' /\ MemoryOK'
  <2>1. Shown'
    BY <1>1, <1>3, ShownStays
  <2>2. Fresh(form.body)' /\ Fresh(draft)'
    BY <1>1, <1>3, <1>5 DEF Fresh
  <2>3. FormOK'
    BY <1>1, <1>3, <1>4, <1>5, <2>1, <2>2 DEF FormOK
  <2>4. MemoryOK'
    BY <1>1, <2>2 DEF MemoryOK
  <2> QED
    BY <2>3, <2>4
<1>9. PostsOK'
  <2>1. form' # None
    BY <1>5, CreateFormAssumption
  <2>2. PostOK(s)'
    BY <1>1, <1>3, <1>4, <1>5, <2>1 DEF PostOK
  <2>3. ASSUME NEW t \in Slots, t # s PROVE PostOK(t)' /\ ~Alive(t)'
    <3>1. posts'[t] = posts[t] /\ PostOK(t) /\ (posts[t] # None => ~posts[t].heard /\ ~posts[t].live)
      BY <1>1, <1>5, <2>3, Quiet DEF PostsOK
    <3> QED
      BY <1>1, <3>1 DEF PostOK, Alive, Barred
  <2> QED
    BY <2>2, <2>3 DEF PostsOK
<1> QED
  BY <1>1, <1>6, <1>7, <1>8, <1>9, LedgerRests

-----------------------------------------------------------------------------
(* A mutation, and the server. *)

LEMMA AnsweredPosts ==
  ASSUME FormTyped, PostsOK, NEW s \in Slots, posts[s] # None, NEW a \in Answers, Answered(s, a),
         UNCHANGED <<form, continuity, settled>>,
         \A o \in Operations : Barred(o) => Barred(o)',
         NEW op \in Operations, op = posts[s].op, a = "invalid" => Barred(op)'
  PROVE  posts' \in [Slots -> Posts \union {None}] /\ PostsOK'
<1>1. /\ posts' \in [Slots -> Posts \union {None}]
      /\ \A t \in Slots : t # s => posts'[t] = posts[t]
      /\ posts'[s].op = op /\ posts'[s].pc = "answered"
      /\ posts'[s].answer = a /\ posts'[s].live = posts[s].live
      /\ posts'[s].heard = posts[s].heard /\ posts'[s].visit = posts[s].visit
  BY AnsweredPost
<1>2. ASSUME NEW t \in Slots PROVE PostOK(t)' /\ (Alive(t)' => Alive(t))
  <2>1. PostOK(t) /\ (posts[t] # None => posts[t].op \in Operations)
    BY Typing DEF PostsOK, Posts
  <2>2. CASE t = s
    <3>1. a = "invalid" => Barred(posts[s].op)'
      BY <1>1 DEF Barred
    <3> QED
      BY <1>1, <2>1, <2>2, <3>1 DEF PostOK, Alive
  <2>3. CASE t # s
    <3>1. posts'[t] = posts[t]
      BY <1>1, <2>3
    <3>2. posts[t] # None /\ Barred(posts[t].op) => Barred(posts[t].op)'
      <4>1. CASE posts[t] # None
        <5>1. PICK o \in Operations : o = posts[t].op
          BY <2>1, <4>1
        <5>2. Barred(o) => Barred(o)'
          OBVIOUS
        <5> QED
          BY <5>1, <5>2, <3>1 DEF Barred
      <4> QED
        BY <4>1
    <3> QED
      BY <2>1, <3>1, <3>2 DEF PostOK, Alive
  <2> QED
    BY <2>2, <2>3
<1> QED
  BY <1>1, <1>2 DEF PostsOK

LEMMA UnansweredStep ==
  ASSUME Inv, NEW s \in Slots, posts[s] # None, NEW a \in Answers \ {"invalid"}, Answered(s, a),
         UNCHANGED <<sessionVars, pageVars, storage, serverVars, historyVars>>
  PROVE  Inv'
<1> USE DEF Inv
<1>1. /\ UNCHANGED <<boundaryVars, continuity, here, draft, receipt, saved, form, storage>>
      /\ UNCHANGED <<ledger, expired, issued, settled, rejected>>
      /\ SessionOK'
  BY SessionRests DEF sessionVars, boundaryVars, pageVars, serverVars, historyVars
<1>2. PICK op \in Operations : op = posts[s].op
  BY Typing DEF Posts
<1>3. posts' \in [Slots -> Posts \union {None}] /\ PostsOK'
  <2>1. \A o \in Operations : Barred(o) => Barred(o)'
    BY <1>1 DEF Barred
  <2> QED
    BY <1>1, <1>2, <2>1, AnsweredPosts
<1>4. FormTyped' /\ MemoryOK'
  BY <1>1, <1>3 DEF FormTyped, MemoryOK, Fresh
<1>5. FormOK'
  BY <1>1, ShownStays DEF FormOK, Fresh
<1> QED
  BY <1>1, <1>3, <1>4, <1>5, StorageRests, LedgerRests

LEMMA LoseStep ==
  ASSUME Inv, NEW s \in Slots, Lose(s)
  PROVE  Inv'
BY UnansweredStep DEF Lose, At, Answers

LEMMA ConfirmStep ==
  ASSUME Inv, NEW s \in Slots, Confirm(s)
  PROVE  Inv'
<1> USE DEF Inv
<1>1. /\ posts[s] # None /\ posts[s].pc = "check"
      /\ UNCHANGED <<sessionVars, pageVars, storage, serverVars, historyVars>>
  BY DEF Confirm, At
<1>2. CASE Answered(s, "owner") \/ Answered(s, "unknown")
  BY <1>1, <1>2, UnansweredStep DEF Answers
<1>3. CASE posts' = [posts EXCEPT ![s].pc = "sent"]
  <2>1. /\ UNCHANGED <<boundaryVars, continuity, here, draft, receipt, saved, form, storage>>
        /\ UNCHANGED <<ledger, expired, issued, settled, rejected>>
        /\ SessionOK'
    BY <1>1, SessionRests DEF sessionVars, boundaryVars, pageVars, serverVars, historyVars
  <2>2. /\ posts' \in [Slots -> Posts \union {None}]
        /\ \A t \in Slots : t # s => posts'[t] = posts[t]
        /\ posts'[s].op = posts[s].op /\ posts'[s].pc = "sent"
        /\ posts'[s].live = posts[s].live
        /\ posts'[s].heard = posts[s].heard /\ posts'[s].visit = posts[s].visit
    BY <1>1, <1>3, MovedPost
  <2>3. PostsOK'
    <3>1. ASSUME NEW t \in Slots PROVE PostOK(t)' /\ (Alive(t)' => Alive(t))
      <4>1. PostOK(t)
        BY DEF PostsOK
      <4> QED
        BY <1>1, <2>1, <2>2, <4>1 DEF PostOK, Alive, Barred
    <3> QED
      BY <3>1 DEF PostsOK
  <2>4. FormTyped' /\ MemoryOK'
    BY <2>1, <2>2 DEF FormTyped, MemoryOK, Fresh
  <2>5. FormOK'
    BY <2>1, ShownStays DEF FormOK, Fresh
  <2> QED
    BY <2>1, <2>3, <2>4, <2>5, StorageRests, LedgerRests
<1> QED
  BY <1>2, <1>3 DEF Confirm

(* What the server makes a goal of is not refused, and what it refuses it   *)
(* has made no goal of.                                                     *)
LEMMA ServedOnce ==
  ASSUME Inv, NEW op \in Operations
  PROVE  /\ Reply(op) \in Answers
         /\ Reply(op) = "invalid" => Barred(op)
         /\ Reply(op) = "saved" /\ Created(op) = {} =>
              op.body.kind # "unsound" /\ cookie = op.body.author /\ ~Barred(op)
<1>1. Reply(op) \in Answers
  BY DEF Reply, Answers
<1>2. \A e \in ledger : e.op = op => e.owner = op.body.author /\ op.body.kind # "unsound"
  BY DEF Inv, LedgerOK
<1>3. ASSUME Reply(op) = "invalid" PROVE Barred(op)
  <2>1. CASE op.body.kind = "unsound"
    BY <1>2, <2>1 DEF Barred
  <2>2. CASE op.body.kind # "unsound"
    <3>1. op.body.kind = "dated" /\ expired /\ cookie = op.body.author /\ Created(op) = {}
      BY <1>3, <2>2 DEF Reply
    <3> QED
      BY <1>2, <3>1 DEF Barred, Created
  <2> QED
    BY <2>1, <2>2
<1>4. ASSUME Reply(op) = "saved", Created(op) = {}
      PROVE  op.body.kind # "unsound" /\ cookie = op.body.author /\ ~Barred(op)
  BY <1>4 DEF Reply, Barred
<1> QED
  BY <1>1, <1>3, <1>4

LEMMA ServeStep ==
  ASSUME Inv, NEW s \in Slots, Serve(s)
  PROVE  Inv'
<1> USE DEF Inv
<1>1. /\ posts[s] # None
      /\ UNCHANGED <<boundaryVars, continuity, here, draft, receipt, saved, form, storage>>
      /\ UNCHANGED <<expired, issued, settled, rejected>>
      /\ SessionOK'
  BY SessionRests DEF Serve, At, sessionVars, boundaryVars, pageVars, historyVars
<1>2. PICK op \in Operations : op = posts[s].op
  BY <1>1, Typing DEF Posts
<1> DEFINE reply == Reply(op)
           entry == [owner |-> cookie, op |-> op, alive |-> TRUE]
<1>3. /\ Answered(s, reply)
      /\ ledger' = IF reply = "saved" /\ Created(op) = {} THEN ledger \union {entry} ELSE ledger
  BY <1>2 DEF Serve
<1>4. /\ reply \in Answers
      /\ reply = "invalid" => Barred(op)
      /\ reply = "saved" /\ Created(op) = {} =>
           op.body.kind # "unsound" /\ cookie = op.body.author /\ ~Barred(op)
  BY ServedOnce
<1>5. entry \in Entries /\ entry.op = op /\ entry.owner = cookie
  BY DEF Entries, SessionOK, SessionTyped
<1> HIDE DEF reply, entry
<1>6. ledger' = ledger \/ (ledger' = ledger \union {entry} /\ reply = "saved"
                           /\ op.body.kind # "unsound" /\ cookie = op.body.author /\ ~Barred(op))
  BY <1>3, <1>4
<1>7. /\ \A o \in Operations : Barred(o) => Barred(o)'
      /\ reply = "invalid" => Barred(op)'
  <2>1. CASE ledger' = ledger
    BY <1>1, <1>4, <2>1 DEF Barred
  <2>2. CASE ledger' = ledger \union {entry} /\ reply = "saved" /\ ~Barred(op)
    <3>1. \A o \in Operations : Barred(o) => o # op
      BY <2>2
    <3> QED
      BY <1>1, <1>5, <2>2, <3>1 DEF Barred
  <2> QED
    BY <1>6, <2>1, <2>2
<1>8. posts' \in [Slots -> Posts \union {None}] /\ PostsOK'
  BY <1>1, <1>2, <1>3, <1>4, <1>7, AnsweredPosts
<1>9. FormTyped' /\ MemoryOK'
  BY <1>1, <1>5, <1>6, <1>8 DEF FormTyped, MemoryOK, Fresh
<1>10. FormOK'
  BY <1>1, ShownStays DEF FormOK, Fresh
<1>11. LedgerOK'
  <2>1. \A o \in rejected : Barred(o)'
    BY <1>7 DEF LedgerOK, FormTyped
  <2>2. \A e \in ledger' : e.op.body.kind # "unsound" /\ e.owner = e.op.body.author
    BY <1>5, <1>6 DEF LedgerOK
  <2> QED
    BY <1>1, <2>1, <2>2 DEF LedgerOK
<1> QED
  BY <1>1, <1>8, <1>9, <1>10, <1>11, StorageRests

(* A page rests while something happens elsewhere. *)
LEMMA ElsewhereStep ==
  ASSUME Inv, UNCHANGED <<sessionVars, pageVars, posts, storage, historyVars>>,
         ledger' \subseteq Entries, \A o \in Operations : Barred(o) => Barred(o)',
         \A e \in ledger' : e.op.body.kind # "unsound" /\ e.owner = e.op.body.author
  PROVE  Inv'
<1> USE DEF Inv
<1>1. /\ UNCHANGED <<boundaryVars, continuity, here, draft, receipt, saved, form, storage>>
      /\ UNCHANGED <<posts, issued, settled, rejected>>
      /\ SessionOK'
  BY SessionRests DEF sessionVars, boundaryVars, pageVars, historyVars
<1>2. FormTyped' /\ MemoryOK'
  BY <1>1 DEF FormTyped, MemoryOK, Fresh
<1>3. FormOK'
  BY <1>1, ShownStays DEF FormOK, Fresh
<1>4. ASSUME NEW t \in Slots PROVE PostOK(t)' /\ (Alive(t)' => Alive(t))
  <2>1. PostOK(t)
    BY DEF PostsOK
  <2>2. ASSUME posts[t] # None, Barred(posts[t].op) PROVE Barred(posts[t].op)'
    <3>1. PICK o \in Operations : o = posts[t].op
      BY <2>2, Typing DEF Posts
    <3>2. Barred(o)'
      BY <2>2, <3>1
    <3> QED
      BY <1>1, <3>1, <3>2 DEF Barred
  <2> QED
    BY <1>1, <2>1, <2>2 DEF PostOK, Alive
<1>5. LedgerOK'
  BY <1>1 DEF LedgerOK, FormTyped
<1> QED
  BY <1>1, <1>2, <1>3, <1>4, <1>5, StorageRests DEF PostsOK

LEMMA DeleteStep ==
  ASSUME Inv, Delete
  PROVE  Inv'
<1>1. PICK e \in ledger : ledger' = (ledger \ {e}) \union {[e EXCEPT !.alive = FALSE]}
  BY DEF Delete
<1>2. UNCHANGED <<sessionVars, pageVars, posts, storage, expired, historyVars>>
  BY DEF Delete
<1> DEFINE d == [e EXCEPT !.alive = FALSE]
<1>3. d \in Entries /\ d.op = e.op /\ d.owner = e.owner
  BY DEF Inv, FormTyped, Entries
<1> HIDE DEF d
<1>4. ledger' = (ledger \ {e}) \union {d}
  BY <1>1 DEF d
<1>5. ledger' \subseteq Entries
  BY <1>3, <1>4 DEF Inv, FormTyped
<1>6. \A o \in Operations : Barred(o) => Barred(o)'
  BY <1>2, <1>3, <1>4 DEF Barred
<1>7. \A x \in ledger' : x.op.body.kind # "unsound" /\ x.owner = x.op.body.author
  BY <1>3, <1>4 DEF Inv, LedgerOK
<1> QED
  BY <1>2, <1>5, <1>6, <1>7, ElsewhereStep

LEMMA DatePassesStep ==
  ASSUME Inv, DatePasses
  PROVE  Inv'
<1>1. \A o \in Operations : Barred(o) => Barred(o)'
  BY DEF DatePasses, Barred
<1> QED
  BY <1>1, ElsewhereStep DEF DatePasses, Inv, FormTyped, LedgerOK

-----------------------------------------------------------------------------
(* What the page is told. *)

LEMMA ToldStep ==
  ASSUME Inv, UNCHANGED serverVars, NEW op \in Operations, NEW a \in Answers, Told(op, a),
         a = "invalid" => Barred(op)
  PROVE  /\ issued' = issued /\ settled \subseteq settled'
         /\ issued' \subseteq Operations /\ settled' \subseteq Operations
         /\ rejected' \subseteq Operations
         /\ a \in {"saved", "invalid", "deleted"} => op \in settled'
         /\ LedgerOK'
BY DEF Told, Definite, Inv, FormTyped, LedgerOK, Barred, serverVars

(* Besides a live mutation, the page hears of none. *)
LEMMA LiveAlone ==
  ASSUME PostsOK, NEW s \in Slots, Alive(s), NEW t \in Slots, t # s, posts[t] # None
  PROVE  ~posts[t].heard /\ ~posts[t].live
BY DEF PostsOK, PostOK, Alive

LEMMA SucceedStep ==
  ASSUME Inv, NEW s \in Slots, Succeed(s)
  PROVE  Inv'
<1> USE DEF Inv
<1>1. /\ posts[s] # None
      /\ UNCHANGED <<boundaryVars, continuity, here, draft, receipt, saved, ledger, expired>>
      /\ UNCHANGED serverVars
      /\ Told(posts[s].op, "saved")
      /\ posts' = [posts EXCEPT ![s].pc = "saved"]
      /\ SessionOK'
  BY SessionRests DEF Succeed, At, boundaryVars, serverVars
<1>2. PICK op \in Operations : op = posts[s].op
  BY <1>1, Typing DEF Posts
<1>3. /\ issued' = issued /\ settled \subseteq settled' /\ op \in settled'
      /\ issued' \subseteq Operations /\ settled' \subseteq Operations
      /\ rejected' \subseteq Operations
      /\ LedgerOK'
  BY <1>1, <1>2, ToldStep DEF Answers
<1>4. /\ posts' \in [Slots -> Posts \union {None}]
      /\ \A t \in Slots : t # s => posts'[t] = posts[t]
      /\ posts'[s].op = op /\ posts'[s].pc = "saved"
      /\ posts'[s].live = posts[s].live
      /\ posts'[s].heard = posts[s].heard /\ posts'[s].visit = posts[s].visit
  BY <1>1, <1>2, MovedPost
<1>5. /\ PostOK(s)
      /\ \A t \in Slots : PostOK(t)
  BY DEF PostsOK
<1>6. MemoryOK'
  BY <1>1, <1>3 DEF MemoryOK, Fresh
<1>7. CASE ~posts[s].live
  <2>1. UNCHANGED <<storage, form>>
    BY <1>7 DEF Succeed
  <2>2. FormTyped'
    BY <1>1, <1>3, <1>4, <2>1 DEF FormTyped
  <2>3. FormOK'
    BY <1>1, <1>3, <2>1, ShownStays DEF FormOK, Fresh
  <2>4. ASSUME NEW t \in Slots PROVE PostOK(t)' /\ (Alive(t)' => Alive(t))
    BY <1>1, <1>2, <1>3, <1>4, <1>5, <1>7, <2>1 DEF PostOK, Alive, Barred
  <2>5. PostsOK'
    BY <2>4 DEF PostsOK
  <2> QED
    BY <1>1, <1>3, <1>6, <2>1, <2>2, <2>3, <2>5, StorageRests
<1>8. CASE posts[s].live
  <2>1. /\ form # None /\ form.saving /\ form.op = op /\ form.attempt \in {None, op}
        /\ form \in Forms /\ posts[s].heard /\ posts[s].visit
        /\ op.body.author = continuity.owner
    BY <1>1, <1>2, <1>5, <1>8, Typing DEF PostOK
  <2>2. PICK throws \in BOOLEAN :
          /\ storage' = IF throws THEN storage ELSE ClearedStorage(op)
          /\ form' = [form EXCEPT
               !.attempt = IF ~throws /\ Clears(op) /\ @ = op THEN None ELSE @,
               !.blocked = IF throws THEN "recovery" ELSE @]
    BY <1>2, <1>8 DEF Succeed
  <2>3. /\ form' \in Forms /\ form'.owner = form.owner /\ form'.body = form.body
        /\ form'.attempt \in {None, form.attempt} /\ form'.op = op /\ form'.saving
        /\ form'.failed = form.failed
    BY <2>1, <2>2 DEF Forms
  <2>4. form' # None
    BY <2>3, CreateFormAssumption
  <2>5. storage' \in [Users -> Operations \union {None}] /\ StorageOK'
    <3>1. CASE throws
      BY <1>3, <2>2, <3>1, StorageRests DEF FormTyped
    <3>2. CASE ~throws
      <4>1. storage' = ClearedStorage(op)
        BY <2>2, <3>2
      <4> QED
        BY <1>3, <4>1, StorageCleared
    <3> QED
      BY <3>1, <3>2
  <2>6. FormTyped'
    BY <1>1, <1>3, <1>4, <2>3, <2>5 DEF FormTyped
  <2>7. FormOK'
    <3>1. Shown' /\ Fresh(form.body)'
      BY <1>1, <2>1, <2>3, ShownStays DEF FormOK, Fresh
    <3> QED
      BY <1>1, <1>3, <2>1, <2>3, <3>1 DEF FormOK
  <2>8. PostOK(s)'
    BY <1>1, <1>3, <1>4, <1>8, <2>1, <2>3, <2>4 DEF PostOK
  <2>9. ASSUME NEW t \in Slots, t # s PROVE PostOK(t)' /\ ~Alive(t)'
    <3>1. posts'[t] = posts[t] /\ (posts[t] # None => ~posts[t].heard /\ ~posts[t].live)
      BY <1>1, <1>4, <1>8, <2>9, LiveAlone DEF Alive
    <3> QED
      BY <1>1, <1>3, <1>5, <3>1, ZenonT(40) DEF PostOK, Alive, Barred
  <2>10. PostsOK'
    BY <2>8, <2>9 DEF PostsOK
  <2> QED
    BY <1>1, <1>3, <1>6, <2>5, <2>6, <2>7, <2>10
<1> QED
  BY <1>7, <1>8

LEMMA DeliverStep ==
  ASSUME Inv, NEW s \in Slots, Deliver(s)
  PROVE  Inv'
<1> USE DEF Inv
<1>1. /\ posts[s] # None /\ posts[s].pc = "saved"
      /\ UNCHANGED <<boundaryVars, continuity, here, draft, receipt, storage>>
      /\ UNCHANGED <<ledger, expired, issued, settled, rejected>>
      /\ posts' = [posts EXCEPT ![s] = None]
      /\ saved' = IF posts[s].heard THEN [op |-> posts[s].op, failed |-> FALSE] ELSE saved
      /\ form' = IF Shown' THEN form ELSE None
      /\ SessionOK'
  BY SessionRests DEF Deliver, At, sessionVars, boundaryVars, serverVars, historyVars
<1>2. posts[s].op \in settled /\ posts[s].op \in Operations
  BY <1>1, Typing DEF PostsOK, PostOK, Posts
<1>3. /\ posts' \in [Slots -> Posts \union {None}] /\ posts'[s] = None
      /\ \A t \in Slots : t # s => posts'[t] = posts[t]
  BY <1>1, EndedPost
<1>4. saved' # None => saved' \in [op : Operations, failed : BOOLEAN] /\ saved'.op \in settled
  BY <1>1, <1>2, Typing DEF MemoryOK
<1>5. FormTyped' /\ MemoryOK'
  <2>1. FormTyped'
    BY <1>1, <1>3, <1>4 DEF FormTyped
  <2>2. MemoryOK'
    BY <1>1, <1>4 DEF MemoryOK, Fresh
  <2> QED
    BY <2>1, <2>2
<1>6. FormOK'
  BY <1>1 DEF FormOK, Fresh
<1>7. form' = form \/ (form' = None /\ \A t \in Slots : t # s /\ posts[t] # None => ~posts[t].live)
  <2>1. CASE form = None
    BY <1>1, <2>1
  <2>2. CASE form # None /\ posts[s].heard
    <3>1. Alive(s)
      BY <1>1, <2>2 DEF PostsOK, PostOK, Alive
    <3> QED
      BY <1>1, <3>1, LiveAlone
  <2>3. CASE form # None /\ ~posts[s].heard
    <3>1. Shown'
      BY <1>1, <2>3, ShownStays DEF FormOK
    <3> QED
      BY <1>1, <3>1
  <2> QED
    BY <2>1, <2>2, <2>3
<1>8. ASSUME NEW t \in Slots PROVE PostOK(t)' /\ (Alive(t)' => Alive(t))
  <2>1. PostOK(t)
    BY DEF PostsOK
  <2>2. CASE t = s
    BY <1>3, <2>2 DEF PostOK, Alive
  <2>3. CASE t # s
    <3>1. posts'[t] = posts[t]
      BY <1>3, <2>3
    <3> QED
      BY <1>1, <1>7, <2>1, <2>3, <3>1 DEF PostOK, Alive, Barred
  <2> QED
    BY <2>2, <2>3
<1>9. PostsOK'
  BY <1>8 DEF PostsOK
<1> QED
  BY <1>1, <1>5, <1>6, <1>9, StorageRests, LedgerRests

LEMMA FailStep ==
  ASSUME Inv, NEW s \in Slots, Fail(s)
  PROVE  Inv'
<1> USE DEF Inv
<1>1. /\ posts[s] # None /\ posts[s].pc = "answered" /\ posts[s].answer # "saved"
      /\ UNCHANGED <<boundaryVars, continuity, here, saved, ledger, expired>>
      /\ UNCHANGED serverVars
      /\ Told(posts[s].op, posts[s].answer)
      /\ posts' = [posts EXCEPT ![s] = None]
      /\ SessionOK'
  BY SessionRests DEF Fail, At, boundaryVars, serverVars
<1>2. PICK op \in Operations : op = posts[s].op
  BY <1>1, Typing DEF Posts
<1>3. PICK a \in Answers : a = posts[s].answer
  BY <1>1, Typing DEF Posts
<1>4. \A t \in Slots : PostOK(t)
  BY DEF PostsOK
<1>5. /\ issued' = issued /\ settled \subseteq settled'
      /\ issued' \subseteq Operations /\ settled' \subseteq Operations
      /\ rejected' \subseteq Operations
      /\ a \in {"invalid", "deleted"} => op \in settled'
      /\ LedgerOK'
  <2>1. a = "invalid" => Barred(op)
    BY <1>1, <1>2, <1>3, <1>4 DEF PostOK
  <2> QED
    BY <1>1, <1>2, <1>3, <2>1, ToldStep
<1>6. /\ posts' \in [Slots -> Posts \union {None}] /\ posts'[s] = None
      /\ \A t \in Slots : t # s => posts'[t] = posts[t]
  BY <1>1, EndedPost
<1>7. CASE posts[s].live
  <2>1. /\ form # None /\ form.op = op /\ form.attempt \in {None, op} /\ form \in Forms
        /\ Alive(s)
    BY <1>1, <1>2, <1>4, <1>7, Typing DEF PostOK, Alive
  <2> DEFINE f(throws) ==
        [form EXCEPT
           !.saving = FALSE, !.failed = a,
           !.attempt = IF a = "invalid" /\ ~throws /\ Clears(op) /\ @ = op THEN None ELSE @,
           !.blocked = IF throws THEN "recovery" ELSE @]
  <2>2. PICK throws \in BOOLEAN :
          /\ throws => a = "invalid"
          /\ storage' = IF a = "invalid" /\ ~throws THEN ClearedStorage(op) ELSE storage
          /\ FormBecomes(f(throws))
    BY <1>2, <1>3, <1>7 DEF Fail
  <2> DEFINE g == f(throws)
  <2>3. /\ g \in Forms /\ g.owner = form.owner /\ g.body = form.body
        /\ g.attempt \in {None, form.attempt} /\ g.op = op /\ g.failed = a
    BY <2>1 DEF Forms
  <2>4. form' = g /\ Held(g)
    BY <2>2 DEF FormBecomes
  <2> HIDE DEF g, f
  <2>5. /\ Fresh(form.body) /\ form.owner = continuity.owner /\ Shown
        /\ form.attempt # None => form.attempt.body.author = form.owner
    BY <2>1 DEF FormOK
  <2>6. /\ draft' \in Inputs \union {None} /\ receipt' \in Receipts \union {None}
        /\ MemoryOK'
        /\ receipt' # None /\ receipt'.complete => receipt' = receipt
    BY <1>1, <1>5, <2>3, <2>4, <2>5, HeldStep
  <2>7. storage' \in [Users -> Operations \union {None}] /\ StorageOK'
    <3>1. CASE storage' = storage
      BY <1>5, <3>1, StorageRests DEF FormTyped
    <3>2. CASE storage' = ClearedStorage(op) /\ a = "invalid"
      BY <1>5, <3>2, StorageCleared
    <3> QED
      BY <2>2, <3>1, <3>2
  <2>8. FormTyped'
    BY <1>1, <1>5, <1>6, <2>3, <2>4, <2>6, <2>7 DEF FormTyped
  <2>9. FormOK'
    <3>1. Shown' /\ Fresh(form.body)'
      BY <1>1, <2>3, <2>4, <2>5, <2>6, ShownStays DEF Fresh
    <3> QED
      BY <1>1, <1>5, <2>1, <2>3, <2>4, <2>5, <3>1 DEF FormOK
  <2>10. ASSUME NEW t \in Slots PROVE PostOK(t)' /\ ~Alive(t)'
    <3>1. CASE t = s
      BY <1>6, <3>1 DEF PostOK, Alive
    <3>2. CASE t # s
      <4>1. posts'[t] = posts[t] /\ (posts[t] # None => ~posts[t].heard /\ ~posts[t].live)
        BY <1>6, <2>1, <3>2, LiveAlone
      <4> QED
        BY <1>1, <1>4, <1>5, <4>1 DEF PostOK, Alive, Barred
    <3> QED
      BY <3>1, <3>2
  <2>11. PostsOK'
    BY <2>10 DEF PostsOK
  <2> QED
    BY <1>1, <1>5, <2>6, <2>7, <2>8, <2>9, <2>11
<1>8. CASE ~posts[s].live
  <2> DEFINE told == [failed |-> a, blocked |-> "no", op |-> op,
                      body |-> Input(op.body, None), complete |-> a = "invalid"]
  <2>1. /\ receipt' = IF posts[s].heard THEN told ELSE receipt
        /\ UNCHANGED <<storage, form, draft>>
    BY <1>2, <1>3, <1>8 DEF Fail
  <2>2. /\ Input(op.body, None) \in Inputs
        /\ Input(op.body, None).author = op.body.author /\ Input(op.body, None).gen = None
    BY DEF Operations, Input, Inputs
  <2>3. /\ told \in Receipts /\ told.body = Input(op.body, None) /\ told.op = op
        /\ told.failed = a /\ told.complete = (a = "invalid")
    BY <2>2 DEF Receipts
  <2> HIDE DEF told
  <2>4. posts[s].heard => form = None /\ op.body.author = continuity.owner
    BY <1>1, <1>2, <1>4, <1>8 DEF PostOK
  <2>5. StorageOK'
    BY <1>5, <2>1, StorageRests
  <2>6. FormTyped'
    BY <1>1, <1>5, <1>6, <2>1, <2>3 DEF FormTyped
  <2>7. MemoryOK'
    <3>1. Fresh(draft)' /\ (saved # None => saved.op \in settled)'
      BY <1>1, <1>5, <2>1 DEF MemoryOK, Fresh
    <3>2. CASE posts[s].heard
      <4>1. receipt' = told /\ Fresh(receipt.body)'
        BY <1>1, <2>1, <2>2, <2>3, <2>4, <3>2 DEF Fresh
      <4> QED
        BY <1>5, <2>3, <3>1, <4>1 DEF MemoryOK
    <3>3. CASE ~posts[s].heard
      BY <1>1, <1>5, <2>1, <3>1, <3>3 DEF MemoryOK, Fresh
    <3> QED
      BY <3>2, <3>3
  <2>8. FormOK'
    <3>1. form' # None => receipt' = receipt
      BY <2>1, <2>4
    <3> QED
      BY <1>1, <1>5, <2>1, <3>1, ShownStays DEF FormOK, Fresh
  <2>9. ASSUME NEW t \in Slots PROVE PostOK(t)' /\ (Alive(t)' => Alive(t))
    <3>1. CASE t = s
      BY <1>6, <3>1 DEF PostOK, Alive
    <3>2. CASE t # s
      <4>1. posts'[t] = posts[t] /\ PostOK(t)
        BY <1>4, <1>6, <3>2
      <4> QED
        BY <1>1, <1>5, <2>1, <4>1 DEF PostOK, Alive, Barred
    <3> QED
      BY <3>1, <3>2
  <2>10. PostsOK'
    BY <2>9 DEF PostsOK
  <2> QED
    BY <1>1, <1>5, <2>5, <2>6, <2>7, <2>8, <2>10
<1> QED
  BY <1>7, <1>8

-----------------------------------------------------------------------------
(* The whole. *)

LEMMA InitInv == ASSUME Init PROVE Inv
<1> USE DEF Init, SessionInit, FormInit
<1>1. SessionOK
  BY DEF SessionOK, SessionTyped, Owners
<1>2. FormTyped
  BY DEF FormTyped
<1>3. FormOK /\ MemoryOK
  BY DEF FormOK, MemoryOK, Fresh
<1>4. PostsOK
  BY DEF PostsOK, PostOK, Alive
<1>5. StorageOK /\ LedgerOK
  BY DEF StorageOK, UnknownCreationsAreKept, LedgerOK
<1> QED
  BY <1>1, <1>2, <1>3, <1>4, <1>5 DEF Inv

LEMMA NextInv ==
  ASSUME Inv, [Next]_vars
  PROVE  Inv'
<1>1. CASE UNCHANGED vars
  <2>1. UNCHANGED <<sessionVars, pageVars, posts, storage, serverVars, historyVars>>
    BY <1>1 DEF vars, formVars
  <2>2. \A o \in Operations : Barred(o) => Barred(o)'
    BY <2>1 DEF Barred, serverVars
  <2> QED
    BY <2>1, <2>2, ElsewhereStep DEF serverVars, Inv, FormTyped, LedgerOK
<1>2. CASE Boundary \/ Enter \/ Leave
  BY <1>2, BoundaryStep, EnterStep, LeaveStep
<1>3. CASE Mount \/ Type \/ SubmitThrows \/ Restart
  BY <1>3, MountStep, TypeStep, SubmitThrowsStep, RestartStep
<1>4. CASE PutAway \/ Finish
  BY <1>4, PutAwayStep, FinishStep
<1>5. CASE Delete \/ DatePasses
  BY <1>5, DeleteStep, DatePassesStep
<1>6. ASSUME NEW s \in Slots,
             Submit(s) \/ Confirm(s) \/ Serve(s) \/ Lose(s) \/ Succeed(s) \/ Deliver(s) \/ Fail(s)
      PROVE Inv'
  BY <1>6, SubmitStep, ConfirmStep, ServeStep, LoseStep, SucceedStep, DeliverStep, FailStep
<1> QED
  BY <1>1, <1>2, <1>3, <1>4, <1>5, <1>6 DEF Next

THEOREM CreateFormInvariant == Spec => []Inv
BY InitInv, NextInv, PTL DEF Spec

(* An operation leaves sessionStorage only once the tab has been told its   *)
(* outcome, for any accounts, keys, mutations and mishaps.                  *)
THEOREM CreationsAreKept == Spec => []UnknownCreationsAreKept
<1>1. Inv => UnknownCreationsAreKept
  BY DEF Inv, StorageOK
<1> QED
  BY <1>1, CreateFormInvariant, PTL

(* The server would refuse again what the tab was told it refused: an       *)
(* unsound body stays unsound, a date that has passed stays in the past.    *)
THEOREM RefusalsAreFinal == Spec => []RefusalsStand
<1>1. Inv => RefusalsStand
  BY DEF Inv, LedgerOK, Barred, RefusalsStand
<1> QED
  BY <1>1, CreateFormInvariant, PTL

(* A goal belongs to the account it was typed by, and a form shows its user *)
(* only what he typed himself, through any change of the session.           *)
THEOREM WorkIsPrivate == Spec => []WorkStaysWithItsOwner
<1>1. Inv => GoalsBelongToTheirAuthor
  BY DEF Inv, LedgerOK, GoalsBelongToTheirAuthor
<1>2. Inv => InputsStayWithTheirOwner
  BY DEF Inv, FormOK, Fresh, InputsStayWithTheirOwner
<1>3. Inv => WorkStaysWithItsOwner
  BY <1>1, <1>2 DEF WorkStaysWithItsOwner
<1> QED
  BY <1>3, CreateFormInvariant, PTL

-----------------------------------------------------------------------------
(***************************************************************************)
(* Proofs about GoalFields, for any texts, goals, dates and changes of the *)
(* user and from elsewhere.                                                *)
(*                                                                         *)
(* An amount of time that is shown as minutes is never kept as hours and   *)
(* minutes, so that an input which is not complained of shows what is sent *)
(* (FieldsOK); and a creation that was sent is, until its outcome is       *)
(* known, what the form shows and nothing to complain of (AttemptOK).      *)
(***************************************************************************)
Amounts == {"total", "session", "initial"}
Times == {"total", "initial"}
FormFields == {"title", "unit", "total", "session", "initial", "zone", "target", "prior"}

Wholes == [whole : Texts]
AmountInputs == Wholes \union [h : Texts, m : Texts]

IsForm(v) ==
  /\ DOMAIN v = FormFields
  /\ v.unit \in Units
  /\ v.total \in AmountInputs /\ v.initial \in AmountInputs
  /\ v.session \in Wholes

ModeOK ==
  IF mode = "edit" THEN IsGoal(row) /\ IsGoal(goal) /\ IsGoal(baseline) /\ attempt = Nothing
  ELSE mode = "create" /\ row = Nothing /\ goal = Nothing /\ ~conflict

FieldsOK ==
  /\ IsForm(values)
  /\ DOMAIN display = Times
  /\ \A f \in Times : display[f] \in {"parts", "minutes"}
  /\ \A f \in Times : IsTime(f) /\ display[f] = "minutes" => values[f] \in Wholes

(* Body b is what may be sent of form v. *)
Sound(b) ==
  /\ DOMAIN b = FormFields
  /\ b.title # "" /\ b.unit \in Units
  /\ b.total \in 1 .. MaxAmount /\ b.session \in 1 .. MaxAmount /\ b.initial \in 0 .. MaxAmount

AttemptOK ==
  attempt # Nothing =>
    /\ mode = "create"
    /\ attempt = ToCreateBody(values) /\ Sound(attempt)
    /\ Errors = {}

GoalFieldsInv == ModeOK /\ FieldsOK /\ AttemptOK

-----------------------------------------------------------------------------
LEMMA TextNumbers ==
  ASSUME NEW text \in Texts
  PROVE  ParseInteger(text) \in Nat \union {Null}
BY FieldsAssumption DEF ParseInteger, Texts, Null, Infinity

LEMMA NumberTexts ==
  /\ \A n \in Nat : Number(n) \in Texts
  /\ Blank \in Texts /\ Junk \in Texts
  /\ \A n \in Int : Written(n) \in Texts
  /\ \A n \in 0 .. MaxNumber : ParseInteger(Number(n)) = n
BY FieldsAssumption DEF Number, Texts, Blank, Junk, Written, ParseInteger, Null, Infinity

LEMMA WholesAndParts ==
  /\ \A text \in Texts : Whole(text) \in Wholes /\ ~IsParts(Whole(text)) /\ Whole(text).whole = text
  /\ \A raw \in Wholes : raw.whole \in Texts /\ ~IsParts(raw)
  /\ \A raw \in [h : Texts, m : Texts] : raw.h \in Texts /\ raw.m \in Texts /\ IsParts(raw)
  /\ \A h, m \in Texts : Parts(h, m) \in [h : Texts, m : Texts] /\ Parts(h, m).h = h /\ Parts(h, m).m = m
  /\ \A raw \in AmountInputs : IF IsParts(raw) THEN raw \in [h : Texts, m : Texts] ELSE raw \in Wholes
BY DEF Whole, Wholes, IsParts, Parts, AmountInputs

LEMMA InputNumbers ==
  ASSUME NEW raw \in AmountInputs
  PROVE  ParseGoalAmount(raw) \in Nat \union {Null}
<1>1. CASE ~IsParts(raw)
  BY <1>1, WholesAndParts, TextNumbers DEF ParseGoalAmount
<1>2. CASE IsParts(raw)
  <2>1. raw.h \in Texts /\ raw.m \in Texts
    BY <1>2, WholesAndParts
  <2> DEFINE h == ParseInteger(raw.h)  m == ParseInteger(raw.m)
  <2>2. h \in Nat \union {Null} /\ m \in Nat \union {Null}
    BY <2>1, TextNumbers
  <2>3. ParseGoalAmount(raw) = IF h = Null \/ m = Null \/ m > 59 THEN Null
                               ELSE IF h * 60 + m > MaxNumber THEN Infinity ELSE h * 60 + m
    BY <1>2 DEF ParseGoalAmount
  <2> HIDE DEF h, m
  <2> QED
    BY <2>2, <2>3, FieldsAssumption DEF Null, Infinity
<1> QED
  BY <1>1, <1>2

LEMMA PartsOfInputs ==
  ASSUME NEW raw \in AmountInputs
  PROVE  TimeParts(raw) \in [h : Texts, m : Texts]
<1> DEFINE n == ParseGoalAmount(raw)
<1>1. CASE IsParts(raw)
  BY <1>1, WholesAndParts DEF TimeParts
<1>2. CASE ~IsParts(raw) /\ Finite(n)
  <2>1. n \in Nat /\ n \div 60 \in Nat /\ n % 60 \in Nat
    BY <1>2, FieldsAssumption DEF Finite
  <2>2. TimeParts(raw) = Parts(Number(n \div 60), Number(n % 60))
    BY <1>2 DEF TimeParts
  <2> HIDE DEF n
  <2> QED
    BY <2>1, <2>2, NumberTexts, WholesAndParts
<1>3. CASE ~IsParts(raw) /\ ~Finite(n)
  BY <1>3, NumberTexts, WholesAndParts DEF TimeParts
<1> QED
  BY <1>1, <1>2, <1>3

(* An amount that is shown in hours and minutes is the amount.             *)
LEMMA PartsShowTheAmount ==
  ASSUME NEW raw \in AmountInputs, ParseGoalAmount(raw) \in 0 .. MaxNumber
  PROVE  LET p == TimeParts(raw)
         IN /\ ParseInteger(p.h) # Null /\ ParseInteger(p.m) # Null
            /\ 60 * ParseInteger(p.h) + ParseInteger(p.m) = ParseGoalAmount(raw)
<1> DEFINE n == ParseGoalAmount(raw)
<1>1. CASE IsParts(raw)
  <2>1. raw.h \in Texts /\ raw.m \in Texts /\ TimeParts(raw) = raw
    BY <1>1, WholesAndParts DEF TimeParts
  <2> DEFINE h == ParseInteger(raw.h)  m == ParseInteger(raw.m)
  <2>2. h \in Nat \union {Null} /\ m \in Nat \union {Null}
    BY <2>1, TextNumbers
  <2>3. n = IF h = Null \/ m = Null \/ m > 59 THEN Null
            ELSE IF h * 60 + m > MaxNumber THEN Infinity ELSE h * 60 + m
    BY <1>1 DEF ParseGoalAmount
  <2>4. n \in 0 .. MaxNumber
    OBVIOUS
  <2> HIDE DEF h, m, n
  <2>5. h # Null /\ m # Null /\ 60 * h + m = n
    BY <2>2, <2>3, <2>4, FieldsAssumption DEF Null, Infinity
  <2> QED
    BY <2>1, <2>5 DEF h, m, n
<1>2. CASE ~IsParts(raw)
  <2> DEFINE h == n \div 60  m == n % 60
  <2>1. n \in 0 .. MaxNumber
    OBVIOUS
  <2>2. TimeParts(raw) = Parts(Number(h), Number(m))
    BY <1>2 DEF TimeParts, Finite
  <2> HIDE DEF n
  <2>3. h \in 0 .. MaxNumber /\ m \in 0 .. MaxNumber /\ 60 * h + m = n
    BY <2>1, FieldsAssumption
  <2> HIDE DEF h, m
  <2>4. h \in Nat /\ m \in Nat
    BY <2>3, FieldsAssumption
  <2>5. TimeParts(raw).h = Number(h) /\ TimeParts(raw).m = Number(m)
    BY <2>2, <2>4, NumberTexts, WholesAndParts
  <2>6. ParseInteger(Number(h)) = h /\ ParseInteger(Number(m)) = m
    BY <2>3, NumberTexts
  <2>7. h # Null /\ m # Null
    BY <2>4 DEF Null
  <2> QED
    BY <2>3, <2>5, <2>6, <2>7 DEF n
<1> QED
  BY <1>1, <1>2

-----------------------------------------------------------------------------
(* What a form without complaint is like.                                  *)
NoComplaint ==
  /\ values.title # ""
  /\ ~(mode = "edit" /\ UnitLocked(goal) /\ values.unit # goal.unit)
  /\ ~AmountError(values.total, 1, values.unit = "minutes")
  /\ ~AmountError(values.session, 1, FALSE)
  /\ Locked \/ ~AmountError(values.initial, 0, values.unit = "minutes")
  /\ DateAllowed(values)
  /\ AnswersLocked \/ \A q \in Questions : chosen[q]

LEMMA ErrorsAreComplaints ==
  ASSUME DOMAIN values = FormFields
  PROVE  Errors = {} <=> NoComplaint
<1> DEFINE Bad(f) ==
        CASE f = "title"   -> values.title = ""
          [] f = "unit"    -> mode = "edit" /\ UnitLocked(goal) /\ values.unit # goal.unit
          [] f = "total"   -> AmountError(values.total, 1, values.unit = "minutes")
          [] f = "session" -> AmountError(values.session, 1, FALSE)
          [] f = "initial" -> ~Locked /\ AmountError(values.initial, 0, values.unit = "minutes")
          [] f = "target"  -> ~DateAllowed(values)
          [] f = "prior"   -> ~AnswersLocked /\ \E q \in Questions : ~chosen[q]
          [] OTHER         -> FALSE
<1>1. Errors = {f \in FormFields : Bad(f)}
  BY DEF Errors
<1>2. /\ Bad("title") <=> values.title = ""
      /\ Bad("unit") <=> (mode = "edit" /\ UnitLocked(goal) /\ values.unit # goal.unit)
      /\ Bad("total") <=> AmountError(values.total, 1, values.unit = "minutes")
      /\ Bad("session") <=> AmountError(values.session, 1, FALSE)
      /\ Bad("initial") <=> (~Locked /\ AmountError(values.initial, 0, values.unit = "minutes"))
      /\ Bad("target") <=> ~DateAllowed(values)
      /\ Bad("prior") <=> (~AnswersLocked /\ \E q \in Questions : ~chosen[q])
      /\ Bad("zone") <=> FALSE
  BY Zenon
<1> HIDE DEF Bad
<1>3. Errors = {} <=> \A f \in FormFields : ~Bad(f)
  BY <1>1
<1>4. (\A f \in FormFields : ~Bad(f)) <=>
        ~Bad("title") /\ ~Bad("unit") /\ ~Bad("total") /\ ~Bad("session")
        /\ ~Bad("initial") /\ ~Bad("target") /\ ~Bad("prior") /\ ~Bad("zone")
  BY DEF FormFields
<1> QED
  BY <1>2, <1>3, <1>4 DEF NoComplaint

(* The same of the next state. *)
HasFields == DOMAIN values = FormFields
Clean == Errors = {}

LEMMA ErrorsAreComplaintsNext == HasFields' => (Clean' <=> NoComplaint')
<1>1. HasFields => (Clean <=> NoComplaint)
  BY ErrorsAreComplaints DEF HasFields, Clean
<1> QED
  BY <1>1, PTL

LEMMA CheckedAmounts ==
  ASSUME NEW raw \in AmountInputs, NEW minimum \in Nat, NEW time \in BOOLEAN,
         ~AmountError(raw, minimum, time)
  PROVE  /\ ParseGoalAmount(raw) \in minimum .. MaxAmount /\ Int0(raw) = ParseGoalAmount(raw)
         /\ ParseGoalAmount(raw) \in 0 .. MaxNumber
         /\ ~time => raw \in Wholes /\ ParseInteger(raw.whole) = ParseGoalAmount(raw)
<1>1. time => ParseGoalAmount(raw) \in minimum .. MaxAmount
  BY DEF AmountError
<1>2. ASSUME ~time PROVE ~IsParts(raw) /\ ParseInteger(raw.whole) \in minimum .. MaxAmount
  BY <1>2, FieldsAssumption DEF AmountError, Null
<1>3. ~time => /\ raw \in Wholes /\ ParseInteger(raw.whole) = ParseGoalAmount(raw)
               /\ ParseGoalAmount(raw) \in minimum .. MaxAmount
  BY <1>2, WholesAndParts DEF ParseGoalAmount
<1>4. ParseGoalAmount(raw) \in minimum .. MaxAmount
  BY <1>1, <1>3
<1> QED
  BY <1>3, <1>4, FieldsAssumption DEF Int0, Null

LEMMA ShownIsParsed ==
  ASSUME FieldsOK, NEW f \in Amounts, NEW minimum \in Nat,
         ~AmountError(values[f], minimum, f # "session" /\ values.unit = "minutes")
  PROVE  ShownAmount(f) = Int0(values[f])
<1> DEFINE raw == values[f]  time == f # "session" /\ values.unit = "minutes"
<1>1. raw \in AmountInputs /\ time \in BOOLEAN /\ (time <=> IsTime(f))
  BY DEF FieldsOK, IsForm, Amounts, IsTime, AmountInputs
<1>2. /\ ParseGoalAmount(raw) \in 0 .. MaxNumber /\ Int0(raw) = ParseGoalAmount(raw)
      /\ ~time => raw \in Wholes /\ ParseInteger(raw.whole) = ParseGoalAmount(raw)
  BY <1>1, CheckedAmounts
<1>3. CASE ~time
  BY <1>1, <1>2, <1>3, WholesAndParts DEF ShownAmount
<1>4. CASE time /\ display[f] = "parts"
  <2>1. ShownAmount(f) = LET p == TimeParts(raw)
                             h == ParseInteger(p.h)
                             m == ParseInteger(p.m)
                         IN IF h = Null \/ m = Null THEN Null ELSE 60 * h + m
    BY <1>1, <1>4 DEF ShownAmount
  <2> QED
    BY <2>1, <1>1, <1>2, PartsShowTheAmount
<1>5. CASE time /\ display[f] # "parts"
  <2>1. raw \in Wholes
    BY <1>1, <1>5 DEF FieldsOK, Times, IsTime
  <2> QED
    BY <2>1, <1>2, <1>5, WholesAndParts DEF ShownAmount, ParseGoalAmount
<1> QED
  BY <1>3, <1>4, <1>5

LEMMA BodyFields ==
  ASSUME NEW v
  PROVE  /\ DOMAIN ToCreateBody(v) = FormFields
         /\ ToCreateBody(v).title = v.title /\ ToCreateBody(v).unit = v.unit
         /\ ToCreateBody(v).zone = v.zone /\ ToCreateBody(v).target = v.target
         /\ ToCreateBody(v).prior = v.prior
         /\ \A f \in Amounts : ToCreateBody(v)[f] = Int0(v[f])
BY DEF ToCreateBody, FormFields, Amounts

LEMMA PatchFields ==
  ASSUME NEW v
  PROVE  LET body == ToCreateBody(v)
             sent(f) == /\ f \in FormFields /\ body[f] # baseline[f]
                        /\ f \in {"initial", "zone"} => ~goal.logs
                        /\ f = "prior" => ~ChangesAnswerContext(v, baseline)
         IN /\ DOMAIN ToPatchBody(v) \subseteq FormFields
            /\ \A f : f \in DOMAIN ToPatchBody(v) <=> sent(f)
            /\ \A f \in DOMAIN ToPatchBody(v) : ToPatchBody(v)[f] = body[f]
<1>1. DOMAIN ToCreateBody(v) = FormFields
  BY BodyFields
<1> QED
  BY <1>1 DEF ToPatchBody

LEMMA ShownIsSentHolds ==
  ASSUME ModeOK, FieldsOK, AttemptOK
  PROVE  ShownIsSent
<1> SUFFICES ASSUME Errors = {}, NEW f \in Amounts, ~(f = "initial" /\ Locked)
             PROVE  LET body == IF mode = "edit" THEN Patched(baseline, ToPatchBody(values))
                                ELSE IF attempt # Nothing THEN attempt ELSE ToCreateBody(values)
                    IN body[f] = ShownAmount(f) /\ body.unit = values.unit
  BY DEF ShownIsSent, Amounts
<1> DEFINE body == ToCreateBody(values)
<1>1. NoComplaint
  BY ErrorsAreComplaints DEF FieldsOK, IsForm
<1>2. \E minimum \in Nat : ~AmountError(values[f], minimum, f # "session" /\ values.unit = "minutes")
  <2>1. CASE f = "total"
    BY <1>1, <2>1 DEF NoComplaint
  <2>2. CASE f = "session"
    BY <1>1, <2>2 DEF NoComplaint
  <2>3. CASE f = "initial"
    BY <1>1, <2>3 DEF NoComplaint
  <2> QED
    BY <2>1, <2>2, <2>3 DEF Amounts
<1>3. body[f] = ShownAmount(f) /\ body.unit = values.unit
  BY <1>2, ShownIsParsed, BodyFields
<1>4. CASE mode # "edit"
  BY <1>3, <1>4 DEF AttemptOK
<1>5. CASE mode = "edit"
  <2>1. IsGoal(baseline)
    BY <1>5 DEF ModeOK
  <2> DEFINE patch == ToPatchBody(values)
  <2>2. \A g \in {f, "unit"} : g \in FormFields /\ g \in DOMAIN baseline
    BY <2>1 DEF Amounts, FormFields, IsGoal, GoalFieldNames
  <2>3. f = "initial" => ~goal.logs
    BY <1>5 DEF Locked
  <2>4. \A g \in {f, "unit"} : g \in DOMAIN patch \/ baseline[g] = body[g]
    BY <2>2, <2>3, PatchFields DEF Amounts
  <2>5. \A g \in DOMAIN patch : patch[g] = body[g]
    BY PatchFields
  <2>6. \A g \in {f, "unit"} : Patched(baseline, patch)[g] = body[g]
    <3> HIDE DEF patch, body
    <3> QED
      BY <2>2, <2>4, <2>5 DEF Patched, Amounts
  <2> QED
    BY <1>3, <1>5, <2>6
<1> QED
  BY <1>4, <1>5

LEMMA SoundBodies ==
  ASSUME FieldsOK, ~Locked, NoComplaint
  PROVE  Sound(ToCreateBody(values))
<1>1. /\ Int0(values.total) \in 1 .. MaxAmount /\ Int0(values.session) \in 1 .. MaxAmount
      /\ Int0(values.initial) \in 0 .. MaxAmount
  <2>1. values.total \in AmountInputs /\ values.session \in AmountInputs /\ values.initial \in AmountInputs
    BY DEF FieldsOK, IsForm, AmountInputs
  <2> QED
    BY <2>1, CheckedAmounts DEF NoComplaint
<1> QED
  BY <1>1, BodyFields DEF Sound, FieldsOK, IsForm, NoComplaint, Amounts

LEMMA FormsAgreeHolds ==
  ASSUME ModeOK, FieldsOK, AttemptOK
  PROVE  FormsAgreeWithTheServer
<1>1. ASSUME Errors = {}, mode = "edit", goal = row, baseline = row, ~LeftoverZone
      PROVE  PatchAccepted(ToPatchBody(values))
  <2> DEFINE body == ToCreateBody(values)  patch == ToPatchBody(values)
  <2>1. NoComplaint
    BY <1>1, ErrorsAreComplaints DEF FieldsOK, IsForm
  <2>2. \A f \in DOMAIN patch : patch[f] = body[f] /\ f \in FormFields /\ body[f] # row[f]
    BY <1>1, PatchFields
  <2>3. row.logs => DOMAIN patch \cap {"initial", "zone"} = {}
    BY <1>1, PatchFields
  <2>4. Locked <=> row.logs
    BY <1>1 DEF Locked
  <2>5. values.total \in AmountInputs /\ values.session \in AmountInputs /\ values.initial \in AmountInputs
    BY DEF FieldsOK, IsForm, AmountInputs
  <2>6. /\ Int0(values.total) \in 1 .. MaxAmount /\ Int0(values.session) \in 1 .. MaxAmount
        /\ ~Locked => Int0(values.initial) \in 0 .. MaxAmount
    BY <2>1, <2>5, CheckedAmounts DEF NoComplaint
  <2>7. /\ body.total = Int0(values.total) /\ body.session = Int0(values.session)
        /\ body.initial = Int0(values.initial)
        /\ body.title = values.title /\ body.unit = values.unit
        /\ body.zone = values.zone /\ body.target = values.target
    BY BodyFields DEF Amounts
  <2> HIDE DEF patch, body
  <2>8. InContract(patch)
    BY <2>1, <2>2, <2>3, <2>4, <2>6, <2>7 DEF InContract, NoComplaint
  <2>9. "unit" \in DOMAIN patch => ~UnitLocked(row)
    BY <1>1, <2>1, <2>2, <2>7 DEF NoComplaint
  <2>10. PolicyAllowsDate(patch, IF "zone" \in DOMAIN patch THEN patch.zone ELSE row.zone)
    <3>1. (IF "zone" \in DOMAIN patch THEN patch.zone ELSE row.zone) = values.zone
      <4>1. "zone" \in DOMAIN patch \/ row.logs \/ body.zone = row.zone
        BY <1>1, PatchFields DEF FormFields, patch, body
      <4> QED
        BY <1>1, <4>1, <2>2, <2>3, <2>7 DEF LeftoverZone
    <3>2. "target" \in DOMAIN patch => patch.target = values.target /\ values.target # row.target
      BY <2>2, <2>7
    <3>3. values.target \in {NoDate, row.target} \/ values.target > Today(values.zone)
      BY <1>1, <2>1 DEF NoComplaint, DateAllowed, SavedDate
    <3> QED
      BY <3>1, <3>2, <3>3 DEF PolicyAllowsDate
  <2>11. "prior" \in DOMAIN patch => DOMAIN patch \cap {"unit", "session"} = {}
    <3>1. "prior" \in DOMAIN patch => ~ChangesAnswerContext(values, row)
      BY <1>1, PatchFields DEF patch
    <3> QED
      BY <2>2, <2>7, <3>1 DEF ChangesAnswerContext
  <2> QED
    BY <2>3, <2>8, <2>9, <2>10, <2>11 DEF PatchAccepted, patch
<1>2. ASSUME Errors = {}, mode # "edit", attempt = Nothing
      PROVE  CreateAccepted(ToCreateBody(values))
  <2>1. NoComplaint
    BY <1>2, ErrorsAreComplaints DEF FieldsOK, IsForm
  <2>2. Sound(ToCreateBody(values))
    BY <1>2, <2>1, SoundBodies DEF Locked
  <2>3. values.target = NoDate \/ values.target > Today(values.zone)
    BY <1>2, <2>1 DEF NoComplaint, DateAllowed, SavedDate
  <2> QED
    BY <2>2, <2>3, BodyFields DEF CreateAccepted, InContract, PolicyAllowsDate, Sound
<1> QED
  BY <1>1, <1>2 DEF FormsAgreeWithTheServer, AttemptOK

-----------------------------------------------------------------------------
LEMMA FormsOfGoals ==
  ASSUME NEW g, g.unit \in Units, g.total \in Nat, g.session \in Nat, g.initial \in Nat
  PROVE  /\ IsForm(ValuesFrom(g)) /\ ValuesFrom(g).unit = g.unit
         /\ \A f \in Times : ValuesFrom(g)[f] \in Wholes
<1>1. Whole(Number(g.total)) \in Wholes /\ Whole(Number(g.session)) \in Wholes
      /\ Whole(Number(g.initial)) \in Wholes
  BY NumberTexts, WholesAndParts
<1> QED
  BY <1>1 DEF ValuesFrom, IsForm, FormFields, AmountInputs, Times

LEMMA GoalsInRange ==
  ASSUME NEW g, IsGoal(g)
  PROVE  g.unit \in Units /\ g.total \in Nat /\ g.session \in Nat /\ g.initial \in Nat
BY FieldsAssumption DEF IsGoal

LEMMA WrittenAmounts ==
  ASSUME NEW raw \in AmountInputs
  PROVE  Whole(Written(ParseGoalAmount(raw))) \in Wholes
<1>1. ParseGoalAmount(raw) \in Int
  BY InputNumbers DEF Null
<1> QED
  BY <1>1, NumberTexts, WholesAndParts

LEMMA FreshForms ==
  ASSUME ModeOK, values' = ValuesFrom(goal'), IsGoal(goal'), display' = [total |-> "parts", initial |-> "parts"]
  PROVE  FieldsOK'
<1>1. IsForm(values') /\ \A f \in Times : values'[f] \in Wholes
  BY GoalsInRange, FormsOfGoals
<1> QED
  BY <1>1 DEF FieldsOK, Times

LEMMA GoalFieldsStart == FieldsInit => GoalFieldsInv
<1> SUFFICES ASSUME FieldsInit PROVE GoalFieldsInv
  OBVIOUS
<1>1. DOMAIN display = Times /\ \A f \in Times : display[f] = "parts"
  BY DEF FieldsInit, Times
<1>2. CASE mode = "create" /\ row = Nothing /\ values \in {EmptyValues, FilledValues}
  <2>1. Whole(Blank) \in Wholes /\ Whole(Number(0)) \in Wholes /\ Whole(Number(2)) \in Wholes
        /\ Parts(Number(1), Number(1)) \in [h : Texts, m : Texts]
    BY NumberTexts, WholesAndParts
  <2>2. IsForm(EmptyValues) /\ IsForm(FilledValues)
    BY <2>1 DEF EmptyValues, FilledValues, IsForm, FormFields, Units, AmountInputs
  <2> QED
    BY <1>1, <1>2, <2>2 DEF FieldsInit, GoalFieldsInv, ModeOK, FieldsOK, AttemptOK
<1>3. CASE mode = "edit" /\ row \in StoredRows /\ values = ValuesFrom(row)
  <2>1. IsGoal(row)
    BY <1>3, FieldsAssumption
  <2>2. IsForm(values)
    BY <1>3, <2>1, GoalsInRange, FormsOfGoals
  <2> QED
    BY <1>1, <1>3, <2>1, <2>2 DEF FieldsInit, GoalFieldsInv, ModeOK, FieldsOK, AttemptOK
<1> QED
  BY <1>2, <1>3 DEF FieldsInit

(* What the user enters: the server is left alone and nothing was sent.    *)
LEMMA EnteredForms ==
  ASSUME GoalFieldsInv, NEW v, Entered(v), attempt = Nothing, FieldsOK'
  PROVE  GoalFieldsInv'
BY DEF GoalFieldsInv, ModeOK, AttemptOK, Entered, server

LEMMA OneInput ==
  ASSUME FieldsOK, NEW f \in Times, NEW raw \in AmountInputs,
         values' = [values EXCEPT ![f] = raw],
         DOMAIN display' = Times, \A g \in Times : display'[g] \in {"parts", "minutes"},
         \A g \in Times \ {f} : display'[g] = display[g],
         raw \in Wholes \/ ~(values.unit = "minutes" /\ display'[f] = "minutes")
  PROVE  FieldsOK'
<1>1. /\ DOMAIN values' = FormFields /\ values'.unit = values.unit
      /\ values'[f] = raw /\ \A g \in FormFields \ {f} : values'[g] = values[g]
  BY DEF FieldsOK, IsForm, FormFields, Times
<1>2. IsForm(values')
  BY <1>1 DEF FieldsOK, IsForm, FormFields, Times
<1>3. ASSUME NEW g \in Times, IsTime(g)', display'[g] = "minutes"
      PROVE  values'[g] \in Wholes
  <2>1. CASE g = f
    BY <1>1, <1>3, <2>1 DEF IsTime
  <2>2. CASE g # f
    BY <1>1, <1>3, <2>2 DEF IsTime, FieldsOK, Times, FormFields
  <2> QED
    BY <2>1, <2>2
<1> QED
  BY <1>2, <1>3 DEF FieldsOK

LEMMA TypingAnAmount ==
  ASSUME GoalFieldsInv, NEW f \in Amounts, NEW text \in TypedTexts[f], TypeAmount(f, text)
  PROVE  GoalFieldsInv'
<1>1. Whole(text) \in Wholes
  BY FieldsAssumption, WholesAndParts DEF Amounts
<1>2. attempt = Nothing /\ Entered([values EXCEPT ![f] = Whole(text)]) /\ display' = display
  BY DEF TypeAmount, User
<1>3. values' = [values EXCEPT ![f] = Whole(text)]
  BY <1>2 DEF Entered
<1>4. FieldsOK'
  <2>1. CASE f = "session"
    <3>1. /\ DOMAIN values' = FormFields /\ values'.unit = values.unit
          /\ values'.session = Whole(text) /\ \A g \in FormFields \ {f} : values'[g] = values[g]
      BY <1>3, <2>1 DEF GoalFieldsInv, FieldsOK, IsForm, FormFields
    <3> QED
      BY <3>1, <1>1, <1>2, <2>1 DEF GoalFieldsInv, FieldsOK, IsForm, FormFields, Times, IsTime
  <2>2. CASE f \in Times
    BY <1>1, <1>2, <1>3, <2>2, OneInput DEF GoalFieldsInv, FieldsOK, AmountInputs
  <2> QED
    BY <2>1, <2>2 DEF Amounts, Times
<1> QED
  BY <1>2, <1>4, EnteredForms

LEMMA TypingAPart ==
  ASSUME GoalFieldsInv, NEW f \in Times, NEW part \in {"h", "m"}, NEW text \in TypedTexts[f],
         TypePart(f, part, text)
  PROVE  GoalFieldsInv'
<1>1. text \in Texts
  BY FieldsAssumption DEF Times
<1> DEFINE raw == [TimeParts(values[f]) EXCEPT ![part] = text]
<1>2. TimeParts(values[f]) \in [h : Texts, m : Texts]
  BY PartsOfInputs DEF GoalFieldsInv, FieldsOK, IsForm, Times
<1>3. raw \in [h : Texts, m : Texts]
  <2>1. CASE part = "h"
    BY <1>1, <1>2, <2>1
  <2>2. CASE part = "m"
    BY <1>1, <1>2, <2>2
  <2> QED
    BY <2>1, <2>2
<1>4. /\ attempt = Nothing /\ Entered([values EXCEPT ![f] = raw])
      /\ display' = display /\ display[f] = "parts"
  BY DEF TypePart, User
<1>5. values' = [values EXCEPT ![f] = raw] /\ raw \in AmountInputs
  BY <1>3, <1>4 DEF Entered, AmountInputs
<1> HIDE DEF raw
<1>6. FieldsOK'
  BY <1>4, <1>5, OneInput DEF GoalFieldsInv, FieldsOK
<1> QED
  BY <1>4, <1>6, EnteredForms

LEMMA Switching ==
  ASSUME GoalFieldsInv, NEW f \in Times, NEW to \in {"parts", "minutes"}, SwitchDisplay(f, to)
  PROVE  GoalFieldsInv'
<1> DEFINE raw == IF values[f] = Whole(Blank) THEN values[f]
                  ELSE Whole(Written(ParseGoalAmount(values[f])))
<1>1. values[f] \in AmountInputs
  BY DEF GoalFieldsInv, FieldsOK, IsForm, Times
<1>2. raw \in Wholes
  BY <1>1, NumberTexts, WholesAndParts, WrittenAmounts
<1>3. attempt = Nothing /\ display' = [display EXCEPT ![f] = to]
  BY DEF SwitchDisplay, User
<1>4. PICK v : Entered(v) /\ v = IF values[f] = Whole(Blank) THEN values
           ELSE [values EXCEPT ![f] = Whole(Written(ParseGoalAmount(values[f])))]
  BY DEF SwitchDisplay
<1>5. DOMAIN display' = Times /\ \A g \in Times : display'[g] = IF g = f THEN to ELSE display[g]
  BY <1>3 DEF GoalFieldsInv, FieldsOK
<1>6. FieldsOK'
  <2>1. CASE values[f] = Whole(Blank)
    <3>1. values' = values /\ values[f] \in Wholes
      BY <1>2, <1>4, <2>1 DEF Entered
    <3> QED
      BY <3>1, <1>5 DEF GoalFieldsInv, FieldsOK, IsTime
  <2>2. CASE values[f] # Whole(Blank)
    <3>1. values' = [values EXCEPT ![f] = raw]
      BY <1>4, <2>2 DEF Entered
    <3> HIDE DEF raw
    <3>2. raw \in AmountInputs
      BY <1>2 DEF AmountInputs
    <3> QED
      BY <3>1, <3>2, <1>2, <1>5, OneInput DEF GoalFieldsInv, FieldsOK
  <2> QED
    BY <2>1, <2>2
<1> QED
  BY <1>3, <1>4, <1>6, EnteredForms

LEMMA NewUnit ==
  ASSUME GoalFieldsInv, NEW unit \in Units, unit # values.unit,
         NEW total \in AmountInputs, NEW initial \in AmountInputs,
         values' = [values EXCEPT !.unit = unit, !.total = total, !.initial = initial],
         display' = ShownAs(unit)
  PROVE  FieldsOK'
<1>1. /\ DOMAIN values' = FormFields /\ values'.unit = unit /\ values'.total = total
      /\ values'.initial = initial /\ values'.session = values.session
  BY DEF GoalFieldsInv, FieldsOK, IsForm, FormFields
<1>2. display' = [total |-> "parts", initial |-> "parts"]
  BY DEF ShownAs
<1> QED
  BY <1>1, <1>2 DEF GoalFieldsInv, FieldsOK, IsForm, Times

LEMMA SwitchingTheUnit ==
  ASSUME GoalFieldsInv, NEW unit \in Units, SwitchUnit(unit)
  PROVE  GoalFieldsInv'
<1> DEFINE Kept(raw) == IF IsParts(raw) THEN Whole(Written(ParseGoalAmount(raw))) ELSE raw
           v == [values EXCEPT !.unit = unit, !.total = Kept(@), !.initial = Kept(@)]
<1>1. attempt = Nothing /\ unit # values.unit /\ display' = ShownAs(unit)
  BY DEF SwitchUnit, User
<1>2. Entered(v)
  BY DEF SwitchUnit
<1>3. \A raw \in AmountInputs : Kept(raw) \in AmountInputs
  BY WrittenAmounts DEF AmountInputs
<1> DEFINE total == Kept(values.total)  initial == Kept(values.initial)
<1>4. total \in AmountInputs /\ initial \in AmountInputs
  BY <1>3 DEF GoalFieldsInv, FieldsOK, IsForm
<1>5. v = [values EXCEPT !.unit = unit, !.total = total, !.initial = initial]
  OBVIOUS
<1> HIDE DEF total, initial, Kept, v
<1>6. values' = [values EXCEPT !.unit = unit, !.total = total, !.initial = initial]
  BY <1>2, <1>5 DEF Entered
<1>7. FieldsOK'
  BY <1>1, <1>4, <1>6, NewUnit
<1> QED
  BY <1>1, <1>2, <1>7, EnteredForms

LEMMA RestoringTheUnit ==
  ASSUME GoalFieldsInv, RestoreUnit
  PROVE  GoalFieldsInv'
<1>1. /\ attempt = Nothing /\ goal.unit \in Units /\ goal.unit # values.unit
      /\ Entered([values EXCEPT !.unit = goal.unit]) /\ display' = ShownAs(goal.unit)
  BY GoalsInRange DEF RestoreUnit, User, GoalFieldsInv, ModeOK
<1>2. /\ DOMAIN values' = FormFields /\ values'.unit = goal.unit
      /\ \A f \in Amounts : values'[f] = values[f]
  BY <1>1 DEF Entered, GoalFieldsInv, FieldsOK, IsForm, FormFields, Amounts
<1>3. display' = [total |-> "parts", initial |-> "parts"]
  BY <1>1 DEF ShownAs
<1>4. FieldsOK'
  BY <1>1, <1>2, <1>3 DEF GoalFieldsInv, FieldsOK, IsForm, Times, Amounts
<1> QED
  BY <1>1, <1>4, EnteredForms

(* A change of the title, the answers, the date or the zone.               *)
LEMMA OtherEntries ==
  ASSUME GoalFieldsInv, attempt = Nothing, NEW v, Entered(v), display' = display,
         DOMAIN v = FormFields, v.unit = values.unit, \A f \in Amounts : v[f] = values[f]
  PROVE  GoalFieldsInv'
<1>1. FieldsOK'
  BY DEF Entered, GoalFieldsInv, FieldsOK, IsForm, IsTime, Times, Amounts
<1> QED
  BY <1>1, EnteredForms

LEMMA EnteringTheRest ==
  ASSUME GoalFieldsInv,
         \/ TypeTitle
         \/ \E q \in Questions, reply \in {"null", "LOW"} : Choose(q, reply)
         \/ \E date \in TypedDates \cup {NoDate} : PickDate(date)
         \/ \E zone \in Zones : PickZone(zone)
  PROVE  GoalFieldsInv'
<1>0. DOMAIN values = FormFields
  BY DEF GoalFieldsInv, FieldsOK, IsForm
<1>1. CASE TypeTitle
  <2> DEFINE v == [values EXCEPT !.title = IF @ = "" THEN "t" ELSE ""]
  <2>1. DOMAIN v = FormFields /\ v.unit = values.unit /\ \A f \in Amounts : v[f] = values[f]
    BY <1>0 DEF FormFields, Amounts
  <2>2. Entered(v) /\ attempt = Nothing /\ display' = display
    BY <1>1 DEF TypeTitle, User
  <2> HIDE DEF v
  <2> QED
    BY <2>1, <2>2, OtherEntries
<1>2. ASSUME NEW q \in Questions, NEW reply \in {"null", "LOW"}, Choose(q, reply)
      PROVE  GoalFieldsInv'
  <2> DEFINE v == [values EXCEPT !.prior[q] = reply]
  <2>1. DOMAIN v = FormFields /\ v.unit = values.unit /\ \A f \in Amounts : v[f] = values[f]
    BY <1>0 DEF FormFields, Amounts
  <2>2. Entered(v) /\ attempt = Nothing /\ display' = display
    BY <1>2 DEF Choose, User
  <2> HIDE DEF v
  <2> QED
    BY <2>1, <2>2, OtherEntries
<1>3. ASSUME NEW date, PickDate(date)
      PROVE  GoalFieldsInv'
  <2> DEFINE v == [values EXCEPT !.target = date]
  <2>1. DOMAIN v = FormFields /\ v.unit = values.unit /\ \A f \in Amounts : v[f] = values[f]
    BY <1>0 DEF FormFields, Amounts
  <2>2. Entered(v) /\ attempt = Nothing /\ display' = display
    BY <1>3 DEF PickDate, User
  <2> HIDE DEF v
  <2> QED
    BY <2>1, <2>2, OtherEntries
<1>4. ASSUME NEW zone \in Zones, PickZone(zone)
      PROVE  GoalFieldsInv'
  <2> DEFINE v == [values EXCEPT !.zone = zone]
  <2>1. DOMAIN v = FormFields /\ v.unit = values.unit /\ \A f \in Amounts : v[f] = values[f]
    BY <1>0 DEF FormFields, Amounts
  <2>2. Entered(v) /\ attempt = Nothing /\ display' = display
    BY <1>4 DEF PickZone, User
  <2> HIDE DEF v
  <2> QED
    BY <2>1, <2>2, OtherEntries
<1> QED
  BY <1>1, <1>2, <1>3, <1>4

-----------------------------------------------------------------------------
(* Sending a creation.                                                     *)
(* A form that shows what was sent has nothing to complain of.             *)
LEMMA SentWithoutComplaint ==
  ASSUME FieldsOK, mode = "create", attempt # Nothing, Sound(attempt),
         attempt = ToCreateBody(values),
         ~AmountError(values.total, 1, values.unit = "minutes"),
         ~AmountError(values.session, 1, FALSE),
         ~AmountError(values.initial, 0, values.unit = "minutes"),
         \A q \in Questions : chosen[q]
  PROVE  Errors = {}
<1>1. values.title # "" /\ DateAllowed(values)
  BY BodyFields DEF Sound, DateAllowed, SavedDate
<1> QED
  BY <1>1, ErrorsAreComplaints DEF NoComplaint, FieldsOK, IsForm

LEMMA SendingANewGoal ==
  ASSUME GoalFieldsInv, SaveNew
  PROVE  GoalFieldsInv'
<1>1. /\ mode = "create" /\ Errors = {} /\ attempt' = ToCreateBody(values)
      /\ UNCHANGED <<mode, clock, row, goal, baseline, values, display, chosen, conflict>>
  BY DEF SaveNew, server
<1>2. NoComplaint /\ ~Locked /\ ~AnswersLocked
  BY <1>1, ErrorsAreComplaints DEF GoalFieldsInv, FieldsOK, IsForm, Locked, AnswersLocked
<1>3. Sound(attempt')
  BY <1>1, <1>2, SoundBodies DEF GoalFieldsInv
<1>4. FieldsOK' /\ ModeOK'
  BY <1>1 DEF GoalFieldsInv, FieldsOK, ModeOK, IsTime
<1>5. ASSUME attempt' # Nothing PROVE Clean'
  <2>1. DateAllowed(values)'
    <3>1. ToCreateBody(values).target = values.target
      BY BodyFields
    <3> QED
      BY <1>1, <1>5, <3>1 DEF DateAllowed, SavedDate
  <2>2. NoComplaint'
    BY <1>1, <1>2, <2>1 DEF NoComplaint, Locked, AnswersLocked
  <2>3. HasFields'
    BY <1>4 DEF FieldsOK, IsForm, HasFields
  <2> QED
    BY <2>2, <2>3, ErrorsAreComplaintsNext
<1>6. attempt' # Nothing => Errors' = {}
  BY <1>5 DEF Clean
<1>7. AttemptOK'
  BY <1>1, <1>3, <1>6 DEF AttemptOK
<1> QED
  BY <1>4, <1>7 DEF GoalFieldsInv

(* Of a body that may be sent, the form that is shown again has the amounts. *)
LEMMA ShownAgain ==
  ASSUME NEW b, Sound(b)
  PROVE  /\ IsForm(ValuesFrom(b)) /\ \A f \in Times : ValuesFrom(b)[f] \in Wholes
         /\ \A f \in Amounts : Int0(ValuesFrom(b)[f]) = b[f]
         /\ \A time \in BOOLEAN :
              /\ ~AmountError(ValuesFrom(b).total, 1, time)
              /\ ~AmountError(ValuesFrom(b).initial, 0, time)
         /\ ~AmountError(ValuesFrom(b).session, 1, FALSE)
         /\ \A f \in FormFields \ Amounts : ValuesFrom(b)[f] = b[f]
<1>0. /\ b.total \in 1 .. MaxAmount /\ b.session \in 1 .. MaxAmount /\ b.initial \in 0 .. MaxAmount
      /\ b.unit \in Units
  BY DEF Sound
<1>1. b.total \in Nat /\ b.session \in Nat /\ b.initial \in Nat
  BY <1>0, FieldsAssumption
<1>2. IsForm(ValuesFrom(b)) /\ \A f \in Times : ValuesFrom(b)[f] \in Wholes
  BY <1>0, <1>1, FormsOfGoals
<1>3. ASSUME NEW n \in 0 .. MaxAmount
      PROVE  /\ ~IsParts(Whole(Number(n))) /\ ParseInteger(Whole(Number(n)).whole) = n
             /\ ParseGoalAmount(Whole(Number(n))) = n /\ Int0(Whole(Number(n))) = n
  <2>1. n \in Nat /\ n \in 0 .. MaxNumber
    BY FieldsAssumption
  <2>2. Number(n) \in Texts /\ ParseInteger(Number(n)) = n
    BY <2>1, NumberTexts
  <2>3. ~IsParts(Whole(Number(n))) /\ Whole(Number(n)).whole = Number(n)
    BY <2>2, WholesAndParts
  <2>4. n # Null
    BY <2>1 DEF Null
  <2> QED
    BY <2>2, <2>3, <2>4 DEF ParseGoalAmount, Int0
<1>4. /\ ValuesFrom(b).total = Whole(Number(b.total)) /\ ValuesFrom(b).session = Whole(Number(b.session))
      /\ ValuesFrom(b).initial = Whole(Number(b.initial))
      /\ \A f \in FormFields \ Amounts : ValuesFrom(b)[f] = b[f]
  BY DEF ValuesFrom, FormFields, Amounts
<1>5. b.total \in 0 .. MaxAmount /\ b.session \in 0 .. MaxAmount /\ b.initial \in 0 .. MaxAmount
  BY <1>0, FieldsAssumption
<1>6. \A f \in Amounts : Int0(ValuesFrom(b)[f]) = b[f]
  BY <1>3, <1>4, <1>5 DEF Amounts
<1>7. \A time \in BOOLEAN :
              /\ ~AmountError(ValuesFrom(b).total, 1, time)
              /\ ~AmountError(ValuesFrom(b).initial, 0, time)
              /\ ~AmountError(ValuesFrom(b).session, 1, time)
  BY <1>0, <1>3, <1>4, <1>5 DEF AmountError
<1> QED
  BY <1>2, <1>4, <1>6, <1>7

LEMMA RecoveringAForm ==
  ASSUME GoalFieldsInv, Recover
  PROVE  GoalFieldsInv'
<1>1. /\ mode = "create" /\ attempt # Nothing /\ values' = ValuesFrom(attempt)
      /\ display' = [total |-> "parts", initial |-> "parts"]
      /\ chosen' = [q \in Questions |-> TRUE]
      /\ UNCHANGED <<mode, clock, row, goal, baseline, attempt, conflict>>
  BY DEF Recover, server
<1>2. Sound(attempt)
  BY <1>1 DEF GoalFieldsInv, AttemptOK
<1>3. /\ IsForm(values') /\ \A f \in Times : values'[f] \in Wholes
      /\ \A f \in Amounts : Int0(values'[f]) = attempt[f]
      /\ \A time \in BOOLEAN : /\ ~AmountError(values'.total, 1, time)
                                 /\ ~AmountError(values'.initial, 0, time)
      /\ ~AmountError(values'.session, 1, FALSE)
      /\ \A f \in FormFields \ Amounts : values'[f] = attempt[f]
  BY <1>1, <1>2, ShownAgain
<1>4. FieldsOK' /\ ModeOK'
  BY <1>1, <1>3 DEF GoalFieldsInv, FieldsOK, ModeOK, Times
<1>5. ToCreateBody(values') = attempt
  <2>1. attempt = ToCreateBody(values)
    BY <1>1 DEF GoalFieldsInv, AttemptOK
  <2>2. ToCreateBody(values') = [title |-> attempt.title, unit |-> attempt.unit,
          total |-> attempt.total, session |-> attempt.session, initial |-> attempt.initial,
          zone |-> attempt.zone, target |-> attempt.target, prior |-> attempt.prior]
    BY <1>3 DEF ToCreateBody, FormFields, Amounts
  <2> QED
    BY <2>1, <2>2 DEF ToCreateBody
<1>6. Clean'
  <2>1. HasFields'
    BY <1>3 DEF IsForm, HasFields
  <2>2. values'.title # "" /\ values'.target = attempt.target
    BY <1>2, <1>3 DEF Sound, FormFields, Amounts
  <2>3. DateAllowed(values)'
    BY <1>1, <2>2 DEF DateAllowed, SavedDate
  <2>4. NoComplaint'
    BY <1>1, <1>3, <2>2, <2>3 DEF NoComplaint
  <2> QED
    BY <2>1, <2>4, ErrorsAreComplaintsNext
<1>7. AttemptOK'
  BY <1>1, <1>2, <1>5, <1>6 DEF AttemptOK, Clean
<1> QED
  BY <1>4, <1>7 DEF GoalFieldsInv

(* Time passes: a date that was sent stays allowed.                        *)
LEMMA TimePasses ==
  ASSUME GoalFieldsInv, UNCHANGED <<mode, server, fields>>
  PROVE  GoalFieldsInv'
<1>1. UNCHANGED <<mode, row, goal, baseline, values, display, chosen, attempt, conflict>>
  BY DEF server, fields
<1>2. FieldsOK' /\ ModeOK'
  BY <1>1 DEF GoalFieldsInv, FieldsOK, ModeOK, IsTime
<1>3. ASSUME attempt # Nothing PROVE Clean'
  <2>1. mode = "create" /\ attempt = ToCreateBody(values) /\ NoComplaint
    BY <1>3, ErrorsAreComplaints DEF GoalFieldsInv, AttemptOK, FieldsOK, IsForm
  <2>2. HasFields'
    BY <1>2 DEF FieldsOK, IsForm, HasFields
  <2>3. DateAllowed(values)'
    BY <1>1, <1>3, <2>1, BodyFields DEF DateAllowed, SavedDate
  <2>4. NoComplaint'
    BY <1>1, <2>1, <2>3 DEF NoComplaint, Locked, AnswersLocked
  <2> QED
    BY <2>2, <2>4, ErrorsAreComplaintsNext
<1>4. AttemptOK'
  BY <1>1, <1>3 DEF GoalFieldsInv, AttemptOK, Clean
<1> QED
  BY <1>2, <1>4 DEF GoalFieldsInv

-----------------------------------------------------------------------------
(* Saving an edit, and what happens elsewhere.                             *)

LEMMA PatchedGoals ==
  ASSUME NEW g, IsGoal(g), NEW body, InContract(body),
         "unit" \in DOMAIN body => body.unit \in Units
  PROVE  IsGoal(Patched(g, body))
<1> DEFINE new == Patched(g, body)
<1>1. DOMAIN new = GoalFieldNames
  BY DEF IsGoal, Patched
<1>2. \A f \in {"unit", "total", "session", "initial"} :
         new[f] = IF f \in DOMAIN body THEN body[f] ELSE g[f]
  BY DEF IsGoal, GoalFieldNames, Patched
<1> HIDE DEF new
<1>3. \A f \in {"total", "session"} : f \in DOMAIN body => body[f] \in 1 .. MaxAmount
  BY DEF InContract
<1>4. "initial" \in DOMAIN body => body.initial \in 0 .. MaxAmount
  BY DEF InContract
<1>5. new.unit \in Units /\ new.total \in 1 .. MaxAmount
      /\ new.session \in 1 .. MaxAmount /\ new.initial \in 0 .. MaxAmount
  BY <1>2, <1>3, <1>4 DEF IsGoal
<1> QED
  BY <1>1, <1>5 DEF IsGoal, new

LEMMA SavingAnEdit ==
  ASSUME GoalFieldsInv, SaveEdit
  PROVE  GoalFieldsInv'
<1> DEFINE body == ToPatchBody(values)
<1>1. mode = "edit" /\ mode' = mode /\ clock' = clock
  BY DEF SaveEdit
<1>2. CASE UNCHANGED <<row, goal, baseline, values, display, chosen, attempt>>
  BY <1>1, <1>2 DEF GoalFieldsInv, ModeOK, FieldsOK, AttemptOK, IsTime
<1>3. CASE PatchAccepted(body) /\ row' = Patched(row, body) /\ Opened(row')
  <2>1. "unit" \in DOMAIN body => body.unit \in Units
    BY PatchFields, BodyFields DEF GoalFieldsInv, FieldsOK, IsForm
  <2>2. InContract(body) /\ IsGoal(row)
    BY <1>1, <1>3 DEF PatchAccepted, GoalFieldsInv, ModeOK
  <2> HIDE DEF body
  <2>3. IsGoal(row')
    BY <1>3, <2>1, <2>2, PatchedGoals
  <2>4. /\ goal' = row' /\ baseline' = row' /\ values' = ValuesFrom(row')
        /\ display' = [total |-> "parts", initial |-> "parts"] /\ attempt' = Nothing
    BY <1>3 DEF Opened
  <2>5. FieldsOK'
    BY <2>3, <2>4, FreshForms DEF GoalFieldsInv
  <2> QED
    BY <1>1, <2>3, <2>4, <2>5 DEF GoalFieldsInv, ModeOK, AttemptOK
<1> QED
  BY <1>2, <1>3 DEF SaveEdit

LEMMA RebasedForms ==
  ASSUME NEW v, IsForm(v), NEW before, NEW latest, IsGoal(latest)
  PROVE  /\ IsForm(Rebased(v, before, latest))
         /\ \A f \in Times : Rebased(v, before, latest)[f] \in Wholes \/ Rebased(v, before, latest)[f] = v[f]
<1> DEFINE was == ValuesFrom(before)
           now == ValuesFrom(latest)
           amounts == {"total", "session", "initial"}
           edited(f) == IF f \in amounts THEN ParseGoalAmount(v[f]) # before[f] ELSE v[f] # was[f]
           picked == [f \in DOMAIN v |-> IF edited(f) THEN v[f] ELSE now[f]]
           Amount(raw) == IF picked.unit = "sessions" /\ IsParts(raw) /\ Finite(ParseGoalAmount(raw))
                          THEN Whole(Written(ParseGoalAmount(raw))) ELSE raw
           new == [picked EXCEPT !.total = Amount(@), !.initial = Amount(@)]
<1>1. Rebased(v, before, latest) = new
  BY DEF Rebased
<1>2. IsForm(now) /\ \A f \in Times : now[f] \in Wholes
  BY GoalsInRange, FormsOfGoals
<1>3. DOMAIN picked = FormFields /\ \A f \in FormFields : picked[f] = v[f] \/ picked[f] = now[f]
  BY DEF IsForm
<1> HIDE DEF picked, now
<1>4. /\ picked.unit \in Units /\ picked.session \in Wholes
      /\ \A f \in Times : picked[f] \in AmountInputs /\ (picked[f] = v[f] \/ picked[f] \in Wholes)
  BY <1>2, <1>3 DEF IsForm, FormFields, Times
<1>5. \A raw \in AmountInputs : Amount(raw) \in AmountInputs /\ (Amount(raw) = raw \/ Amount(raw) \in Wholes)
  BY WrittenAmounts DEF AmountInputs
<1>6. /\ DOMAIN new = FormFields /\ new.unit = picked.unit /\ new.session = picked.session
      /\ new.total = Amount(picked.total) /\ new.initial = Amount(picked.initial)
  BY <1>3 DEF FormFields
<1> HIDE DEF new, Amount
<1>7. IsForm(new)
  BY <1>4, <1>5, <1>6 DEF IsForm, Times
<1>8. \A f \in Times : new[f] \in Wholes \/ new[f] = v[f]
  BY <1>4, <1>5, <1>6 DEF Times
<1> QED
  BY <1>1, <1>7, <1>8

LEMMA ReloadingTheGoal ==
  ASSUME GoalFieldsInv, ReloadLatest
  PROVE  GoalFieldsInv'
<1>1. /\ values' = Rebased(values, baseline, row) /\ display' = ShownAs(values'.unit)
      /\ baseline' = row /\ goal' = row /\ ~conflict' /\ UNCHANGED <<mode, row, attempt>>
      /\ mode = "edit"
  BY DEF ReloadLatest, GoalFieldsInv, ModeOK
<1>2. IsForm(values') /\ \A f \in Times : values'[f] \in Wholes \/ values'[f] = values[f]
  BY <1>1, RebasedForms DEF GoalFieldsInv, FieldsOK, ModeOK
<1>3. CASE values'.unit = values.unit
  <2>1. display' = display
    BY <1>1, <1>3 DEF ShownAs
  <2> QED
    BY <1>1, <1>2, <1>3, <2>1 DEF GoalFieldsInv, FieldsOK, ModeOK, AttemptOK, IsTime
<1>4. CASE values'.unit # values.unit
  <2>1. display' = [total |-> "parts", initial |-> "parts"]
    BY <1>1, <1>4 DEF ShownAs
  <2> QED
    BY <1>1, <1>2, <2>1 DEF GoalFieldsInv, FieldsOK, ModeOK, AttemptOK, Times
<1> QED
  BY <1>3, <1>4

LEMMA TheServerMoves ==
  ASSUME GoalFieldsInv, mode = "edit", IsGoal(row'), IsGoal(goal'), IsGoal(baseline'),
         UNCHANGED <<mode, values, display, attempt, conflict>>
  PROVE  GoalFieldsInv'
BY DEF GoalFieldsInv, ModeOK, FieldsOK, AttemptOK, IsTime

LEMMA Elsewheres ==
  ASSUME GoalFieldsInv, Refetch \/ EditElsewhere \/ RecordElsewhere
  PROVE  GoalFieldsInv'
<1>1. CASE Refetch
  <2>1. goal # row /\ goal' = row
        /\ UNCHANGED <<mode, row, baseline, values, display, attempt, conflict>>
    BY <1>1 DEF Refetch, fields
  <2>2. mode = "edit"
    BY <2>1 DEF GoalFieldsInv, ModeOK
  <2> QED
    BY <2>1, <2>2, TheServerMoves DEF GoalFieldsInv, ModeOK
<1>2. CASE EditElsewhere
  <2>1. mode = "edit" /\ UNCHANGED <<mode, goal, baseline, values, display, attempt, conflict>>
    BY <1>2 DEF EditElsewhere, Elsewhere, fields
  <2>2. \E f \in {"unit", "total", "target"} :
        LET new == CASE f = "unit" -> IF row.unit = "minutes" THEN "sessions" ELSE "minutes"
                     [] f = "total" -> 62
                     [] f = "target" -> 2
        IN /\ PatchAccepted([g \in {f} |-> new])
           /\ row' = Patched(row, [g \in {f} |-> new])
    BY <1>2 DEF EditElsewhere
  <2>7. PICK f \in {"unit", "total", "target"} : \E new :
           /\ PatchAccepted([g \in {f} |-> new])
           /\ row' = Patched(row, [g \in {f} |-> new])
           /\ f = "unit" => new \in Units
    <3> DEFINE New(f) == CASE f = "unit" -> IF row.unit = "minutes" THEN "sessions" ELSE "minutes"
                           [] f = "total" -> 62
                           [] f = "target" -> 2
    <3>1. PICK f \in {"unit", "total", "target"} :
             /\ PatchAccepted([g \in {f} |-> New(f)]) /\ row' = Patched(row, [g \in {f} |-> New(f)])
      BY <2>2
    <3>2. f = "unit" => New(f) \in Units
      BY DEF Units
    <3> HIDE DEF New
    <3> QED
      BY <3>1, <3>2
  <2>3. PICK new :
           /\ PatchAccepted([g \in {f} |-> new])
           /\ row' = Patched(row, [g \in {f} |-> new])
           /\ f = "unit" => new \in Units
    BY <2>7
  <2> DEFINE body == [g \in {f} |-> new]
  <2>4. InContract(body) /\ ("unit" \in DOMAIN body => body.unit \in Units)
    BY <2>3 DEF PatchAccepted
  <2>5. row' = Patched(row, body) /\ IsGoal(row)
    BY <2>1, <2>3 DEF GoalFieldsInv, ModeOK
  <2> HIDE DEF body
  <2>6. IsGoal(row')
    BY <2>4, <2>5, PatchedGoals
  <2> QED
    BY <2>1, <2>6, TheServerMoves DEF GoalFieldsInv, ModeOK
<1>3. CASE RecordElsewhere
  <2>1. mode = "edit" /\ UNCHANGED <<mode, goal, baseline, values, display, attempt, conflict>>
    BY <1>3 DEF RecordElsewhere, Elsewhere, fields
  <2>2. PICK done \in BOOLEAN : row' = [row EXCEPT !.logs = TRUE, !.marker = @ \/ done]
    BY <1>3 DEF RecordElsewhere
  <2>3. IsGoal(row')
    <3>1. IsGoal(row)
      BY <2>1 DEF GoalFieldsInv, ModeOK
    <3>2. /\ DOMAIN row' = DOMAIN row /\ row'.unit = row.unit
          /\ \A f \in Amounts : row'[f] = row[f]
      BY <2>2, <3>1 DEF IsGoal, GoalFieldNames, Amounts
    <3> QED
      BY <3>1, <3>2 DEF IsGoal, Amounts
  <2> QED
    BY <2>1, <2>3, TheServerMoves DEF GoalFieldsInv, ModeOK
<1> QED
  BY <1>1, <1>2, <1>3

LEMMA GoalFieldsSteps == GoalFieldsInv /\ [FieldsNext]_fieldVars => GoalFieldsInv'
<1> SUFFICES ASSUME GoalFieldsInv, [FieldsNext]_fieldVars PROVE GoalFieldsInv'
  OBVIOUS
<1>1. ASSUME NEW f \in Amounts, NEW text \in TypedTexts[f], TypeAmount(f, text) PROVE GoalFieldsInv'
  BY <1>1, TypingAnAmount
<1>2. ASSUME NEW f \in Times, NEW part \in {"h", "m"}, NEW text \in TypedTexts[f],
             TypePart(f, part, text) PROVE GoalFieldsInv'
  BY <1>2, TypingAPart
<1>3. ASSUME NEW f \in Times, NEW to \in {"parts", "minutes"}, SwitchDisplay(f, to) PROVE GoalFieldsInv'
  BY <1>3, Switching
<1>4. ASSUME NEW unit \in Units, SwitchUnit(unit) PROVE GoalFieldsInv'
  BY <1>4, SwitchingTheUnit
<1>5. CASE RestoreUnit
  BY <1>5, RestoringTheUnit
<1>6. CASE \/ TypeTitle
           \/ \E q \in Questions, reply \in {"null", "LOW"} : Choose(q, reply)
           \/ \E date \in TypedDates \cup {NoDate} : PickDate(date)
           \/ \E zone \in Zones : PickZone(zone)
  BY <1>6, EnteringTheRest
<1>7. CASE SaveNew
  BY <1>7, SendingANewGoal
<1>8. CASE Recover
  BY <1>8, RecoveringAForm
<1>9. CASE Rejected
  BY <1>9 DEF Rejected, server, GoalFieldsInv, ModeOK, FieldsOK, AttemptOK, IsTime
<1>10. CASE SaveEdit
  BY <1>10, SavingAnEdit
<1>11. CASE ReloadLatest
  BY <1>11, ReloadingTheGoal
<1>12. CASE Refetch \/ EditElsewhere \/ RecordElsewhere
  BY <1>12, Elsewheres
<1>13. CASE Tick
  BY <1>13, TimePasses DEF Tick
<1>14. CASE UNCHANGED fieldVars
  BY <1>14, TimePasses DEF fieldVars
<1> QED
  BY <1>1, <1>2, <1>3, <1>4, <1>5, <1>6, <1>7, <1>8, <1>9, <1>10, <1>11, <1>12, <1>13, <1>14
  DEF FieldsNext, Amounts, Times

(* The inductive invariant of the fields, for any texts, goals, dates and   *)
(* number of changes: a form holds texts in the shape it shows them in      *)
(* (TimeAmountField.tsx, GoalFormFields.tsx), an edit works on rows the     *)
(* database lets be, and an attempt is what the form shows.                 *)
THEOREM GoalFieldsInvariant == FieldsSpec => []GoalFieldsInv
<1> QED
  BY GoalFieldsStart, GoalFieldsSteps, PTL DEF FieldsSpec

(* What toCreateBody and toPatchBody send of an amount is what the inputs   *)
(* show, however it was typed, switched, restored or taken over.            *)
THEOREM SentAsShown == FieldsSpec => []ShownIsSent
<1>1. GoalFieldsInv => ShownIsSent
  BY ShownIsSentHolds DEF GoalFieldsInv
<1> QED
  BY <1>1, GoalFieldsInvariant, PTL

(* validateGoalForm asks what the contract, the policies and the store ask: *)
(* a form without complaint, on the goal as it is and without a zone that   *)
(* is not sent, is accepted in that moment; and what was sent once can be   *)
(* sent again whatever day it is (recoveryBody).                            *)
THEOREM FormsAgree == FieldsSpec => []FormsAgreeWithTheServer
<1>1. GoalFieldsInv => FormsAgreeWithTheServer
  BY FormsAgreeHolds DEF GoalFieldsInv
<1> QED
  BY <1>1, GoalFieldsInvariant, PTL
=============================================================================
