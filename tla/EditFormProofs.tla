--------------------------- MODULE EditFormProofs ---------------------------
(***************************************************************************)
(* Proofs about EditForm for any number of edits from elsewhere, saves,    *)
(* checks and visits.                                                      *)
(*                                                                         *)
(* What the user has changed is at every moment the difference between     *)
(* what the tab holds (in the form, in the page's memory, or in the one    *)
(* save it hears of) and the row that is compared with; and a row the tab  *)
(* has seen differs from the present one only where a revision says so.    *)
(***************************************************************************)
EXTENDS EditForm, TLAPS

(* What is typed, as far as it differs from the row it is compared with. *)
Differences(values, baseline) ==
  [f \in Fields |-> IF values[f] # baseline.at[f] THEN values[f] ELSE None]

Patches == UNION {[S -> {0, 1}] : S \in SUBSET Fields}

Posts == [patch : Patches, rev : Nat, arev : Nat \union {None}, values : Values, baseline : Rows,
          work : [Fields -> {0, 1, None}], live : BOOLEAN, heard : BOOLEAN,
          pc : {"sent", "orphan", "conflict", "refused", "saved", "refreshing"}]

Typed ==
  /\ row \in Rows \union {None}
  /\ query \in [data : Rows \union {None}, asked : BOOLEAN]
  /\ form \in Forms \union {None}
  /\ held \in Memories \union {None}
  /\ posts \subseteq Posts
  /\ work \in [Fields -> {0, 1, None}]
  /\ ready \in BOOLEAN /\ here \in BOOLEAN /\ interrupted \in BOOLEAN

(* What changes between two states of the row costs a revision.            *)
Newer(old, new) ==
  /\ old.rev <= new.rev /\ old.arev <= new.arev
  /\ old.rev = new.rev => old.at["amount"] = new.at["amount"] /\ old.at["zone"] = new.at["zone"]
  /\ old.arev = new.arev => old.at["answers"] = new.at["answers"]

(* A row the tab has seen. *)
Past(old) == row # None => Newer(old, row)

PastOK ==
  /\ query.data # None => Past(query.data)
  /\ form # None => Past(form.baseline)
  /\ held # None => Past(held.baseline)
  /\ \A p \in posts : Past(p.baseline)

FormOK ==
  form # None =>
    /\ here /\ ready /\ held = None
    /\ ~(form.saving /\ form.reloading)
    /\ work = Differences(form.values, form.baseline)

HeldOK == held # None => work = Differences(held.values, held.baseline)

(* What a save sends is what its user has changed. *)
SentOK(p) ==
  /\ \A f \in DOMAIN p.patch : p.patch[f] = p.values[f] /\ p.values[f] # p.baseline.at[f]
  /\ p.rev = p.baseline.rev
  /\ "answers" \in DOMAIN p.patch => p.arev = p.baseline.arev
  /\ p.work = Differences(p.values, p.baseline)

(* The save the page hears of: a form waits for it, or none may be mounted. *)
HeardOK(p) ==
  /\ p.live => p.heard /\ form # None /\ form.saving
  /\ p.heard =>
       /\ p.pc # "orphan" /\ here /\ held = None
       /\ work = p.work
       /\ IF form = None THEN interrupted ELSE p.live /\ form.values = p.values

PostsOK ==
  /\ \A p \in posts : SentOK(p) /\ HeardOK(p)
  /\ \A p, q \in posts : p.heard /\ q.heard => p = q
  /\ form # None /\ form.saving => \E p \in posts : p.heard

(* Nothing that was typed is nowhere. *)
WorkOK == work # NoWork => form # None \/ held # None \/ \E p \in posts : p.heard

Inv == Typed /\ PastOK /\ FormOK /\ HeldOK /\ PostsOK /\ WorkOK

-----------------------------------------------------------------------------
(* Rows. *)

LEMMA Typing ==
  ASSUME Typed
  PROVE  /\ row # None => row \in Rows
         /\ query.data # None => query.data \in Rows
         /\ form # None => form \in Forms
         /\ held # None => held \in Memories
BY DEF Typed

LEMMA NewerTransitive ==
  ASSUME NEW a \in Rows, NEW b \in Rows, NEW c \in Rows, Newer(a, b), Newer(b, c)
  PROVE  Newer(a, c)
<1>1. /\ a.rev \in Nat /\ b.rev \in Nat /\ c.rev \in Nat
      /\ a.arev \in Nat /\ b.arev \in Nat /\ c.arev \in Nat
  BY DEF Rows
<1> QED
  BY <1>1 DEF Newer

LEMMA NewerReflexive ==
  ASSUME NEW a \in Rows
  PROVE  Newer(a, a)
BY DEF Rows, Newer

LEMMA PatchFields ==
  ASSUME NEW patch \in Patches
  PROVE  DOMAIN patch \subseteq Fields /\ \A f \in DOMAIN patch : patch[f] \in {0, 1}
BY DEF Patches

(* A patch changes what it names, and withdraws the answers with an amount. *)
LEMMA PatchedRow ==
  ASSUME NEW old \in Rows, NEW patch \in Patches
  PROVE  /\ Patched(old, patch) \in Rows
         /\ Newer(old, Patched(old, patch))
         /\ \A f \in Fields : Patched(old, patch).at[f] # old.at[f] =>
              \/ f \in DOMAIN patch /\ Patched(old, patch).at[f] = patch[f]
              \/ f = "answers" /\ Patched(old, patch).at["amount"] # old.at["amount"]
<1> DEFINE at   == [f \in Fields |-> IF f \in DOMAIN patch THEN patch[f] ELSE old.at[f]]
           next == IF Withdraws(old, patch) THEN [at EXCEPT !["answers"] = Empty] ELSE at
           rev  == old.rev + (IF Changed(old, patch) \ {"answers"} # {} THEN 1 ELSE 0)
           arev == old.arev + (IF Withdraws(old, patch) \/ next["answers"] # old.at["answers"]
                               THEN 1 ELSE 0)
<1>1. /\ old.at \in Values /\ old.rev \in Nat /\ old.arev \in Nat /\ old.logs \in BOOLEAN
      /\ DOMAIN patch \subseteq Fields /\ \A f \in DOMAIN patch : patch[f] \in {0, 1}
  BY PatchFields DEF Rows
<1>2. at \in Values /\ \A f \in Fields : at[f] = IF f \in DOMAIN patch THEN patch[f] ELSE old.at[f]
  BY <1>1 DEF Values
<1> HIDE DEF at
<1>3. /\ next \in Values
      /\ \A f \in Fields : next[f] = IF f = "answers" /\ Withdraws(old, patch) THEN 0 ELSE at[f]
  BY <1>2 DEF Values, Empty, Fields
<1> HIDE DEF next
<1>4. rev \in Nat /\ arev \in Nat /\ old.rev <= rev /\ old.arev <= arev
  BY <1>1
<1>5. rev = old.rev => \A f \in Fields \ {"answers"} : next[f] = old.at[f]
  <2>1. ASSUME rev = old.rev, NEW f \in Fields \ {"answers"} PROVE at[f] = old.at[f]
    <3>1. f \notin Changed(old, patch)
      BY <1>1, <2>1
    <3> QED
      BY <1>2, <3>1 DEF Changed
  <2> QED
    BY <1>3, <2>1
<1>6. arev = old.arev => next["answers"] = old.at["answers"]
  BY <1>1
<1> HIDE DEF rev, arev
<1>7. Patched(old, patch) = [old EXCEPT !.at = next, !.rev = rev, !.arev = arev]
  BY DEF Patched, at, next, rev, arev
<1>8. /\ Patched(old, patch) \in Rows /\ Patched(old, patch).at = next
      /\ Patched(old, patch).rev = rev /\ Patched(old, patch).arev = arev
  BY <1>1, <1>3, <1>4, <1>7 DEF Rows
<1>9. Newer(old, Patched(old, patch))
  BY <1>4, <1>5, <1>6, <1>8 DEF Newer, Fields
<1>10. ASSUME NEW f \in Fields, next[f] # old.at[f]
       PROVE  (f \in DOMAIN patch /\ next[f] = patch[f])
              \/ (f = "answers" /\ next["amount"] # old.at["amount"])
  <2>1. CASE f = "answers" /\ Withdraws(old, patch)
    <3>1. "amount" \in DOMAIN patch /\ patch["amount"] # old.at["amount"] /\ "amount" \in Fields
      BY <2>1 DEF Withdraws, Changed, Fields
    <3> QED
      BY <1>2, <1>3, <2>1, <3>1
  <2>2. CASE ~(f = "answers" /\ Withdraws(old, patch))
    BY <1>2, <1>3, <1>10, <2>2
  <2> QED
    BY <2>1, <2>2
<1> QED
  BY <1>8, <1>9, <1>10

(* What the tab has seen stays a past state of the row. *)
RowMoves ==
  /\ row' \in Rows \union {None}
  /\ row' # None => row # None /\ Newer(row, row')

LEMMA RowRests ==
  ASSUME Typed, row' = row
  PROVE  RowMoves
BY NewerReflexive, Typing DEF RowMoves, Typed

LEMMA PastMoves ==
  ASSUME Typed, RowMoves, NEW old \in Rows, Past(old)
  PROVE  Past(old)'
<1>1. ASSUME row' # None PROVE Newer(old, row')
  <2>1. row \in Rows /\ row' \in Rows /\ Newer(row, row') /\ Newer(old, row)
    BY <1>1, Typing DEF RowMoves, Past
  <2> QED
    BY <2>1, NewerTransitive
<1> QED
  BY <1>1 DEF Past

LEMMA NewRow ==
  ASSUME Typed, row' = row
  PROVE  row # None => Past(row)'
<1>1. row # None => Newer(row, row)
  BY Typing, NewerReflexive
<1> QED
  BY <1>1 DEF Past

(* A step elsewhere, and a step of the server for a request. *)
LEMMA ElsewhereStep ==
  ASSUME Inv, RowMoves, UNCHANGED pageVars
  PROVE  Inv'
<1> USE DEF Inv
<1>1. UNCHANGED <<ready, here, interrupted, query, form, held, saved, posts, work>>
  BY DEF pageVars
<1>2. Typed'
  BY <1>1 DEF Typed, RowMoves
<1>3. PastOK'
  <2>1. (query.data # None => Past(query.data))'
    BY <1>1, PastMoves, Typing DEF PastOK
  <2>2. (form # None => Past(form.baseline))'
    BY <1>1, PastMoves, Typing DEF PastOK, Forms
  <2>3. (held # None => Past(held.baseline))'
    BY <1>1, PastMoves, Typing DEF PastOK, Memories
  <2>4. (\A p \in posts : Past(p.baseline))'
    BY <1>1, PastMoves DEF PastOK, Typed, Posts
  <2> QED
    BY <2>1, <2>2, <2>3, <2>4 DEF PastOK
<1>4. FormOK' /\ HeldOK' /\ PostsOK' /\ WorkOK'
  BY <1>1 DEF FormOK, HeldOK, PostsOK, HeardOK, WorkOK
<1> QED
  BY <1>2, <1>3, <1>4

LEMMA ChangesElsewhere ==
  ASSUME Inv, EditElsewhere \/ RecordElsewhere \/ DeleteElsewhere
  PROVE  Inv'
<1>1. row \in Rows /\ UNCHANGED pageVars
  BY Typing DEF Inv, EditElsewhere, RecordElsewhere, DeleteElsewhere, Elsewhere
<1>2. CASE EditElsewhere
  <2>1. PICK f \in Fields : row' = Patched(row, [g \in {f} |-> 1 - row.at[f]])
    BY <1>2 DEF EditElsewhere
  <2>2. [g \in {f} |-> 1 - row.at[f]] \in Patches
    <3>1. 1 - row.at[f] \in {0, 1}
      BY <1>1 DEF Rows, Values
    <3>2. [g \in {f} |-> 1 - row.at[f]] \in [{f} -> {0, 1}]
      BY <3>1
    <3>3. [{f} -> {0, 1}] \in {[S -> {0, 1}] : S \in SUBSET Fields}
      OBVIOUS
    <3> QED
      BY <3>2, <3>3 DEF Patches
  <2>3. row' \in Rows /\ Newer(row, row')
    BY <1>1, <2>1, <2>2, PatchedRow
  <2>4. RowMoves
    BY <1>1, <2>3, EditFormAssumption DEF RowMoves
  <2> QED
    BY <1>1, <2>4, ElsewhereStep
<1>3. CASE RecordElsewhere
  <2> DEFINE r == [row EXCEPT !.logs = TRUE]
  <2>1. r \in Rows /\ r.at = row.at /\ r.rev = row.rev /\ r.arev = row.arev
    BY <1>1 DEF Rows
  <2>2. row' = r
    BY <1>3 DEF RecordElsewhere
  <2> HIDE DEF r
  <2>3. row' \in Rows /\ Newer(row, row')
    BY <1>1, <2>1, <2>2, NewerReflexive DEF Newer
  <2>4. RowMoves
    BY <1>1, <2>3, EditFormAssumption DEF RowMoves
  <2> QED
    BY <1>1, <2>4, ElsewhereStep
<1>4. CASE DeleteElsewhere
  BY <1>1, <1>4, ElsewhereStep DEF DeleteElsewhere, RowMoves
<1> QED
  BY <1>2, <1>3, <1>4

-----------------------------------------------------------------------------
(* The page. *)

(* What the tab has seen stays in the past while the row rests. *)
LEMMA PastRests ==
  ASSUME row' = row, NEW old, Past(old)
  PROVE  Past(old)'
BY DEF Past

LEMMA SomethingTyped ==
  ASSUME NEW w \in [Fields -> {0, 1, None}], w # NoWork
  PROVE  \E f \in Fields : w[f] # None
BY DEF NoWork

LEMMA UnmountedPosts ==
  ASSUME Typed, PastOK, PostsOK
  PROVE  /\ Unmounted \subseteq Posts
         /\ \A q \in Unmounted : \E p \in posts :
              /\ SentOK(q) /\ q.baseline = p.baseline /\ q.values = p.values /\ q.work = p.work
              /\ q.pc = p.pc /\ ~q.live /\ q.heard = p.heard
         /\ \A p \in posts : p.heard => \E q \in Unmounted : q.heard
         /\ \A q, t \in Unmounted : q.heard /\ t.heard => q = t
<1> DEFINE U(p) == [p EXCEPT !.live = FALSE]
<1>1. ASSUME NEW p \in posts
      PROVE  /\ U(p) \in Posts /\ U(p).patch = p.patch /\ U(p).rev = p.rev /\ U(p).arev = p.arev
             /\ U(p).values = p.values /\ U(p).baseline = p.baseline /\ U(p).work = p.work
             /\ U(p).pc = p.pc /\ ~U(p).live /\ U(p).heard = p.heard
  BY DEF Typed, Posts
<1>2. Unmounted = {U(p) : p \in posts}
  BY DEF Unmounted
<1> HIDE DEF U
<1>3. \A p \in posts : SentOK(U(p))
  BY <1>1 DEF PostsOK, SentOK
<1> QED
  BY <1>1, <1>2, <1>3 DEF PostsOK

LEMMA UnheardPosts ==
  ASSUME Typed, PastOK, PostsOK
  PROVE  /\ Unheard \subseteq Posts
         /\ \A q \in Unheard : ~q.live /\ ~q.heard /\ SentOK(q) /\ Past(q.baseline)
<1> DEFINE U(p) == [p EXCEPT !.live = FALSE, !.heard = FALSE]
<1>1. ASSUME NEW p \in posts
      PROVE  /\ U(p) \in Posts /\ U(p).patch = p.patch /\ U(p).rev = p.rev /\ U(p).arev = p.arev
             /\ U(p).values = p.values /\ U(p).baseline = p.baseline /\ U(p).work = p.work
             /\ ~U(p).live /\ ~U(p).heard
  BY DEF Typed, Posts
<1>2. Unheard = {U(p) : p \in posts}
  BY DEF Unheard
<1> HIDE DEF U
<1>3. \A p \in posts : SentOK(U(p)) /\ Past(U(p).baseline)
  BY <1>1 DEF PostsOK, SentOK, PastOK
<1> QED
  BY <1>1, <1>2, <1>3

(* The page forgets its form, and hears of no save. *)
LEMMA ForgottenStep ==
  ASSUME Inv, row' = row, Forgets, posts' = Unheard,
         ready' \in BOOLEAN, here' \in BOOLEAN, interrupted' \in BOOLEAN,
         query' \in [data : Rows \union {None}, asked : BOOLEAN],
         query'.data \in {None, query.data}
  PROVE  Inv'
<1> USE DEF Inv
<1>1. /\ posts' \subseteq Posts
      /\ \A q \in posts' : ~q.live /\ ~q.heard /\ SentOK(q) /\ Past(q.baseline)
  BY UnheardPosts
<1>2. Typed'
  <2>1. NoWork \in [Fields -> {0, 1, None}]
    BY DEF NoWork
  <2> QED
    BY <1>1, <2>1 DEF Typed, Forgets
<1>3. PastOK'
  BY <1>1 DEF Forgets, PastOK, Past
<1>4. PostsOK'
  BY <1>1 DEF Forgets, PostsOK, HeardOK
<1>5. FormOK' /\ HeldOK' /\ WorkOK'
  BY DEF Forgets, FormOK, HeldOK, WorkOK, NoWork
<1> QED
  BY <1>2, <1>3, <1>4, <1>5

LEMMA BreakStep ==
  ASSUME Inv, Break
  PROVE  Inv'
BY ForgottenStep DEF Break, Inv, Typed

LEMMA LeftStep ==
  ASSUME Inv, Leave \/ Finish
  PROVE  Inv'
BY ForgottenStep DEF Leave, Finish, Left, Inv, Typed

(* A step that changes neither the form nor what the page keeps of it. *)
LEMMA PageRests ==
  ASSUME Inv, UNCHANGED <<row, here, form, held, posts, work>>,
         form # None => ready',
         ready' \in BOOLEAN, interrupted' \in BOOLEAN,
         form = None /\ (\E p \in posts : p.heard) => interrupted',
         query' \in [data : Rows \union {None}, asked : BOOLEAN],
         query'.data \in {None, query.data} \/ query'.data = row
  PROVE  Inv'
<1> USE DEF Inv
<1>1. Typed'
  BY DEF Typed
<1>2. PastOK'
  <2>1. query'.data # None => Past(query.data)'
    BY NewRow DEF PastOK, Past
  <2> QED
    BY <2>1 DEF PastOK, Past
<1>3. FormOK' /\ HeldOK' /\ WorkOK'
  BY DEF FormOK, HeldOK, WorkOK
<1>4. PostsOK'
  BY DEF PostsOK, HeardOK
<1> QED
  BY <1>1, <1>2, <1>3, <1>4

LEMMA OpenStep ==
  ASSUME Inv, Open
  PROVE  Inv'
<1> USE DEF Inv
<1>1. /\ UNCHANGED <<row, here, form, held, posts, work>>
      /\ ready' = TRUE /\ interrupted' = (here /\ Pending(posts))
      /\ query' \in [data : Rows \union {None}, asked : BOOLEAN] /\ query'.data = query.data
  BY DEF Open, Typed
<1>2. interrupted' \in BOOLEAN
  BY <1>1 DEF Pending, Typed
<1>3. (\E p \in posts : p.heard) => interrupted'
  BY <1>1 DEF PostsOK, HeardOK, Pending
<1> QED
  BY <1>1, <1>2, <1>3, PageRests

LEMMA EnterStep ==
  ASSUME Inv, Enter
  PROVE  Inv'
<1> USE DEF Inv
<1>1. /\ ~here /\ here' = TRUE /\ interrupted' = ~ready
      /\ query' = [query EXCEPT !.asked = ready]
      /\ UNCHANGED <<row, ready, form, held, posts, work>>
  BY DEF Enter
<1>2. form = None /\ \A p \in posts : ~p.heard
  BY <1>1 DEF FormOK, PostsOK, HeardOK
<1>3. Typed' /\ query'.data = query.data
  BY <1>1 DEF Typed
<1>4. PastOK'
  BY <1>1, <1>3 DEF PastOK, Past
<1>5. FormOK' /\ HeldOK' /\ WorkOK'
  BY <1>1, <1>2 DEF FormOK, HeldOK, WorkOK
<1>6. PostsOK'
  BY <1>1, <1>2 DEF PostsOK, HeardOK
<1> QED
  BY <1>3, <1>4, <1>5, <1>6

LEMMA RefetchStep ==
  ASSUME Inv, Refetch
  PROVE  Inv'
<1>1. /\ UNCHANGED <<row, ready, here, interrupted, form, held, posts, work>>
      /\ query' \in [data : Rows \union {None}, asked : BOOLEAN] /\ query'.data = query.data
  BY DEF Refetch, Inv, Typed
<1>2. /\ form # None => ready'
      /\ form = None /\ (\E p \in posts : p.heard) => interrupted'
  BY <1>1 DEF Inv, FormOK, PostsOK, HeardOK
<1> QED
  BY <1>1, <1>2, PageRests DEF Inv, Typed

(* A check of the session takes the form, and the page keeps what it held. *)
LEMMA CloseStep ==
  ASSUME Inv, Close
  PROVE  Inv'
<1> USE DEF Inv
<1>1. /\ UNCHANGED <<row, here, work>> /\ ready' = FALSE /\ interrupted' = here
      /\ query' = [data |-> None, asked |-> FALSE]
      /\ form' = None /\ posts' = Unmounted
      /\ held' = IF form # None THEN Kept(form, query.data) ELSE held
  BY DEF Close
<1>2. /\ posts' \subseteq Posts
      /\ \A q \in posts' : \E p \in posts :
           /\ SentOK(q) /\ q.baseline = p.baseline /\ q.values = p.values /\ q.work = p.work
           /\ q.pc = p.pc /\ ~q.live /\ q.heard = p.heard
      /\ \A p \in posts : p.heard => \E q \in posts' : q.heard
      /\ \A q, t \in posts' : q.heard /\ t.heard => q = t
  BY <1>1, UnmountedPosts
<1>3. /\ held' # None =>
           /\ held' \in Memories /\ Past(held'.baseline)
           /\ work = Differences(held'.values, held'.baseline)
      /\ form # None /\ ~form.saving => held' \in Memories
  <2>1. CASE form = None
    BY <1>1, <2>1, Typing DEF PastOK, HeldOK
  <2>2. CASE form # None /\ form.saving
    BY <1>1, <2>2 DEF Kept
  <2>3. CASE form # None /\ ~form.saving
    <3> DEFINE m == [values |-> form.values, baseline |-> form.baseline, failed |-> form.failed,
                     source |-> IF form.failed = "no" THEN query.data ELSE None]
    <3>1. held' = m
      BY <1>1, <2>3 DEF Kept
    <3>2. m \in Memories /\ m.values = form.values /\ m.baseline = form.baseline
      BY <2>3 DEF Typed, Forms, Memories
    <3> HIDE DEF m
    <3> QED
      BY <2>3, <3>1, <3>2 DEF PastOK, FormOK
  <2> QED
    BY <2>1, <2>2, <2>3
<1>4. ASSUME NEW p \in posts, p.heard PROVE here /\ held' = None
  <2>1. here /\ held = None /\ (form # None => form.saving)
    BY <1>4 DEF PostsOK, HeardOK
  <2> QED
    BY <1>1, <2>1 DEF Kept
<1>5. Typed'
  BY <1>1, <1>2, <1>3 DEF Typed
<1>6. PastOK'
  BY <1>1, <1>2, <1>3 DEF PastOK, Past
<1>7. FormOK' /\ HeldOK'
  BY <1>1, <1>3 DEF FormOK, HeldOK
<1>8. PostsOK'
  <2>1. ASSUME NEW q \in posts' PROVE SentOK(q) /\ HeardOK(q)'
    BY <1>1, <1>2, <1>4 DEF PostsOK, HeardOK
  <2> QED
    BY <1>1, <1>2, <2>1 DEF PostsOK
<1>9. WorkOK'
  <2>1. CASE form # None /\ ~form.saving
    BY <1>3, <2>1, EditFormAssumption DEF WorkOK
  <2>2. CASE form # None /\ form.saving
    BY <1>1, <1>2, <2>2 DEF WorkOK, PostsOK
  <2>3. CASE form = None
    BY <1>1, <1>2, <2>3 DEF WorkOK
  <2> QED
    BY <2>1, <2>2, <2>3
<1> QED
  BY <1>5, <1>6, <1>7, <1>8, <1>9

-----------------------------------------------------------------------------
(* The form. *)

LEMMA NothingHeard ==
  ASSUME PostsOK, form # None, ~form.saving, NEW p \in posts
  PROVE  ~p.heard /\ ~p.live
BY DEF PostsOK, HeardOK

(* A step that leaves a form which waits for no save. *)
LEMMA FormStep ==
  ASSUME Inv, UNCHANGED <<row, ready, here>>, ready, here, held' = None,
         interrupted' \in BOOLEAN,
         query' \in [data : Rows \union {None}, asked : BOOLEAN],
         query'.data = query.data \/ query'.data = row,
         form' \in Forms, Past(form'.baseline), ~form'.saving,
         work' \in [Fields -> {0, 1, None}],
         work' = Differences(form'.values, form'.baseline),
         posts' \subseteq Posts,
         \A q \in posts' : ~q.heard /\ ~q.live /\ SentOK(q) /\ Past(q.baseline)
  PROVE  Inv'
<1> USE DEF Inv
<1>1. form' # None
  BY EditFormAssumption
<1>2. Typed'
  BY DEF Typed
<1>3. PastOK'
  <2>1. query'.data # None => Past(query.data)'
    BY NewRow DEF PastOK, Past
  <2> QED
    BY <2>1 DEF PastOK, Past
<1>4. FormOK' /\ HeldOK' /\ WorkOK'
  BY <1>1 DEF FormOK, HeldOK, WorkOK
<1>5. PostsOK'
  BY <1>1 DEF PostsOK, HeardOK
<1> QED
  BY <1>2, <1>3, <1>4, <1>5

LEMMA MountStep ==
  ASSUME Inv, Mount
  PROVE  Inv'
<1> USE DEF Inv
<1>1. /\ here /\ ready /\ form = None /\ ~(interrupted /\ Pending(posts)) /\ held' = None
      /\ query.data \in Rows
      /\ UNCHANGED <<row, ready, here, interrupted, query, posts>>
  BY Typing DEF Mount
<1>2. ASSUME NEW q \in posts
      PROVE  ~q.heard /\ ~q.live /\ SentOK(q) /\ Past(q.baseline)
  BY <1>1 DEF PostsOK, HeardOK, Pending, PastOK
<1>3. PICK f \in Forms :
        /\ form' = f /\ Past(f.baseline) /\ ~f.saving
        /\ work' = Differences(f.values, f.baseline)
  <2>1. CASE Restorable
    <3> DEFINE f == [Fresh(query.data) EXCEPT !.values = held.values, !.baseline = held.baseline,
                                              !.failed = held.failed]
    <3>1. held # None /\ held \in Memories
      BY <2>1, Typing DEF Restorable
    <3>2. Fresh(query.data) \in Forms /\ ~Fresh(query.data).saving
      BY <1>1 DEF Fresh, Forms, Rows
    <3>3. f \in Forms /\ f.values = held.values /\ f.baseline = held.baseline /\ ~f.saving
      BY <3>1, <3>2 DEF Forms, Memories
    <3>4. form' = f /\ work' = work
      BY <2>1 DEF Mount
    <3> HIDE DEF f
    <3> QED
      BY <3>1, <3>3, <3>4 DEF PastOK, HeldOK
  <2>2. CASE ~Restorable
    <3>1. form' = Fresh(query.data) /\ work' = NoWork
      BY <2>2 DEF Mount
    <3>2. /\ Fresh(query.data) \in Forms /\ Fresh(query.data).values = query.data.at
          /\ Fresh(query.data).baseline = query.data /\ ~Fresh(query.data).saving
      BY <1>1 DEF Fresh, Forms, Rows
    <3>3. NoWork = Differences(query.data.at, query.data)
      BY DEF NoWork, Differences
    <3>4. Past(query.data)
      BY <1>1, EditFormAssumption DEF PastOK
    <3> QED
      BY <3>1, <3>2, <3>3, <3>4
  <2> QED
    BY <2>1, <2>2
<1>4. work' \in [Fields -> {0, 1, None}]
  BY <1>3 DEF Forms, Values, Differences
<1> QED
  BY <1>1, <1>2, <1>3, <1>4, FormStep DEF Typed

LEMMA TypeStep ==
  ASSUME Inv, NEW f \in Fields, Type(f)
  PROVE  Inv'
<1> USE DEF Inv
<1>1. /\ form # None /\ ~form.saving /\ form \in Forms
      /\ UNCHANGED <<row, ready, here, interrupted, query, held, posts>>
      /\ form' = [form EXCEPT !.values[f] = 1 - @]
      /\ work' = [work EXCEPT ![f] = IF form'.values[f] = form.baseline.at[f] THEN None
                                     ELSE form'.values[f]]
  BY Typing DEF Type
<1>2. form.values \in Values /\ form.baseline \in Rows
  BY <1>1 DEF Forms
<1> DEFINE v == [form.values EXCEPT ![f] = 1 - form.values[f]]
<1>3. v \in Values /\ v[f] = 1 - form.values[f] /\ \A g \in Fields \ {f} : v[g] = form.values[g]
  BY <1>2 DEF Values
<1>4. form' = [form EXCEPT !.values = v]
  BY <1>1, <1>2 DEF Forms
<1> HIDE DEF v
<1>5. form' \in Forms /\ form'.values = v /\ form'.baseline = form.baseline /\ ~form'.saving
  BY <1>1, <1>3, <1>4 DEF Forms
<1>6. here /\ ready /\ held = None /\ work = Differences(form.values, form.baseline)
      /\ Past(form.baseline)
  BY <1>1 DEF FormOK, PastOK
<1>7. work' = Differences(v, form.baseline)
  <2>1. work \in [Fields -> {0, 1, None}]
    BY DEF Typed
  <2>2. work' = [work EXCEPT ![f] = IF v[f] = form.baseline.at[f] THEN None ELSE v[f]]
    <3>1. form'.values = v
      BY <1>5
    <3>2. work' = [work EXCEPT ![f] = IF form'.values[f] = form.baseline.at[f] THEN None
                                      ELSE form'.values[f]]
      BY DEF Type
    <3> QED
      BY <3>1, <3>2
  <2>3. /\ DOMAIN work' = Fields
        /\ \A g \in Fields : work'[g] = IF v[g] # form.baseline.at[g] THEN v[g] ELSE None
    BY <1>3, <1>6, <2>1, <2>2 DEF Differences
  <2>4. work' = [g \in Fields |-> work'[g]]
    BY <2>1, <2>2
  <2> QED
    BY <2>3, <2>4 DEF Differences
<1>8. work' \in [Fields -> {0, 1, None}]
  BY <1>2, <1>3, <1>7 DEF Differences, Values
<1>9. \A q \in posts' : ~q.heard /\ ~q.live /\ SentOK(q) /\ Past(q.baseline)
  BY <1>1, NothingHeard DEF PostsOK, PastOK
<1> QED
  BY <1>1, <1>5, <1>6, <1>7, <1>8, <1>9, FormStep DEF Typed

LEMMA ReloadLatestStep ==
  ASSUME Inv, ReloadLatest
  PROVE  Inv'
<1> USE DEF Inv
<1>1. /\ form # None /\ ~form.saving /\ form \in Forms
      /\ UNCHANGED <<row, ready, here, interrupted, held, posts, work>>
      /\ form' = [form EXCEPT !.reloading = TRUE]
      /\ query' = [query EXCEPT !.asked = TRUE]
  BY Typing DEF ReloadLatest
<1>2. /\ form' \in Forms /\ form'.values = form.values /\ form'.baseline = form.baseline
      /\ ~form'.saving
  BY <1>1 DEF Forms
<1>3. query' \in [data : Rows \union {None}, asked : BOOLEAN] /\ query'.data = query.data
  BY <1>1 DEF Typed
<1>4. /\ here /\ ready /\ held = None /\ work = Differences(form.values, form.baseline)
      /\ Past(form.baseline)
  BY <1>1 DEF FormOK, PastOK
<1>5. \A q \in posts' : ~q.heard /\ ~q.live /\ SentOK(q) /\ Past(q.baseline)
  BY <1>1, NothingHeard DEF PostsOK, PastOK
<1> QED
  BY <1>1, <1>2, <1>3, <1>4, <1>5, FormStep DEF Typed

(* What was typed stays different from the row it is compared with now.    *)
LEMMA RebasedDifferences ==
  ASSUME NEW values \in Values, NEW before \in Rows, NEW latest \in Rows,
         NEW w \in [Fields -> {0, 1, None}], w = Differences(values, before)
  PROVE  /\ Rebased(values, before, latest) \in Values
         /\ [f \in Fields |-> IF w[f] = latest.at[f] THEN None ELSE w[f]]
              = Differences(Rebased(values, before, latest), latest)
<1>1. None \notin {0, 1}
  BY EditFormAssumption
<1>2. before.at \in Values /\ latest.at \in Values
  BY DEF Rows
<1>3. Rebased(values, before, latest) \in Values
  BY <1>2 DEF Rebased, Values
<1>4. ASSUME NEW f \in Fields
      PROVE  (IF w[f] = latest.at[f] THEN None ELSE w[f])
               = (IF Rebased(values, before, latest)[f] # latest.at[f]
                  THEN Rebased(values, before, latest)[f] ELSE None)
  BY <1>1, <1>2 DEF Rebased, Values, Differences
<1> QED
  BY <1>3, <1>4 DEF Differences

LEMMA QueryArrivesStep ==
  ASSUME Inv, QueryArrives
  PROVE  Inv'
<1> USE DEF Inv
<1>1. /\ row \in Rows /\ query' = [data |-> row, asked |-> FALSE]
      /\ UNCHANGED <<row, ready, here, interrupted, held, posts>>
  BY Typing DEF QueryArrives
<1>2. query' \in [data : Rows \union {None}, asked : BOOLEAN] /\ query'.data = row
  BY <1>1
<1>3. CASE UNCHANGED <<form, work>>
  <2>1. /\ form # None => ready'
        /\ form = None /\ (\E p \in posts : p.heard) => interrupted'
    BY <1>1 DEF FormOK, PostsOK, HeardOK
  <2> QED
    BY <1>1, <1>2, <1>3, <2>1, PageRests DEF Typed
<1>4. CASE form # None /\ form.reloading
  <2>1. /\ form \in Forms /\ ~form.saving
        /\ here /\ ready /\ held = None /\ work = Differences(form.values, form.baseline)
    BY <1>4, Typing DEF FormOK
  <2> DEFINE v == Rebased(form.values, form.baseline, row)
  <2>2. /\ form' = [form EXCEPT !.values = v, !.baseline = row, !.failed = "no",
                                !.reloading = FALSE]
        /\ work' = [f \in Fields |-> IF work[f] = row.at[f] THEN None ELSE work[f]]
    BY <1>4 DEF QueryArrives
  <2>3. v \in Values /\ work' = Differences(v, row)
    <3>1. form.values \in Values /\ form.baseline \in Rows /\ work \in [Fields -> {0, 1, None}]
      BY <2>1 DEF Forms, Typed
    <3> QED
      BY <1>1, <2>1, <2>2, <3>1, RebasedDifferences
  <2> HIDE DEF v
  <2>4. form' \in Forms /\ form'.values = v /\ form'.baseline = row /\ ~form'.saving
    BY <1>1, <2>1, <2>2, <2>3 DEF Forms
  <2>5. Past(row)
    BY <1>1, NewerReflexive DEF Past
  <2>6. work' \in [Fields -> {0, 1, None}]
    BY <2>3 DEF Differences, Values
  <2>7. \A q \in posts' : ~q.heard /\ ~q.live /\ SentOK(q) /\ Past(q.baseline)
    BY <1>1, <1>4, <2>1, NothingHeard DEF PostsOK, PastOK
  <2> QED
    BY <1>1, <1>2, <2>1, <2>3, <2>4, <2>5, <2>6, <2>7, FormStep DEF Typed
<1> QED
  BY <1>3, <1>4 DEF QueryArrives

LEMMA QueryFailsStep ==
  ASSUME Inv, QueryFails
  PROVE  Inv'
<1> USE DEF Inv
<1>1. /\ UNCHANGED <<row, ready, here, interrupted, held, posts, work>>
      /\ query' = [query EXCEPT !.asked = FALSE]
      /\ form' = IF form # None THEN [form EXCEPT !.reloading = FALSE] ELSE form
  BY DEF QueryFails
<1>2. query' \in [data : Rows \union {None}, asked : BOOLEAN] /\ query'.data = query.data
  BY <1>1 DEF Typed
<1>3. CASE form = None
  <2>1. form = None /\ (\E p \in posts : p.heard) => interrupted'
    BY <1>1 DEF PostsOK, HeardOK
  <2> QED
    BY <1>1, <1>2, <1>3, <2>1, PageRests DEF Typed
<1>4. CASE form # None
  <2>1. /\ form' \in Forms /\ form'.values = form.values /\ form'.baseline = form.baseline
        /\ form'.saving = form.saving /\ ~form'.reloading
    BY <1>1, <1>4, Typing DEF Forms
  <2>2. form' # None
    BY <2>1, EditFormAssumption
  <2>3. Typed'
    BY <1>1, <1>2, <2>1 DEF Typed
  <2>4. PastOK'
    BY <1>1, <1>2, <1>4, <2>1 DEF PastOK, Past
  <2>5. FormOK' /\ HeldOK' /\ WorkOK'
    BY <1>1, <1>4, <2>1, <2>2 DEF FormOK, HeldOK, WorkOK
  <2>6. PostsOK'
    BY <1>1, <1>4, <2>1, <2>2 DEF PostsOK, HeardOK
  <2> QED
    BY <2>3, <2>4, <2>5, <2>6
<1> QED
  BY <1>3, <1>4

(* A save sends what has been changed, compared with one row. *)
LEMMA SubmitStep ==
  ASSUME Inv, Submit
  PROVE  Inv'
<1> USE DEF Inv
<1> DEFINE patch == PatchOf(form.values, form.baseline, query.data)
           arev == IF DOMAIN patch \intersect {"amount", "answers"} # {}
                   THEN form.baseline.arev ELSE None
           pc == IF DOMAIN patch = {} THEN "saved" ELSE "sent"
           p == [patch |-> patch, rev |-> form.baseline.rev, arev |-> arev,
                 values |-> form.values, baseline |-> form.baseline, work |-> work,
                 pc |-> pc, live |-> TRUE, heard |-> TRUE]
<1>1. /\ form # None /\ ~form.saving /\ ~form.reloading /\ form \in Forms
      /\ UNCHANGED <<row, ready, here, interrupted, query, held, work>>
      /\ form' = [form EXCEPT !.saving = TRUE, !.failed = "no"]
      /\ posts' = posts \union {p}
  BY Typing DEF Submit, ComparedWith
<1>2. /\ form.values \in Values /\ form.baseline \in Rows /\ form.baseline.rev \in Nat
      /\ form.baseline.arev \in Nat /\ work \in [Fields -> {0, 1, None}]
  BY <1>1 DEF Forms, Rows, Typed
<1>3. /\ patch \in Patches
      /\ \A f \in DOMAIN patch : patch[f] = form.values[f] /\ form.values[f] # form.baseline.at[f]
  <2> DEFINE sent == {f \in Fields : /\ form.values[f] # form.baseline.at[f]
                                     /\ f = "zone" => ~query.data.logs
                                     /\ f = "answers" => ~AnswersLocked(form.values, form.baseline)}
  <2>1. patch = [f \in sent |-> form.values[f]]
    BY DEF PatchOf
  <2>2. patch \in [sent -> {0, 1}]
    BY <1>2, <2>1 DEF Values
  <2>3. [sent -> {0, 1}] \in {[S -> {0, 1}] : S \in SUBSET Fields}
    OBVIOUS
  <2>4. patch \in Patches
    BY <2>2, <2>3 DEF Patches
  <2> QED
    BY <2>1, <2>4
<1> HIDE DEF patch
<1>4. arev \in Nat \union {None} /\ ("answers" \in DOMAIN patch => arev = form.baseline.arev)
  BY <1>2
<1>5. pc \in {"sent", "saved"}
  OBVIOUS
<1> HIDE DEF arev, pc
<1>6. PICK q \in Posts :
        /\ posts' = posts \union {q}
        /\ q.patch = patch /\ q.rev = form.baseline.rev /\ q.arev = arev
        /\ q.values = form.values /\ q.baseline = form.baseline /\ q.work = work
        /\ q.pc = pc /\ q.live /\ q.heard
  <2>1. /\ p \in Posts /\ p.patch = patch /\ p.rev = form.baseline.rev /\ p.arev = arev
        /\ p.values = form.values /\ p.baseline = form.baseline /\ p.work = work
        /\ p.pc = pc /\ p.live /\ p.heard
    BY <1>2, <1>3, <1>4, <1>5 DEF Posts
  <2> HIDE DEF p
  <2> QED
    BY <1>1, <2>1
<1> HIDE DEF p
<1>7. /\ form' \in Forms /\ form'.values = form.values /\ form'.baseline = form.baseline
      /\ form'.saving /\ ~form'.reloading /\ form' # None
  <2>1. /\ form' \in Forms /\ form'.values = form.values /\ form'.baseline = form.baseline
        /\ form'.saving /\ ~form'.reloading
    BY <1>1 DEF Forms
  <2> QED
    BY <2>1, EditFormAssumption
<1>8. /\ here /\ ready /\ held = None /\ work = Differences(form.values, form.baseline)
      /\ Past(form.baseline)
  BY <1>1 DEF FormOK, PastOK
<1>9. Typed'
  BY <1>1, <1>6, <1>7 DEF Typed
<1>10. PastOK'
  BY <1>1, <1>6, <1>7, <1>8 DEF PastOK, Past
<1>11. FormOK' /\ HeldOK' /\ WorkOK'
  BY <1>1, <1>7, <1>8 DEF FormOK, HeldOK, WorkOK
<1>12. PostsOK'
  <2>1. SentOK(q)
    BY <1>3, <1>4, <1>6, <1>8 DEF SentOK
  <2>2. HeardOK(q)'
    BY <1>1, <1>5, <1>6, <1>7, <1>8 DEF HeardOK
  <2>3. ASSUME NEW t \in posts PROVE SentOK(t) /\ HeardOK(t)' /\ ~t.heard
    BY <1>1, <2>3, NothingHeard DEF PostsOK, HeardOK
  <2> QED
    BY <1>1, <1>6, <2>1, <2>2, <2>3 DEF PostsOK
<1> QED
  BY <1>9, <1>10, <1>11, <1>12

-----------------------------------------------------------------------------
(* A save, and what becomes of it. *)

LEMMA PastsMove ==
  ASSUME Typed, RowMoves
  PROVE  \A old \in Rows : Past(old) => Past(old)'
BY PastMoves

(* A save goes on. *)
LEMMA PostMoves ==
  ASSUME Inv, RowMoves, NEW p \in posts, p.pc # "orphan",
         NEW pc \in {"conflict", "refused", "saved", "refreshing"},
         posts' = (posts \ {p}) \union {[p EXCEPT !.pc = pc]},
         UNCHANGED <<ready, here, interrupted, form, held, work>>,
         query' \in [data : Rows \union {None}, asked : BOOLEAN], query'.data = query.data
  PROVE  Inv'
<1> USE DEF Inv
<1>1. PICK q \in Posts :
        /\ posts' = (posts \ {p}) \union {q}
        /\ q.patch = p.patch /\ q.rev = p.rev /\ q.arev = p.arev /\ q.values = p.values
        /\ q.baseline = p.baseline /\ q.work = p.work
        /\ q.pc = pc /\ q.live = p.live /\ q.heard = p.heard
  <2> DEFINE q == [p EXCEPT !.pc = pc]
  <2>1. /\ q \in Posts
        /\ q.patch = p.patch /\ q.rev = p.rev /\ q.arev = p.arev /\ q.values = p.values
        /\ q.baseline = p.baseline /\ q.work = p.work
        /\ q.pc = pc /\ q.live = p.live /\ q.heard = p.heard
    BY DEF Typed, Posts
  <2>2. posts' = (posts \ {p}) \union {q}
    OBVIOUS
  <2> HIDE DEF q
  <2> QED
    BY <2>1, <2>2
<1>2. Typed'
  BY <1>1 DEF Typed, RowMoves
<1>3. \A old \in Rows : Past(old) => Past(old)'
  BY PastsMove
<1>4. PastOK'
  <2>1. query'.data # None => Past(query.data)'
    BY <1>3, Typing DEF PastOK, Past
  <2>2. form' # None => Past(form.baseline)'
    BY <1>3, Typing DEF PastOK, Past, Forms
  <2>3. held' # None => Past(held.baseline)'
    BY <1>3, Typing DEF PastOK, Past, Memories
  <2>4. ASSUME NEW t \in posts' PROVE Past(t.baseline)'
    <3>1. PICK u \in posts : t.baseline = u.baseline
      BY <1>1
    <3>2. u.baseline \in Rows /\ Past(u.baseline)
      BY DEF Typed, Posts, PastOK
    <3> QED
      BY <1>3, <3>1, <3>2
  <2> QED
    BY <2>1, <2>2, <2>3, <2>4 DEF PastOK
<1>5. FormOK' /\ HeldOK'
  BY DEF FormOK, HeldOK
<1>6. PostsOK'
  <2>1. ASSUME NEW t \in posts PROVE SentOK(t) /\ HeardOK(t)'
    BY DEF PostsOK, HeardOK
  <2>2. SentOK(q)
    BY <1>1 DEF PostsOK, SentOK
  <2>3. HeardOK(q)'
    BY <1>1, <2>1 DEF HeardOK
  <2>4. \A t, u \in posts' : t.heard /\ u.heard => t = u
    BY <1>1 DEF PostsOK
  <2>5. (\E t \in posts : t.heard) => \E t \in posts' : t.heard
    BY <1>1
  <2> QED
    BY <1>1, <2>1, <2>2, <2>3, <2>4, <2>5 DEF PostsOK
<1>7. WorkOK'
  <2>1. (\E t \in posts : t.heard) => \E t \in posts' : t.heard
    BY <1>1
  <2> QED
    BY <2>1 DEF WorkOK
<1> QED
  BY <1>2, <1>4, <1>5, <1>6, <1>7

(* What becomes of a save when it is not the page that hears of it. *)
IsUnheardCopy(q, p) ==
  q \in Posts /\ ~q.live /\ ~q.heard /\ SentOK(q) /\ q.baseline = p.baseline

LEMMA PostEnds ==
  ASSUME Inv, RowMoves, NEW p \in posts, ~p.heard, NEW rest,
         posts' = (posts \ {p}) \union rest,
         \A q \in rest : IsUnheardCopy(q, p),
         UNCHANGED <<ready, here, query, form, held, work>>,
         interrupted' = interrupted \/ interrupted' = Interrupted(posts')
  PROVE  Inv'
<1> USE DEF Inv
<1>1. \A t \in posts : t.heard => t \in posts' /\ t.pc # "orphan"
  BY DEF PostsOK, HeardOK
<1>2. interrupted' \in BOOLEAN
  BY DEF Interrupted, Typed, Pending
<1>3. form = None /\ (\E t \in posts : t.heard) => interrupted'
  <2>1. ASSUME form = None, NEW t \in posts, t.heard PROVE interrupted'
    <3>1. interrupted
      BY <2>1 DEF PostsOK, HeardOK
    <3>2. Pending(posts')
      BY <1>1, <2>1 DEF Pending
    <3> QED
      BY <3>1, <3>2 DEF Interrupted
  <2> QED
    BY <2>1
<1>4. Typed'
  BY <1>2 DEF Typed, RowMoves, IsUnheardCopy
<1>5. \A old \in Rows : Past(old) => Past(old)'
  BY PastsMove
<1>6. PastOK'
  <2>1. query'.data # None => Past(query.data)'
    BY <1>5, Typing DEF PastOK, Past
  <2>2. form' # None => Past(form.baseline)'
    BY <1>5, Typing DEF PastOK, Past, Forms
  <2>3. held' # None => Past(held.baseline)'
    BY <1>5, Typing DEF PastOK, Past, Memories
  <2>4. ASSUME NEW t \in posts' PROVE Past(t.baseline)'
    <3>1. PICK u \in posts : t.baseline = u.baseline
      BY DEF IsUnheardCopy
    <3>2. u.baseline \in Rows /\ Past(u.baseline)
      BY DEF Typed, Posts, PastOK
    <3> QED
      BY <1>5, <3>1, <3>2
  <2> QED
    BY <2>1, <2>2, <2>3, <2>4 DEF PastOK
<1>7. FormOK' /\ HeldOK'
  BY DEF FormOK, HeldOK
<1>8. PostsOK'
  <2>1. ASSUME NEW t \in posts PROVE SentOK(t) /\ HeardOK(t)'
    <3>1. SentOK(t) /\ HeardOK(t)
      BY DEF PostsOK
    <3> QED
      BY <1>3, <3>1 DEF HeardOK
  <2>2. ASSUME NEW t \in rest PROVE SentOK(t) /\ HeardOK(t)' /\ ~t.heard
    BY DEF IsUnheardCopy, HeardOK
  <2>3. form # None /\ form.saving => \E t \in posts' : t.heard
    BY <1>1 DEF PostsOK
  <2> QED
    BY <2>1, <2>2, <2>3 DEF PostsOK
<1>9. WorkOK'
  BY <1>1 DEF WorkOK
<1> QED
  BY <1>4, <1>6, <1>7, <1>8, <1>9

(* The page hears of a save no more than of one. *)
LEMMA OnlyHeard ==
  ASSUME PostsOK, NEW p \in posts, p.heard, NEW t \in posts \ {p}
  PROVE  ~t.heard /\ ~t.live
BY DEF PostsOK, HeardOK

LEMMA FailsStep ==
  ASSUME Inv, NEW p \in posts, NEW kind \in {"conflict", "refused", "unknown"}, NEW rest,
         Fails(p, kind, rest), \A q \in rest : IsUnheardCopy(q, p)
  PROVE  Inv'
<1> USE DEF Inv
<1>1. /\ posts' = (posts \ {p}) \union rest
      /\ form' = IF p.live THEN [form EXCEPT !.saving = FALSE, !.failed = kind] ELSE form
      /\ held' = IF p.heard /\ ~p.live
                 THEN [values |-> p.values, baseline |-> p.baseline, failed |-> kind,
                       source |-> None]
                 ELSE held
      /\ interrupted' = Interrupted(posts')
      /\ UNCHANGED <<row, ready, here, query, work>>
  BY DEF Fails
<1>2. interrupted' \in BOOLEAN
  BY <1>1 DEF Interrupted, Typed, Pending
<1>3. p \in Posts /\ SentOK(p) /\ HeardOK(p) /\ Past(p.baseline)
  BY DEF Typed, PostsOK, PastOK
<1>4. CASE ~p.heard
  <2>1. ~p.live
    BY <1>3, <1>4 DEF HeardOK
  <2> QED
    BY <1>1, <1>4, <2>1, RowRests, PostEnds
<1>5. ASSUME p.heard, NEW t \in posts'
      PROVE  t \in Posts /\ ~t.heard /\ ~t.live /\ SentOK(t) /\ Past(t.baseline)
  <2>1. CASE t \in rest
    BY <1>3, <2>1 DEF IsUnheardCopy
  <2>2. CASE t \in posts \ {p}
    BY <1>5, <2>2, OnlyHeard DEF Typed, PostsOK, PastOK
  <2> QED
    BY <1>1, <2>1, <2>2
<1>6. CASE p.heard /\ p.live
  <2>1. /\ form # None /\ form \in Forms /\ here /\ ready /\ held = None
        /\ work = Differences(form.values, form.baseline) /\ Past(form.baseline)
    BY <1>3, <1>6, Typing DEF HeardOK, FormOK, PastOK
  <2>2. form' = [form EXCEPT !.saving = FALSE, !.failed = kind]
    BY <1>1, <1>6
  <2>3. /\ form' \in Forms /\ form'.values = form.values /\ form'.baseline = form.baseline
        /\ ~form'.saving
    BY <2>1, <2>2 DEF Forms
  <2>4. held' = None
    BY <1>1, <1>6, <2>1
  <2> QED
    BY <1>1, <1>2, <1>5, <1>6, <2>1, <2>3, <2>4, FormStep DEF Typed
<1>7. CASE p.heard /\ ~p.live
  <2>1. form = None /\ form' = None /\ work = p.work
    BY <1>1, <1>3, <1>7 DEF HeardOK
  <2> DEFINE m == [values |-> p.values, baseline |-> p.baseline, failed |-> kind, source |-> None]
  <2>2. m \in Memories /\ m.values = p.values /\ m.baseline = p.baseline
    BY <1>3 DEF Posts, Memories
  <2>3. held' = m
    BY <1>1, <1>7
  <2> HIDE DEF m
  <2>4. Typed'
    BY <1>1, <1>2, <1>5, <1>7, <2>1, <2>2, <2>3 DEF Typed
  <2>5. PastOK'
    BY <1>1, <1>3, <1>5, <1>7, <2>1, <2>2, <2>3 DEF PastOK, Past
  <2>6. FormOK' /\ HeldOK' /\ WorkOK'
    BY <1>1, <1>3, <2>1, <2>2, <2>3, EditFormAssumption DEF FormOK, HeldOK, WorkOK, SentOK
  <2>7. PostsOK'
    BY <1>5, <1>7, <2>1 DEF PostsOK, HeardOK
  <2> QED
    BY <2>4, <2>5, <2>6, <2>7
<1> QED
  BY <1>4, <1>6, <1>7

LEMMA RefusedStep ==
  ASSUME Inv, NEW p \in posts, Refused(p)
  PROVE  Inv'
BY FailsStep DEF Refused

LEMMA IsLostStep ==
  ASSUME Inv, NEW p \in posts, IsLost(p)
  PROVE  Inv'
<1> DEFINE q == [p EXCEPT !.pc = "orphan", !.live = FALSE, !.heard = FALSE]
<1>1. PICK rest \in {{}, {q}} : Fails(p, "unknown", rest)
  BY DEF IsLost
<1>2. IsUnheardCopy(q, p)
  <2>1. p \in Posts /\ SentOK(p)
    BY DEF Inv, Typed, PostsOK
  <2>2. /\ q \in Posts /\ q.patch = p.patch /\ q.rev = p.rev /\ q.arev = p.arev
        /\ q.values = p.values /\ q.baseline = p.baseline /\ q.work = p.work
        /\ ~q.live /\ ~q.heard
    BY <2>1 DEF Posts
  <2> HIDE DEF q
  <2> QED
    BY <2>1, <2>2 DEF IsUnheardCopy, SentOK
<1> HIDE DEF q
<1> QED
  BY <1>1, <1>2, FailsStep

LEMMA SettlesStep ==
  ASSUME Inv, NEW p \in posts, Settles(p)
  PROVE  Inv'
<1>1. /\ posts' = posts \ {p} /\ interrupted' = Interrupted(posts')
      /\ UNCHANGED <<row, ready, here, query, held>>
      /\ p.heard => form' = None /\ work' = NoWork
      /\ ~p.heard => UNCHANGED <<form, work>>
  BY DEF Settles
<1>2. CASE ~p.heard
  <2>1. PICK rest : /\ posts' = (posts \ {p}) \union rest
                    /\ \A q \in rest : IsUnheardCopy(q, p)
    <3> DEFINE none == {}
    <3>1. posts' = (posts \ {p}) \union none /\ \A q \in none : IsUnheardCopy(q, p)
      BY <1>1
    <3> HIDE DEF none
    <3> QED
      BY <3>1
  <2>2. RowMoves /\ UNCHANGED <<ready, here, query, form, held, work>>
    BY <1>1, <1>2, RowRests DEF Inv
  <2>3. interrupted' = interrupted \/ interrupted' = Interrupted(posts')
    BY <1>1
  <2> QED
    BY <1>2, <2>1, <2>2, <2>3, PostEnds
<1>3. CASE p.heard
  <2> USE DEF Inv
  <2>1. ASSUME NEW t \in posts'
        PROVE  t \in Posts /\ ~t.heard /\ ~t.live /\ SentOK(t) /\ Past(t.baseline)
    BY <1>1, <1>3, OnlyHeard DEF Typed, PostsOK, PastOK
  <2>2. held' = None
    BY <1>1, <1>3 DEF PostsOK, HeardOK
  <2>3. interrupted' \in BOOLEAN
    BY <1>1 DEF Interrupted, Typed, Pending
  <2>4. work' \in [Fields -> {0, 1, None}]
    BY <1>1, <1>3 DEF NoWork
  <2>5. Typed'
    BY <1>1, <1>3, <2>1, <2>3, <2>4 DEF Typed
  <2>6. PastOK'
    BY <1>1, <1>3, <2>1, <2>2 DEF PastOK, Past
  <2>7. FormOK' /\ HeldOK' /\ WorkOK'
    BY <1>1, <1>3, <2>2 DEF FormOK, HeldOK, WorkOK, NoWork
  <2>8. PostsOK'
    BY <1>1, <1>3, <2>1 DEF PostsOK, HeardOK
  <2> QED
    BY <2>5, <2>6, <2>7, <2>8
<1> QED
  BY <1>2, <1>3

LEMMA SucceedsStep ==
  ASSUME Inv, NEW p \in posts, Succeeds(p)
  PROVE  Inv'
<1>1. /\ p.pc = "saved" /\ posts' = (posts \ {p}) \union {[p EXCEPT !.pc = "refreshing"]}
      /\ query' = [query EXCEPT !.asked = (ready /\ here) \/ @]
      /\ UNCHANGED <<row, ready, here, interrupted, form, held, work>>
  BY DEF Succeeds
<1>2. query' \in [data : Rows \union {None}, asked : BOOLEAN] /\ query'.data = query.data
  BY <1>1 DEF Inv, Typed
<1> QED
  BY <1>1, <1>2, RowRests, PostMoves DEF Inv

(* The row moves as its revisions say when a request is applied. *)
LEMMA ServeStep ==
  ASSUME Inv, NEW p \in posts, Serve(p)
  PROVE  Inv'
<1>1. /\ p.pc \in {"sent", "orphan"}
      /\ row' = IF Verdict(p) = "saved" THEN Patched(row, p.patch) ELSE row
      /\ posts' = (posts \ {p})
                    \union IF p.pc = "sent" THEN {[p EXCEPT !.pc = Verdict(p)]} ELSE {}
      /\ UNCHANGED <<ready, here, interrupted, query, form, held, work>>
  BY DEF Serve
<1>2. Verdict(p) \in {"conflict", "refused", "saved"}
  BY DEF Verdict
<1>3. RowMoves
  <2>1. CASE Verdict(p) = "saved"
    <3>1. row # None /\ row \in Rows /\ p.patch \in Patches
      BY <2>1, Typing DEF Verdict, Inv, Typed, Posts
    <3> QED
      BY <1>1, <2>1, <3>1, PatchedRow DEF RowMoves
  <2>2. CASE Verdict(p) # "saved"
    BY <1>1, <2>2, RowRests DEF Inv
  <2> QED
    BY <2>1, <2>2
<1>4. CASE p.pc = "sent"
  <2>1. query' \in [data : Rows \union {None}, asked : BOOLEAN] /\ query'.data = query.data
    BY <1>1 DEF Inv, Typed
  <2> QED
    BY <1>1, <1>2, <1>3, <1>4, <2>1, PostMoves
<1>5. CASE p.pc = "orphan"
  <2>1. ~p.heard
    BY <1>5 DEF Inv, PostsOK, HeardOK
  <2>2. posts' = (posts \ {p}) \union {} /\ \A q \in {} : IsUnheardCopy(q, p)
    BY <1>1, <1>5
  <2> QED
    BY <1>1, <1>3, <1>5, <2>1, <2>2, PostEnds
<1> QED
  BY <1>1, <1>4, <1>5

-----------------------------------------------------------------------------
(* The theorems. *)

LEMMA NextInv ==
  ASSUME Inv, [Next]_vars
  PROVE  Inv'
<1>1. CASE Next
  <2>1. CASE EditElsewhere \/ RecordElsewhere \/ DeleteElsewhere
    BY <2>1, ChangesElsewhere
  <2>2. CASE Close \/ Open \/ Break \/ Leave \/ Enter \/ Finish
    BY <2>2, CloseStep, OpenStep, BreakStep, LeftStep, EnterStep
  <2>3. CASE Mount \/ Submit \/ \E f \in Fields : Type(f)
    BY <2>3, MountStep, SubmitStep, TypeStep
  <2>4. CASE \E p \in posts : \/ Serve(p) \/ Refused(p) \/ IsLost(p)
                              \/ Succeeds(p) \/ Settles(p)
    BY <2>4, ServeStep, RefusedStep, IsLostStep, SucceedsStep, SettlesStep
  <2>5. CASE Refetch \/ ReloadLatest \/ QueryArrives \/ QueryFails
    BY <2>5, RefetchStep, ReloadLatestStep, QueryArrivesStep, QueryFailsStep
  <2> QED
    BY <1>1, <2>1, <2>2, <2>3, <2>4, <2>5 DEF Next
<1>2. CASE UNCHANGED vars
  <2>1. row' = row /\ UNCHANGED pageVars
    BY <1>2 DEF vars
  <2> QED
    BY <2>1, RowRests, ElsewhereStep DEF Inv
<1> QED
  BY <1>1, <1>2

LEMMA InitInv ==
  ASSUME Init
  PROVE  Inv
<1>1. row \in Rows
  <2>1. /\ [f \in Fields |-> 0] \in Values
        /\ [[f \in Fields |-> 0] EXCEPT !["answers"] = 1] \in Values
    BY DEF Values
  <2>2. row.at \in Values /\ row.rev = 0 /\ row.arev = 0 /\ row.logs = FALSE
    BY <2>1 DEF Init
  <2>3. row = [at |-> row.at, rev |-> 0, arev |-> 0, logs |-> FALSE]
    BY <2>2 DEF Init
  <2>4. \A a \in Values : [at |-> a, rev |-> 0, arev |-> 0, logs |-> FALSE] \in Rows
    BY DEF Rows
  <2> HIDE DEF Values
  <2> QED
    BY <2>2, <2>3, <2>4
<1>2. NoWork \in [Fields -> {0, 1, None}]
  BY DEF NoWork
<1>3. Typed
  BY <1>1, <1>2 DEF Init, Typed
<1>4. PastOK /\ FormOK /\ HeldOK /\ PostsOK /\ WorkOK
  BY DEF Init, PastOK, FormOK, HeldOK, PostsOK, WorkOK
<1> QED
  BY <1>3, <1>4 DEF Inv

(* GoalForm, GoalEditPage and the PATCHes in flight, over every behaviour:  *)
(* what the tab holds is what has been changed since the row it is compared *)
(* with, and every row it holds is a past state of the goal.                *)
THEOREM EditFormInvariant == Spec => []Inv
<1>1. Init => Inv
  BY InitInv
<1>2. Inv /\ [Next]_vars => Inv'
  BY NextInv
<1> QED
  BY <1>1, <1>2, PTL DEF Spec

(* What the user has typed stays on the page until it is saved or given up, *)
(* through checks of the session, conflicts, lost answers and reloads.      *)
THEOREM TypedStays == Spec => []TypedEditsAreKept
<1>1. ASSUME Inv PROVE TypedEditsAreKept
  <2> DEFINE copies == (IF form # None THEN {form.values} ELSE {})
                       \union (IF held # None THEN {held.values} ELSE {})
                       \union {p.values : p \in {q \in posts : q.heard}}
  <2>1. ASSUME NEW f \in Fields, work[f] # None PROVE copies # {}
    <3>1. work # NoWork
      BY <2>1 DEF NoWork
    <3> QED
      BY <1>1, <3>1 DEF Inv, WorkOK
  <2>2. ASSUME NEW values \in copies PROVE \E r \in Rows : work = Differences(values, r)
    <3>1. CASE form # None /\ values = form.values
      BY <1>1, <3>1, Typing DEF Inv, FormOK, Forms
    <3>2. CASE held # None /\ values = held.values
      BY <1>1, <3>2, Typing DEF Inv, HeldOK, Memories
    <3>3. ASSUME NEW p \in posts, p.heard, values = p.values
          PROVE  \E r \in Rows : work = Differences(values, r)
      BY <1>1, <3>3 DEF Inv, Typed, Posts, PostsOK, HeardOK, SentOK
    <3> QED
      BY <3>1, <3>2, <3>3
  <2>3. ASSUME NEW values \in copies, NEW f \in Fields, work[f] # None
        PROVE  values[f] = work[f]
    BY <2>2, <2>3 DEF Differences
  <2> QED
    BY <2>1, <2>3 DEF TypedEditsAreKept
<1> QED
  BY <1>1, EditFormInvariant, PTL

Counted == changes \in Nat

LEMMA ChangesAreCounted == Spec => []Counted
<1>1. Init => Counted
  BY DEF Init, Counted
<1>2. Counted /\ [Next]_vars => Counted'
  <2> SUFFICES ASSUME Counted, [Next]_vars PROVE changes' = changes \/ changes' = changes + 1
    BY DEF Counted
  <2>1. CASE EditElsewhere \/ RecordElsewhere \/ DeleteElsewhere
    BY <2>1 DEF EditElsewhere, RecordElsewhere, DeleteElsewhere, Elsewhere
  <2>2. CASE Close \/ Open \/ Break \/ Leave \/ Enter \/ Finish
    BY <2>2 DEF Close, Open, Break, Leave, Enter, Finish, bounds
  <2>3. CASE Mount \/ Submit \/ \E f \in Fields : Type(f)
    BY <2>3 DEF Mount, Submit, Type, bounds
  <2>4. CASE \E p \in posts : \/ Serve(p) \/ Refused(p) \/ IsLost(p)
                              \/ Succeeds(p) \/ Settles(p)
    BY <2>4 DEF Serve, Refused, IsLost, Fails, Succeeds, Settles, bounds
  <2>5. CASE Refetch \/ ReloadLatest \/ QueryArrives \/ QueryFails
    BY <2>5 DEF Refetch, ReloadLatest, QueryArrives, QueryFails, bounds
  <2>6. CASE UNCHANGED vars
    BY <2>6 DEF vars, bounds
  <2> QED
    BY <2>1, <2>2, <2>3, <2>4, <2>5, <2>6 DEF Next
<1> QED
  BY <1>1, <1>2, PTL DEF Spec

(* What a request of the tab is applied by is the serving of that request. *)
LEMMA AppliedIsServed ==
  ASSUME Counted, [Next]_vars, NEW p \in posts, Applies(p)
  PROVE  Serve(p) /\ Verdict(p) = "saved"
<1>1. /\ p \notin posts' /\ row' # row /\ changes' = changes
  BY DEF Applies
<1>2. PICK q \in posts : Serve(q)
  <2>1. ~(EditElsewhere \/ RecordElsewhere \/ DeleteElsewhere)
    BY <1>1 DEF Counted, EditElsewhere, RecordElsewhere, DeleteElsewhere, Elsewhere
  <2> QED
    BY <1>1, <2>1
       DEF Next, vars, Close, Open, Break, Leave, Enter, Finish, Mount, Submit, Type, Refused,
           IsLost, Fails, Succeeds, Settles, Refetch, ReloadLatest, QueryArrives, QueryFails
<1>3. q = p /\ Verdict(p) = "saved"
  BY <1>1, <1>2 DEF Serve
<1> QED
  BY <1>2, <1>3

(* A save changes only what its author has typed, and nothing that was      *)
(* changed elsewhere since the author last looked: the two revisions tell   *)
(* of every such change, and PATCH compares the one that tells of it.       *)
THEOREM OthersAreKept == Spec => OthersEditsSurvive
<1>1. ASSUME Inv, Counted, [Next]_vars, NEW p \in posts, Applies(p),
             NEW f \in Fields, row'.at[f] # row.at[f]
      PROVE  \/ row'.at[f] = p.work[f] /\ row.at[f] = p.baseline.at[f]
             \/ f = "answers" /\ row'.at["amount"] # row.at["amount"]
  <2>1. row' = Patched(row, p.patch) /\ Verdict(p) = "saved"
    BY <1>1, AppliedIsServed DEF Serve
  <2>2. /\ row # None /\ row \in Rows /\ p \in Posts /\ p.patch \in Patches
        /\ p.rev = row.rev /\ p.arev \in {None, row.arev}
    BY <1>1, <2>1, Typing DEF Verdict, Inv, Typed, Posts
  <2>3. SentOK(p) /\ Newer(p.baseline, row) /\ p.baseline \in Rows
    BY <1>1, <2>2 DEF Inv, PostsOK, PastOK, Past, Posts
  <2>4. CASE f \in DOMAIN p.patch /\ row'.at[f] = p.patch[f]
    <3>1. row'.at[f] = p.work[f]
      BY <2>3, <2>4 DEF SentOK, Differences
    <3>2. row.at[f] = p.baseline.at[f]
      <4>1. p.baseline.rev = row.rev
        BY <2>2, <2>3 DEF SentOK
      <4>2. f = "answers" => p.baseline.arev = row.arev
        <5>1. p.baseline.arev # None
          BY <2>3, EditFormAssumption DEF Rows
        <5> QED
          BY <2>2, <2>3, <2>4, <5>1 DEF SentOK
      <4> QED
        BY <2>3, <4>1, <4>2 DEF Newer, Fields
    <3> QED
      BY <3>1, <3>2
  <2> QED
    BY <1>1, <2>1, <2>2, <2>4, PatchedRow
<1>2. Inv /\ Counted /\ [Next]_vars =>
        [\A p \in posts : Applies(p) =>
           \A f \in {g \in Fields : row'.at[g] # row.at[g]} :
             \/ row'.at[f] = p.work[f] /\ row.at[f] = p.baseline.at[f]
             \/ f = "answers" /\ row'.at["amount"] # row.at["amount"]]_vars
  BY <1>1
<1> QED
  BY <1>2, EditFormInvariant, ChangesAreCounted, PTL DEF Spec, OthersEditsSurvive
=============================================================================
