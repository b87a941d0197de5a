-------------------------- MODULE EvaluationProofs --------------------------
(***************************************************************************)
(* Proofs about Evaluation for any accounts, goals, slots, calendar and    *)
(* policy.                                                                 *)
(*                                                                         *)
(* A card is covered by consent because of what a transaction knows while  *)
(* it holds its two locks: the participation it has read is still there or *)
(* has been purged, and nobody else stores a card for its goal (Steady).   *)
(* From one transaction of a capture to the next only the number of the    *)
(* participation and the snapshot are kept (CaptureOK): participation      *)
(* numbers are never given twice (PartOK).                                 *)
(***************************************************************************)
EXTENDS Evaluation, FiniteSetTheorems, TLAPS

Locked(s) == pc[s] \in {"row", "locked", "read"}

Storing(s) == pc[s] \in {"begin", "row", "locked", "read"} /\ req[s].kind = "store"

(* A slot is where its kind of request can be. *)
SlotOK(s) ==
  /\ pc[s] # "idle" => req[s] \in Requests
  /\ pc[s] \in {"snapshot", "clock"} => req[s].kind = "capture"
  /\ pc[s] \in {"locked", "read"} => Owned(req[s].user, req[s].goal)

(* What a capture has kept is a participation made before and a snapshot    *)
(* taken while that participation lasted.                                   *)
CaptureOK(s) ==
  /\ pc[s] \in {"snapshot", "clock"} \/ Storing(s) =>
       memo[s] \in Memos /\ memo[s].ticket <= joins
  /\ pc[s] = "clock" => memo[s].row \in Rows
  /\ Storing(s) =>
       /\ memo[s].row \in Rows /\ memo[s].at <= now
       /\ Capturable(memo[s].row.recs, DayOf[memo[s].at])
       /\ \A u \in Users : part[u] # Nobody /\ part[u].id = memo[s].ticket =>
            part[u].joined <= memo[s].at

(* What was read under the locks is true until they go, purges apart. *)
Steady(s) ==
  pc[s] = "read" =>
    /\ seen[s] \in Views /\ seen[s].at <= now
    /\ Storing(s) => memo[s].at <= seen[s].at
    /\ \A c \in CardsOf(req[s].goal) : c.issued <= seen[s].at
    /\ IF seen[s].part = Nobody
       THEN part[req[s].user] # Nobody => ~Live(part[req[s].user], seen[s].at)
       ELSE /\ Live(seen[s].part, seen[s].at) /\ seen[s].part.id <= joins
            /\ part[req[s].user] \in {seen[s].part, Nobody}
            /\ seen[s].part.goal = req[s].goal =>
                 \A c \in CardsOf(req[s].goal) :
                   Visible(c, seen[s].at) /\ c.anchor = DayOf[seen[s].at] => c \in seen[s].cards

OneHolder ==
  \A s, t \in Reqs : Locked(s) /\ Locked(t) /\ req[s].user = req[t].user => s = t

PartOK ==
  /\ \A u \in Users : part[u] # Nobody =>
       /\ OwnerOf[part[u].goal] = u
       /\ part[u].id <= joins /\ part[u].joined <= now
       /\ part[u].expires = part[u].joined + Retention
  /\ \A u, v \in Users : part[u] # Nobody /\ part[v] # Nobody /\ part[u].id = part[v].id => u = v

CardOK ==
  /\ \A c \in cards : c.issued <= now /\ c.anchor = DayOf[c.issued]
  /\ \A c, d \in cards : c.goal = d.goal /\ c.anchor = d.anchor => c = d

SlotsOK == \A s \in Reqs : SlotOK(s) /\ CaptureOK(s) /\ Steady(s)

Inv == TypeOK /\ SlotsOK /\ OneHolder /\ PartOK /\ CardOK /\ ConsentCoversCards

-----------------------------------------------------------------------------
(* What a step must leave alone for the other slots. *)

Still(s) ==
  /\ pc'[s] = pc[s] /\ req'[s] = req[s] /\ seen'[s] = seen[s] /\ memo'[s] = memo[s]
  /\ pc[s] \in {"locked", "read"} => goal'[req[s].goal] # Gone
  /\ pc[s] = "read" =>
       /\ part'[req[s].user] \in {part[req[s].user], Nobody}
       /\ \A c \in cards' : c.goal = req[s].goal => c \in cards

Onward ==
  /\ now <= now' /\ joins <= joins'
  /\ \A u \in Users : part'[u] # Nobody => part'[u] = part[u] \/ part'[u].id > joins

LEMMA RequestFields ==
  ASSUME NEW q \in Requests
  PROVE  /\ q.user \in Users /\ q.goal \in Goals
         /\ q.kind \in {"join", "withdraw", "capture", "store"}
         /\ q.kind \in {"capture", "store"} => q.rev \in Nat
BY DEF Requests

(* A slot that does not move keeps what it knows. *)
LEMMA StillKeeps ==
  ASSUME Inv, TypeOK', Onward, NEW s \in Reqs, Still(s)
  PROVE  SlotOK(s)' /\ CaptureOK(s)' /\ Steady(s)'
<1>1. SlotOK(s) /\ CaptureOK(s) /\ Steady(s)
  BY DEF Inv, SlotsOK
<1>2. SlotOK(s)'
  BY <1>1 DEF SlotOK, Still, Owned
<1>3. /\ now \in Int /\ now' \in Int /\ joins \in Int /\ joins' \in Int
      /\ part \in [Users -> Participations \cup {Nobody}]
      /\ cards \subseteq Cards
  BY DEF Inv, TypeOK, Instants
<1>4. CaptureOK(s)'
  <2>1. pc[s] \in {"snapshot", "clock"} \/ Storing(s) => memo[s].ticket \in Int
    BY <1>1 DEF CaptureOK, Memos, Tickets
  <2>2. Storing(s) => memo[s].at \in Int
    BY <1>1 DEF CaptureOK, Memos, Instants
  <2>3. Storing(s)' = Storing(s)
    BY DEF Storing, Still
  <2>4. ASSUME Storing(s), NEW u \in Users, part'[u] # Nobody, part'[u].id = memo[s].ticket
        PROVE  part'[u].joined <= memo[s].at
    <3>1. memo[s].ticket <= joins
      BY <1>1, <2>4 DEF CaptureOK
    <3>2. part'[u] = part[u]
      BY <1>3, <2>1, <2>4, <3>1 DEF Onward
    <3> QED
      BY <1>1, <2>4, <3>2 DEF CaptureOK
  <2>5. pc'[s] \in {"snapshot", "clock"} \/ Storing(s)' =>
          memo'[s] \in Memos /\ memo'[s].ticket <= joins'
    BY <1>1, <1>3, <2>1, <2>3 DEF CaptureOK, Still, Onward
  <2>6. Storing(s)' =>
          /\ memo'[s].row \in Rows /\ memo'[s].at <= now'
          /\ Capturable(memo'[s].row.recs, DayOf[memo'[s].at])
    BY <1>1, <1>3, <2>2, <2>3 DEF CaptureOK, Still, Onward
  <2> QED
    BY <1>1, <2>3, <2>4, <2>5, <2>6 DEF CaptureOK, Still
<1>5. Steady(s)'
  <2> SUFFICES ASSUME pc'[s] = "read"
               PROVE  Steady(s)'
    BY DEF Steady
  <2>1. pc[s] = "read" /\ seen[s] \in Views /\ seen[s].at <= now
    BY <1>1 DEF Steady, Still
  <2>2. seen[s].at \in Int
    BY <2>1 DEF Views, Instants
  <2>3. seen'[s] = seen[s] /\ req'[s] = req[s] /\ memo'[s] = memo[s]
    BY DEF Still
  <2>4. seen'[s].at <= now'
    BY <1>3, <2>1, <2>2, <2>3 DEF Onward
  <2>5. Storing(s)' => memo'[s].at <= seen'[s].at
    BY <1>1, <2>1, <2>3 DEF Steady, Storing, Still
  <2>6. part'[req[s].user] \in {part[req[s].user], Nobody}
    BY <2>1 DEF Still
  <2>7. \A c \in CardsOf(req[s].goal)' : c \in CardsOf(req[s].goal)
    BY <2>1, <2>3 DEF Still, CardsOf
  <2>8. seen[s].part # Nobody => seen[s].part.id <= joins'
    <3>1. seen[s].part # Nobody => seen[s].part.id \in Int /\ seen[s].part.id <= joins
      BY <1>1, <2>1 DEF Steady, Views, Participations, Tickets
    <3> QED
      BY <1>3, <3>1 DEF Onward
  <2> QED
    BY <1>1, <2>1, <2>3, <2>4, <2>5, <2>6, <2>7, <2>8 DEF Steady, Live, Visible
<1> QED
  BY <1>2, <1>4, <1>5

-----------------------------------------------------------------------------
(* Types. *)

LEMMA AnswerType ==
  ASSUME TypeOK, NEW r \in Reqs, Answer(r),
         goal' \in [Goals -> Rows \cup {Gone}],
         part' \in [Users -> Participations \cup {Nobody}],
         cards' \subseteq Cards, joins' \in 0 .. MaxJoins, told' \subseteq Cards
  PROVE  TypeOK'
BY DEF TypeOK, Answer

LEMMA RefuseType ==
  ASSUME TypeOK, NEW r \in Reqs, Refuse(r)
  PROVE  TypeOK'
BY AnswerType DEF Refuse, tables, TypeOK

LEMMA SubmitType ==
  ASSUME TypeOK, NEW r \in Reqs, NEW q \in Requests, Submit(r, q)
  PROVE  TypeOK'
BY DEF TypeOK, Submit, tables, bounds

LEMMA ConsentRequest ==
  ASSUME NEW k \in {"join", "withdraw"}, NEW u \in Users, NEW g \in Goals
  PROVE  [kind |-> k, user |-> u, goal |-> g] \in Requests
BY DEF Requests

LEMMA CaptureRequest ==
  ASSUME TypeOK, NEW u \in Users, NEW g \in Goals, goal[g] # Gone
  PROVE  [kind |-> "capture", user |-> u, goal |-> g, rev |-> goal[g].rev] \in Requests
<1>1. goal[g].rev \in Nat
  BY DEF TypeOK, Rows
<1> QED
  BY <1>1 DEF Requests

LEMMA ReadPartType ==
  ASSUME TypeOK, NEW u \in Users, NEW at
  PROVE  ReadPart(u, at) \in Participations \cup {Nobody}
BY DEF TypeOK, ReadPart

LEMMA ReadCardsType ==
  ASSUME TypeOK, NEW u, NEW g, NEW at
  PROVE  ReadCards(u, g, at) \in SUBSET Cards
BY DEF TypeOK, ReadCards, Latest, CardsOf

LEMMA LockType ==
  ASSUME Inv, NEW r \in Reqs, LockUser(r) \/ LockRow(r) \/ ReadState(r)
  PROVE  TypeOK'
<1> USE DEF Inv
<1>1. CASE LockUser(r)
  BY <1>1 DEF LockUser, TypeOK, tables, bounds
<1>2. CASE LockRow(r) /\ Owned(req[r].user, req[r].goal)
  BY <1>2 DEF LockRow, TypeOK, tables, bounds
<1>3. CASE LockRow(r) /\ ~Owned(req[r].user, req[r].goal)
  BY <1>3, RefuseType DEF LockRow
<1>4. CASE ReadState(r)
  <2>1. req[r] \in Requests
    BY <1>4 DEF ReadState, SlotsOK, SlotOK
  <2>2. req[r].user \in Users
    BY <2>1, RequestFields
  <2> DEFINE view == [at |-> now, part |-> ReadPart(req[r].user, now),
                      cards |-> ReadCards(req[r].user, req[r].goal, now)]
  <2>3. view \in Views
    BY <2>2, ReadPartType, ReadCardsType DEF Views, TypeOK
  <2>4. seen' = [seen EXCEPT ![r] = view]
    BY <1>4 DEF ReadState
  <2> HIDE DEF view
  <2>5. seen' \in [Reqs -> Views \cup {Nothing}]
    BY <2>3, <2>4 DEF TypeOK
  <2> QED
    BY <1>4, <2>5 DEF ReadState, TypeOK, tables, bounds
<1> QED
  BY <1>1, <1>2, <1>3, <1>4

LEMMA ConsentType ==
  ASSUME Inv, NEW r \in Reqs, JoinCommit(r) \/ WithdrawCommit(r)
  PROVE  TypeOK'
<1> USE DEF Inv
<1>0. pc[r] = "read" /\ req[r] \in Requests /\ seen[r] \in Views
  BY DEF JoinCommit, WithdrawCommit, SlotsOK, SlotOK, Steady
<1>1. req[r].user \in Users /\ req[r].goal \in Goals /\ seen[r].at \in Instants
  BY <1>0, RequestFields DEF Views
<1>2. CASE JoinCommit(r) /\ seen[r].part # Nobody
  BY <1>2, RefuseType DEF JoinCommit
<1>3. CASE JoinCommit(r) /\ seen[r].part = Nobody
  <2> DEFINE p == NewParticipation(req[r].goal, seen[r].at)
  <2>1. /\ joins < MaxJoins /\ joins' = joins + 1 /\ cards' \subseteq cards
        /\ part' = [part EXCEPT ![req[r].user] = p] /\ Answer(r)
        /\ goal' = goal /\ told' = told
    BY <1>3 DEF JoinCommit, WithoutCardsOf
  <2>2. joins' \in 0 .. MaxJoins /\ joins + 1 \in Tickets
    BY <2>1, EvaluationAssumption DEF TypeOK, Tickets
  <2>3. seen[r].at + Retention \in Nat /\ seen[r].at + Retention > seen[r].at
    BY <1>1, EvaluationAssumption DEF Instants
  <2>4. p \in Participations
    BY <1>1, <2>2, <2>3 DEF Participations, NewParticipation
  <2> HIDE DEF p
  <2> QED
    BY <2>1, <2>2, <2>4, AnswerType DEF TypeOK
<1>4. CASE WithdrawCommit(r)
  <2>1. /\ Answer(r) /\ goal' = goal /\ joins' = joins /\ told' = told
        /\ cards' \subseteq cards
        /\ part' \in [Users -> Participations \cup {Nobody}]
    BY <1>4 DEF WithdrawCommit, WithoutCardsOf, TypeOK
  <2> QED
    BY <2>1, AnswerType DEF TypeOK
<1> QED
  BY <1>2, <1>3, <1>4

(* The card about to be stored, under its participation. *)
LEMMA NewCardFits ==
  ASSUME Inv, NEW r \in Reqs, pc[r] = "read", req[r].kind = "store", Ready(r),
         SameTicket(r), req[r].goal \in GoalOf(req[r].user)
  PROVE  LET c == NewCard(r)  p == part[req[r].user] IN
         /\ c \in Cards /\ p # Nobody /\ p = seen[r].part
         /\ c.goal = req[r].goal /\ c.anchor = DayOf[memo[r].at] /\ c.issued = memo[r].at
         /\ OwnerOf[c.goal] = req[r].user /\ c.asked = p.id /\ p.goal = c.goal
         /\ p.joined <= c.issued /\ c.issued < c.expires /\ c.expires <= p.expires
<1> USE DEF Inv
<1>1. /\ req[r] \in Requests /\ Owned(req[r].user, req[r].goal)
      /\ memo[r] \in Memos /\ memo[r].row \in Rows /\ memo[r].at <= seen[r].at
      /\ seen[r] \in Views
  BY DEF SlotsOK, SlotOK, CaptureOK, Steady, Storing
<1>2. req[r].user \in Users /\ req[r].goal \in Goals /\ req[r].rev \in Nat
  BY <1>1, RequestFields
<1>3. memo[r].at \in Instants /\ seen[r].at \in Instants /\ memo[r].ticket \in Tickets
  BY <1>1 DEF Memos, Views
<1>4. part[req[r].user] # Nobody
  BY DEF GoalOf
<1>5. part[req[r].user] = seen[r].part /\ Live(seen[r].part, seen[r].at)
  BY <1>4 DEF SlotsOK, Steady, Ready
<1>6. seen[r].part \in Participations
  BY <1>1, <1>4, <1>5 DEF Views
<1>7. seen[r].part.expires \in Nat /\ seen[r].part.expires > seen[r].at
  BY <1>5, <1>6 DEF Live, Participations
<1> DEFINE e == Least(memo[r].at + Retention, seen[r].part.expires)
<1>8. e \in Nat /\ e > memo[r].at /\ e <= seen[r].part.expires
  BY <1>1, <1>3, <1>7, EvaluationAssumption DEF Least, Instants
<1>9. DayOf[memo[r].at] \in Days
  BY <1>3, EvaluationAssumption
<1>10. memo[r].row.arev \in Nat /\ memo[r].row.recs \in Records
  BY <1>1 DEF Rows
<1>11. Prefix(memo[r].row.recs, DayOf[memo[r].at]) \in Records
  BY <1>10 DEF Prefix, Records
<1>12. NewCard(r) = [goal |-> req[r].goal, anchor |-> DayOf[memo[r].at],
         issued |-> memo[r].at, expires |-> e, rev |-> req[r].rev,
         arev |-> memo[r].row.arev,
         prefix |-> Prefix(memo[r].row.recs, DayOf[memo[r].at]), asked |-> memo[r].ticket]
  BY DEF NewCard
<1> HIDE DEF e
<1>13. NewCard(r) \in Cards
  BY <1>2, <1>3, <1>8, <1>9, <1>10, <1>11, <1>12 DEF Cards
<1>14. seen[r].part.joined <= memo[r].at
  BY <1>2, <1>4, <1>5 DEF SlotsOK, CaptureOK, Storing, SameTicket
<1> QED
  BY <1>1, <1>4, <1>5, <1>8, <1>12, <1>13, <1>14 DEF Owned, SameTicket, Ready

LEMMA CaptureType ==
  ASSUME Inv, NEW r \in Reqs,
         CapturePreflight(r) \/ CaptureSelect(r) \/ CaptureClock(r) \/ CaptureStore(r)
  PROVE  TypeOK'
<1> USE DEF Inv
<1>0. /\ req[r] \in Requests
      /\ pc[r] = "read" => seen[r] \in Views
  BY DEF CapturePreflight, CaptureSelect, CaptureClock, CaptureStore, SlotsOK, SlotOK, Steady
<1>1. req[r].goal \in Goals /\ req[r].user \in Users
  BY <1>0, RequestFields
<1>2. ASSUME NEW anchor, pc[r] = "read", Replay(r, anchor)
      PROVE  TypeOK'
  <2>1. OfTheDay(r, anchor) \subseteq Cards
    BY <1>0, <1>2 DEF OfTheDay, Views
  <2> QED
    BY <1>2, <2>1, AnswerType DEF Replay, tables, TypeOK
<1>3. CASE CapturePreflight(r)
  <2>1. CASE Refuse(r)
    BY <2>1, RefuseType
  <2>2. CASE Replay(r, DayOf[seen[r].at])
    BY <1>2, <1>3, <2>2 DEF CapturePreflight
  <2>3. CASE ~Refuse(r) /\ ~Replay(r, DayOf[seen[r].at])
    <3> DEFINE kept == [ticket |-> seen[r].part.id, row |-> Gone, at |-> 0]
    <3>1. /\ Ready(r) /\ memo' = [memo EXCEPT ![r] = kept]
          /\ seen' = [seen EXCEPT ![r] = Nothing] /\ pc' = [pc EXCEPT ![r] = "snapshot"]
          /\ UNCHANGED <<now, tables, bounds, req, told>>
      BY <1>3, <2>3 DEF CapturePreflight
    <3>2. seen[r].part.id \in Tickets
      BY <1>0, <1>3, <3>1 DEF CapturePreflight, Ready, Views, Participations
    <3>3. kept \in Memos
      BY <3>2, EvaluationAssumption DEF Memos, Instants
    <3> HIDE DEF kept
    <3> QED
      BY <3>1, <3>3 DEF TypeOK, tables, bounds
  <2> QED
    BY <2>1, <2>2, <2>3
<1>4. CASE CaptureSelect(r)
  <2>1. CASE Refuse(r)
    BY <2>1, RefuseType
  <2>2. CASE ~Refuse(r)
    <3>1. /\ goal[req[r].goal] # Gone /\ memo' = [memo EXCEPT ![r].row = goal[req[r].goal]]
          /\ pc' = [pc EXCEPT ![r] = "clock"]
          /\ UNCHANGED <<now, tables, bounds, req, seen, told>>
      BY <1>4, <2>2 DEF CaptureSelect, Owned
    <3>2. memo[r] \in Memos
      BY <1>4 DEF CaptureSelect, SlotsOK, CaptureOK
    <3>3. [memo[r] EXCEPT !.row = goal[req[r].goal]] \in Memos
      BY <1>1, <3>2 DEF Memos, TypeOK
    <3> QED
      BY <3>1, <3>3 DEF TypeOK, tables, bounds
  <2> QED
    BY <2>1, <2>2
<1>5. CASE CaptureClock(r)
  <2>1. CASE Refuse(r)
    BY <2>1, RefuseType
  <2>2. CASE ~Refuse(r)
    <3>1. /\ memo' = [memo EXCEPT ![r].at = now] /\ req' = [req EXCEPT ![r].kind = "store"]
          /\ pc' = [pc EXCEPT ![r] = "begin"]
          /\ UNCHANGED <<now, tables, bounds, seen, told>>
      BY <1>5, <2>2 DEF CaptureClock
    <3>2. memo[r] \in Memos /\ req[r].kind = "capture"
      BY <1>5 DEF CaptureClock, SlotsOK, CaptureOK, SlotOK
    <3>3. [memo[r] EXCEPT !.at = now] \in Memos
      BY <3>2 DEF Memos, TypeOK
    <3>4. [req[r] EXCEPT !.kind = "store"] \in Requests
      BY <1>0, <3>2 DEF Requests
    <3> QED
      BY <3>1, <3>3, <3>4 DEF TypeOK, tables, bounds
  <2> QED
    BY <2>1, <2>2
<1>6. CASE CaptureStore(r)
  <2>1. CASE Refuse(r)
    BY <2>1, RefuseType
  <2>2. CASE Replay(r, DayOf[memo[r].at])
    BY <1>2, <1>6, <2>2 DEF CaptureStore
  <2>3. CASE ~Refuse(r) /\ ~Replay(r, DayOf[memo[r].at])
    <3>1. /\ Ready(r) /\ SameTicket(r) /\ req[r].goal \in GoalOf(req[r].user)
          /\ cards' = WithoutCardsOf({req[r].goal}) \cup Kept(req[r].goal, seen[r].at)
                       \cup {NewCard(r)}
          /\ told' = told \cup {NewCard(r)}
          /\ Answer(r) /\ UNCHANGED <<goal, part, joins>>
      BY <1>6, <2>3 DEF CaptureStore
    <3>2. NewCard(r) \in Cards
      BY <1>6, <3>1, NewCardFits DEF CaptureStore
    <3>3. cards' \subseteq Cards
      BY <3>1, <3>2 DEF WithoutCardsOf, Kept, Latest, CardsOf, TypeOK
    <3> QED
      BY <3>1, <3>2, <3>3, AnswerType DEF TypeOK
  <2> QED
    BY <2>1, <2>2, <2>3
<1> QED
  BY <1>3, <1>4, <1>5, <1>6

LEMMA WorldType ==
  ASSUME Inv, Tick \/ Purge \/ (\E g \in Goals : Record(g) \/ Edit(g) \/ Delete(g))
  PROVE  TypeOK'
<1> USE DEF Inv
<1>1. CASE Tick
  BY <1>1, EvaluationAssumption DEF Tick, TypeOK, tables, bounds, Instants
<1>2. CASE Purge
  BY <1>2 DEF Purge, TypeOK, bounds
<1>3. ASSUME NEW g \in Goals, NEW row \in Rows, Change(g, row)
      PROVE  TypeOK'
  BY <1>3, EvaluationAssumption DEF Change, TypeOK
<1>4. ASSUME NEW g \in Goals, Record(g)
      PROVE  TypeOK'
  <2>1. PICK d \in {DayOf[now], DayOf[now] - 1} \cap Days, status \in {"DONE", "SKIPPED"} :
          Change(g, [goal[g] EXCEPT !.recs[d] = status])
    BY <1>4 DEF Record
  <2>2. goal[g] \in Rows
    BY <2>1 DEF Change, TypeOK
  <2>3. [goal[g] EXCEPT !.recs[d] = status] \in Rows
    BY <2>2 DEF Rows, Records
  <2> QED
    BY <1>3, <2>1, <2>3
<1>5. ASSUME NEW g \in Goals, Edit(g)
      PROVE  TypeOK'
  <2>1. goal[g] \in Rows
    BY <1>5 DEF Edit, Change, TypeOK
  <2>2. /\ [goal[g] EXCEPT !.rev = goal[g].rev + 1] \in Rows
        /\ [goal[g] EXCEPT !.arev = goal[g].arev + 1] \in Rows
    BY <2>1 DEF Rows
  <2> QED
    BY <1>3, <1>5, <2>2 DEF Edit
<1>6. ASSUME NEW g \in Goals, Delete(g)
      PROVE  TypeOK'
  BY <1>6 DEF Delete, WithoutCardsOf, TypeOK, bounds
<1> QED
  BY <1>1, <1>2, <1>4, <1>5, <1>6

LEMMA TypeStep ==
  ASSUME Inv, Next
  PROVE  TypeOK'
<1>1. ASSUME NEW r \in Reqs, SubmitConsent(r) \/ SubmitCapture(r)
      PROVE  TypeOK'
  BY <1>1, SubmitType, ConsentRequest, CaptureRequest DEF SubmitConsent, SubmitCapture, Inv
<1>2. ASSUME NEW r \in Reqs, Work(r)
      PROVE  TypeOK'
  BY <1>2, LockType, ConsentType, CaptureType DEF Work
<1>3. ASSUME NEW r \in Reqs, Abort(r)
      PROVE  TypeOK'
  BY <1>3, RefuseType DEF Abort, Inv
<1> QED
  BY <1>1, <1>2, <1>3, WorldType DEF Next

-----------------------------------------------------------------------------
(* Steps that leave the tables alone. *)

Aside(r) ==
  \A s \in Reqs : s # r =>
    pc'[s] = pc[s] /\ req'[s] = req[s] /\ seen'[s] = seen[s] /\ memo'[s] = memo[s]

Quiet == goal' = goal /\ part' = part /\ cards' = cards /\ joins' = joins /\ now <= now'

LEMMA QuietWorld ==
  ASSUME Inv, TypeOK', Quiet
  PROVE  /\ Onward /\ PartOK' /\ CardOK' /\ ConsentCoversCards'
         /\ \A r \in Reqs : Aside(r) => \A s \in Reqs : s # r => Still(s)
<1> USE DEF Inv
<1>1. /\ now \in Int /\ now' \in Int /\ joins \in Int
      /\ \A u \in Users : part[u] # Nobody => part[u].joined \in Int
      /\ \A c \in cards : c.issued \in Int
  BY DEF TypeOK, Instants, Participations, Cards
<1>2. Onward
  BY <1>1 DEF Quiet, Onward
<1>3. PartOK'
  <2>1. \A u \in Users : part'[u] # Nobody => part'[u].joined <= now'
    BY <1>1 DEF Quiet, PartOK
  <2> QED
    BY <2>1 DEF Quiet, PartOK
<1>4. CardOK'
  <2>1. \A c \in cards' : c.issued <= now'
    BY <1>1 DEF Quiet, CardOK
  <2> QED
    BY <2>1 DEF Quiet, CardOK
<1>5. ConsentCoversCards'
  BY DEF Quiet, ConsentCoversCards
<1>6. ASSUME NEW r \in Reqs, Aside(r), NEW s \in Reqs, s # r
      PROVE  Still(s)
  <2>1. SlotOK(s)
    BY DEF SlotsOK
  <2> QED
    BY <1>6, <2>1 DEF Quiet, Aside, Still, SlotOK, Owned
<1> QED
  BY <1>2, <1>3, <1>4, <1>5, <1>6

LEMMA IdleKnowsNothing ==
  ASSUME NEW r \in Reqs, pc'[r] = "idle"
  PROVE  SlotOK(r)' /\ CaptureOK(r)' /\ Steady(r)' /\ ~Locked(r)'
BY DEF SlotOK, CaptureOK, Steady, Storing, Locked

(* Nobody but r moves, and r does not take the lock of a user. *)
LEMMA HolderKept ==
  ASSUME Inv, NEW r \in Reqs, Aside(r),
         Locked(r)' => Locked(r) /\ req'[r].user = req[r].user
  PROVE  OneHolder'
BY DEF Inv, OneHolder, Locked, Aside

LEMMA QuietStep ==
  ASSUME Inv, TypeOK', Quiet, NEW r \in Reqs, Aside(r),
         SlotOK(r)' /\ CaptureOK(r)' /\ Steady(r)', OneHolder'
  PROVE  Inv'
<1>1. \A s \in Reqs : SlotOK(s)' /\ CaptureOK(s)' /\ Steady(s)'
  BY QuietWorld, StillKeeps
<1> QED
  BY <1>1, QuietWorld DEF Inv, SlotsOK

LEMMA AnswerMoves ==
  ASSUME TypeOK, NEW r \in Reqs, Answer(r)
  PROVE  pc'[r] = "idle" /\ Aside(r) /\ now' = now
BY DEF Answer, Aside, TypeOK

LEMMA QuietAnswer ==
  ASSUME Inv, TypeOK', NEW r \in Reqs, Answer(r),
         UNCHANGED <<tables, joins>>
  PROVE  Inv'
<1>1. pc'[r] = "idle" /\ Aside(r) /\ now' = now
  BY AnswerMoves DEF Inv
<1>2. Quiet
  BY <1>1 DEF Quiet, tables, Inv, TypeOK, Instants
<1>3. SlotOK(r)' /\ CaptureOK(r)' /\ Steady(r)' /\ OneHolder'
  BY <1>1, IdleKnowsNothing, HolderKept
<1> QED
  BY <1>1, <1>2, <1>3, QuietStep

LEMMA RefuseKeeps ==
  ASSUME Inv, NEW r \in Reqs, Refuse(r)
  PROVE  Inv'
BY RefuseType, QuietAnswer DEF Refuse, Inv

LEMMA SubmitKeeps ==
  ASSUME Inv, NEW r \in Reqs, NEW q \in Requests, Submit(r, q), q.kind # "store"
  PROVE  Inv'
<1>1. TypeOK'
  BY SubmitType DEF Inv
<1>2. pc'[r] = "begin" /\ req'[r] = q /\ Aside(r)
  BY DEF Submit, Aside, Inv, TypeOK
<1>3. Quiet
  BY DEF Submit, Quiet, tables, bounds, Inv, TypeOK, Instants
<1>4. SlotOK(r)' /\ CaptureOK(r)' /\ Steady(r)'
  BY <1>2 DEF SlotOK, CaptureOK, Steady, Storing
<1>5. OneHolder'
  BY <1>2, HolderKept DEF Locked
<1> QED
  BY <1>1, <1>2, <1>3, <1>4, <1>5, QuietStep

LEMMA LockUserKeeps ==
  ASSUME Inv, NEW r \in Reqs, LockUser(r)
  PROVE  Inv'
<1>1. TypeOK'
  BY LockType
<1>2. pc'[r] = "row" /\ req'[r] = req[r] /\ memo'[r] = memo[r] /\ Aside(r)
  BY DEF LockUser, Aside, Inv, TypeOK
<1>3. Quiet
  BY DEF LockUser, Quiet, tables, bounds, Inv, TypeOK, Instants
<1>4. SlotOK(r) /\ CaptureOK(r) /\ pc[r] = "begin"
  BY DEF Inv, SlotsOK, LockUser
<1>5. now' = now /\ joins' = joins /\ part' = part
  BY DEF LockUser, tables, bounds
<1>6. SlotOK(r)' /\ CaptureOK(r)' /\ Steady(r)'
  BY <1>2, <1>4, <1>5 DEF SlotOK, CaptureOK, Steady, Storing
<1>7. OneHolder'
  <2>1. \A s \in Reqs : Locked(s) => req[s].user # req[r].user
    BY DEF LockUser, UserFree, HoldsUser, Locked
  <2> QED
    BY <1>2, <2>1 DEF Inv, OneHolder, Locked, Aside
<1> QED
  BY <1>1, <1>2, <1>3, <1>6, <1>7, QuietStep

LEMMA LockRowKeeps ==
  ASSUME Inv, NEW r \in Reqs, LockRow(r)
  PROVE  Inv'
<1>1. CASE ~Owned(req[r].user, req[r].goal)
  BY <1>1, RefuseKeeps DEF LockRow
<1>2. CASE Owned(req[r].user, req[r].goal)
  <2>1. TypeOK'
    BY LockType
  <2>2. pc'[r] = "locked" /\ req'[r] = req[r] /\ memo'[r] = memo[r] /\ Aside(r)
    BY <1>2 DEF LockRow, Aside, Inv, TypeOK
  <2>3. Quiet
    BY <1>2 DEF LockRow, Quiet, tables, bounds, Inv, TypeOK, Instants
  <2>4. SlotOK(r) /\ CaptureOK(r) /\ pc[r] = "row"
    BY DEF Inv, SlotsOK, LockRow
  <2>5. now' = now /\ joins' = joins /\ part' = part /\ goal' = goal
    BY <1>2 DEF LockRow, tables, bounds
  <2>6. SlotOK(r)' /\ CaptureOK(r)' /\ Steady(r)'
    BY <1>2, <2>2, <2>4, <2>5 DEF SlotOK, CaptureOK, Steady, Storing, Owned
  <2>7. OneHolder'
    BY <2>2, <2>4, HolderKept DEF Locked
  <2> QED
    BY <2>1, <2>2, <2>3, <2>6, <2>7, QuietStep
<1> QED
  BY <1>1, <1>2

(* Today's card is the newest one, so that no limit hides it. *)
LEMMA TodayIsRead ==
  ASSUME Inv, NEW u \in Users, NEW g \in Goals, NEW c \in CardsOf(g),
         Visible(c, now), c.anchor = DayOf[now],
         ReadPart(u, now) # Nobody, part[u].goal = g
  PROVE  c \in ReadCards(u, g, now)
<1> DEFINE S == {d \in CardsOf(g) : Visible(d, now)}
           Newer == {d \in S : d.issued > c.issued}
<1>1. c \in cards /\ c \in Cards /\ now \in Instants
  BY DEF Inv, TypeOK, CardsOf
<1>2. ASSUME NEW d \in Newer
      PROVE  FALSE
  <2>1. d \in cards /\ d \in Cards /\ d.goal = g /\ c.goal = g /\ d.issued > c.issued
    BY <1>2 DEF Inv, TypeOK, CardsOf
  <2>2. /\ d.issued <= now /\ d.anchor = DayOf[d.issued] /\ c.anchor = DayOf[c.issued]
        /\ d.issued \in Instants /\ c.issued \in Instants
    BY <1>1, <2>1 DEF Inv, CardOK, Cards
  <2>3. DayOf[c.issued] <= DayOf[d.issued] /\ DayOf[d.issued] <= DayOf[now]
    <3>1. c.issued <= d.issued
      BY <2>1, <2>2 DEF Instants
    <3> QED
      BY <1>1, <2>2, <3>1, EvaluationAssumption
  <2>4. DayOf[c.issued] \in Int /\ DayOf[d.issued] \in Int /\ DayOf[now] \in Int
    BY <1>1, <2>2, EvaluationAssumption DEF Days
  <2>5. d.anchor = c.anchor
    BY <2>2, <2>3, <2>4
  <2>6. d = c
    BY <1>1, <2>1, <2>5 DEF Inv, CardOK
  <2> QED
    BY <2>1, <2>2, <2>6 DEF Instants
<1>3. Newer = {}
  BY <1>2
<1>4. Cardinality(Newer) < MaxSnapshots
  <2>1. Cardinality({}) = 0 /\ 0 < MaxSnapshots
    BY FS_EmptySet, EvaluationAssumption
  <2> QED
    BY <1>3, <2>1
<1>5. c \in S
  OBVIOUS
<1> QED
  BY <1>4, <1>5 DEF ReadCards, Latest

LEMMA ReadStateKeeps ==
  ASSUME Inv, NEW r \in Reqs, ReadState(r)
  PROVE  Inv'
<1> DEFINE u == req[r].user
           g == req[r].goal
<1>1. TypeOK'
  BY LockType
<1>2. /\ pc'[r] = "read" /\ req'[r] = req[r] /\ memo'[r] = memo[r] /\ Aside(r)
      /\ seen'[r] = [at |-> now, part |-> ReadPart(u, now), cards |-> ReadCards(u, g, now)]
  BY DEF ReadState, Aside, Inv, TypeOK
<1>3. Quiet
  BY DEF ReadState, Quiet, tables, bounds, Inv, TypeOK, Instants
<1>4. SlotOK(r) /\ CaptureOK(r) /\ pc[r] = "locked"
  BY DEF Inv, SlotsOK, ReadState
<1>5. now' = now /\ joins' = joins /\ part' = part /\ goal' = goal /\ cards' = cards
  BY DEF ReadState, tables, bounds
<1>6. SlotOK(r)' /\ CaptureOK(r)'
  BY <1>2, <1>4, <1>5 DEF SlotOK, CaptureOK, Storing, Owned
<1>7. u \in Users /\ g \in Goals
  BY <1>4, RequestFields DEF SlotOK
<1>8. seen'[r] \in Views /\ seen'[r].at = now /\ seen'[r].part = ReadPart(u, now)
      /\ seen'[r].cards = ReadCards(u, g, now)
  BY <1>2, <1>7, ReadPartType, ReadCardsType DEF Views, Inv, TypeOK
<1>9. seen'[r].at <= now'
  BY <1>5, <1>8 DEF Inv, TypeOK, Instants
<1>10. Storing(r)' => memo'[r].at <= seen'[r].at
  BY <1>2, <1>4, <1>8 DEF Storing, CaptureOK
<1>11. IF ReadPart(u, now) = Nobody
       THEN part[u] # Nobody => ~Live(part[u], now)
       ELSE Live(part[u], now) /\ part[u] = ReadPart(u, now)
  BY DEF ReadPart
<1>12. ASSUME ReadPart(u, now) # Nobody, ReadPart(u, now).goal = g, NEW c \in CardsOf(g),
              Visible(c, now), c.anchor = DayOf[now]
       PROVE  c \in ReadCards(u, g, now)
  BY <1>7, <1>11, <1>12, TodayIsRead
<1>13. CardsOf(g)' = CardsOf(g) /\ req'[r].goal = g /\ req'[r].user = u
  BY <1>2, <1>5 DEF CardsOf
<1>14. Steady(r)'
  <2>1. ReadPart(u, now) # Nobody => ReadPart(u, now).id <= joins
    BY <1>7, <1>11 DEF Inv, PartOK
  <2>2. \A c \in CardsOf(g) : c.issued <= now
    BY DEF CardsOf, Inv, CardOK
  <2> QED
    BY <1>5, <1>8, <1>9, <1>10, <1>11, <1>12, <1>13, <2>1, <2>2 DEF Steady, Live, Visible
<1>15. OneHolder'
  BY <1>2, <1>4, HolderKept DEF Locked
<1> QED
  BY <1>1, <1>2, <1>3, <1>6, <1>14, <1>15, QuietStep

LEMMA PreflightKeeps ==
  ASSUME Inv, NEW r \in Reqs, CapturePreflight(r)
  PROVE  Inv'
<1>1. TypeOK'
  BY CaptureType
<1>2. CASE Refuse(r)
  BY <1>2, RefuseKeeps
<1>3. CASE Replay(r, DayOf[seen[r].at])
  BY <1>1, <1>3, QuietAnswer DEF Replay
<1>4. CASE ~Refuse(r) /\ ~Replay(r, DayOf[seen[r].at])
  <2>1. /\ pc[r] = "read" /\ req[r].kind = "capture" /\ Ready(r)
        /\ memo' = [memo EXCEPT ![r] = [ticket |-> seen[r].part.id, row |-> Gone, at |-> 0]]
        /\ pc' = [pc EXCEPT ![r] = "snapshot"] /\ seen' = [seen EXCEPT ![r] = Nothing]
        /\ UNCHANGED <<now, tables, bounds, req, told>>
    BY <1>4 DEF CapturePreflight
  <2>2. /\ pc'[r] = "snapshot" /\ req'[r] = req[r] /\ Aside(r)
        /\ memo'[r] = [ticket |-> seen[r].part.id, row |-> Gone, at |-> 0]
    BY <2>1 DEF Aside, Inv, TypeOK
  <2>3. Quiet
    BY <2>1 DEF Quiet, tables, bounds, Inv, TypeOK, Instants
  <2>4. SlotOK(r) /\ Steady(r)
    BY DEF Inv, SlotsOK
  <2>5. seen[r].part \in Participations /\ seen[r].part # Nobody
    BY <2>1, <2>4 DEF Steady, Ready, Views
  <2>6. memo'[r] \in Memos
    BY <2>2, <2>5, EvaluationAssumption DEF Memos, Participations, Instants
  <2>7. OneHolder'
    BY <2>2, HolderKept DEF Locked
  <2>8. seen[r].part.id <= joins'
    BY <2>1, <2>4, <2>5 DEF bounds, Steady
  <2> QED
    BY <1>1, <2>1, <2>2, <2>3, <2>4, <2>6, <2>7, <2>8, QuietStep
       DEF SlotOK, CaptureOK, Steady, Storing
<1> QED
  BY <1>2, <1>3, <1>4

LEMMA SelectKeeps ==
  ASSUME Inv, NEW r \in Reqs, CaptureSelect(r)
  PROVE  Inv'
<1>1. TypeOK'
  BY CaptureType
<1>2. CASE Refuse(r)
  BY <1>2, RefuseKeeps
<1>3. CASE ~Refuse(r)
  <2>1. /\ pc[r] = "snapshot" /\ goal[req[r].goal] # Gone
        /\ memo' = [memo EXCEPT ![r].row = goal[req[r].goal]]
        /\ pc' = [pc EXCEPT ![r] = "clock"]
        /\ UNCHANGED <<now, tables, bounds, req, seen, told>>
    BY <1>3 DEF CaptureSelect, Owned
  <2>2. SlotOK(r) /\ CaptureOK(r)
    BY DEF Inv, SlotsOK
  <2>3. memo[r] \in Memos /\ req[r].goal \in Goals /\ memo[r].ticket <= joins
    BY <2>1, <2>2, RequestFields DEF SlotOK, CaptureOK
  <2>4. goal[req[r].goal] \in Rows
    BY <2>1, <2>3 DEF Inv, TypeOK
  <2>5. /\ pc'[r] = "clock" /\ req'[r] = req[r] /\ Aside(r)
        /\ memo'[r] = [memo[r] EXCEPT !.row = goal[req[r].goal]]
    BY <2>1 DEF Aside, Inv, TypeOK
  <2>6. memo'[r] \in Memos /\ memo'[r].row \in Rows /\ memo'[r].ticket = memo[r].ticket
    BY <2>3, <2>4, <2>5 DEF Memos
  <2>7. Quiet
    BY <2>1 DEF Quiet, tables, bounds, Inv, TypeOK, Instants
  <2>8. OneHolder'
    BY <2>5, HolderKept DEF Locked
  <2>9. SlotOK(r)' /\ CaptureOK(r)' /\ Steady(r)'
    BY <2>1, <2>2, <2>3, <2>5, <2>6 DEF SlotOK, CaptureOK, Steady, Storing, bounds
  <2> QED
    BY <1>1, <2>5, <2>7, <2>8, <2>9, QuietStep
<1> QED
  BY <1>2, <1>3

LEMMA ClockKeeps ==
  ASSUME Inv, NEW r \in Reqs, CaptureClock(r)
  PROVE  Inv'
<1>1. TypeOK'
  BY CaptureType
<1>2. CASE Refuse(r)
  BY <1>2, RefuseKeeps
<1>3. CASE ~Refuse(r)
  <2>1. /\ pc[r] = "clock" /\ Capturable(memo[r].row.recs, DayOf[now])
        /\ memo' = [memo EXCEPT ![r].at = now] /\ req' = [req EXCEPT ![r].kind = "store"]
        /\ pc' = [pc EXCEPT ![r] = "begin"]
        /\ UNCHANGED <<now, tables, bounds, seen, told>>
    BY <1>3 DEF CaptureClock
  <2>2. SlotOK(r) /\ CaptureOK(r)
    BY DEF Inv, SlotsOK
  <2>3. /\ memo[r] \in Memos /\ memo[r].row \in Rows /\ memo[r].ticket <= joins
        /\ req[r] \in Requests /\ req[r].kind = "capture"
    BY <2>1, <2>2 DEF SlotOK, CaptureOK
  <2>4. /\ pc'[r] = "begin" /\ Aside(r)
        /\ req'[r] = [req[r] EXCEPT !.kind = "store"] /\ memo'[r] = [memo[r] EXCEPT !.at = now]
    BY <2>1 DEF Aside, Inv, TypeOK
  <2>5. /\ memo'[r] \in Memos /\ memo'[r].row = memo[r].row
        /\ memo'[r].ticket = memo[r].ticket /\ memo'[r].at = now
    BY <2>3, <2>4 DEF Memos, Inv, TypeOK
  <2>6. req'[r] \in Requests
    BY <2>3, <2>4 DEF Requests
  <2>7. Quiet /\ now' = now /\ part' = part /\ joins' = joins
    BY <2>1 DEF Quiet, tables, bounds, Inv, TypeOK, Instants
  <2>8. OneHolder'
    BY <2>4, HolderKept DEF Locked
  <2>9. now <= now' /\ \A u \in Users : part[u] # Nobody => part[u].joined <= now
    BY <2>7 DEF Inv, PartOK, Quiet
  <2>10. CaptureOK(r)'
    BY <2>1, <2>3, <2>4, <2>5, <2>7, <2>9 DEF CaptureOK, Storing
  <2>11. SlotOK(r)' /\ Steady(r)'
    BY <2>4, <2>6 DEF SlotOK, Steady
  <2> QED
    BY <1>1, <2>4, <2>7, <2>8, <2>10, <2>11, QuietStep
<1> QED
  BY <1>2, <1>3

-----------------------------------------------------------------------------
(* Steps that change the participations or the cards. *)

LEMMA CommitStep ==
  ASSUME Inv, TypeOK', Onward, NEW r \in Reqs, Answer(r),
         \A s \in Reqs : s # r => Still(s),
         PartOK', CardOK', ConsentCoversCards'
  PROVE  Inv'
<1>1. pc'[r] = "idle" /\ Aside(r)
  BY AnswerMoves DEF Inv
<1>2. SlotOK(r)' /\ CaptureOK(r)' /\ Steady(r)' /\ OneHolder'
  BY <1>1, IdleKnowsNothing, HolderKept
<1>3. \A s \in Reqs : SlotOK(s)' /\ CaptureOK(s)' /\ Steady(s)'
  BY <1>2, StillKeeps
<1> QED
  BY <1>2, <1>3 DEF Inv, SlotsOK

(* A step of everybody else: purge, the goal store, the clock. *)
LEMMA WorldStep ==
  ASSUME Inv, TypeOK', Onward, UNCHANGED <<pc, req>>,
         \A s \in Reqs : Still(s), PartOK', CardOK', ConsentCoversCards'
  PROVE  Inv'
<1>1. \A s \in Reqs : SlotOK(s)' /\ CaptureOK(s)' /\ Steady(s)'
  BY StillKeeps
<1>2. OneHolder'
  BY DEF Inv, OneHolder, Locked
<1> QED
  BY <1>1, <1>2 DEF Inv, SlotsOK

LEMMA FewerCards ==
  ASSUME Inv, cards' \subseteq cards, now' = now,
         \A c \in cards' : part'[OwnerOf[c.goal]] = part[OwnerOf[c.goal]]
  PROVE  CardOK' /\ ConsentCoversCards'
<1>1. CardOK'
  BY DEF Inv, CardOK
<1>2. ConsentCoversCards'
  BY DEF Inv, ConsentCoversCards
<1> QED
  BY <1>1, <1>2

(* The goals of a user's cards are the goal of the participation. *)
LEMMA OwnersOfCards ==
  ASSUME Inv, NEW c \in cards
  PROVE  /\ OwnerOf[c.goal] \in Users /\ c.goal \in GoalOf(OwnerOf[c.goal])
         /\ c.goal \in Goals
         /\ part[OwnerOf[c.goal]] # Nobody /\ part[OwnerOf[c.goal]].goal = c.goal
<1>1. c.goal \in Goals
  BY DEF Inv, TypeOK, Cards
<1>2. OwnerOf[c.goal] \in Users
  BY <1>1, EvaluationAssumption
<1> QED
  BY <1>1, <1>2 DEF Inv, ConsentCoversCards, GoalOf

LEMMA JoinKeeps ==
  ASSUME Inv, NEW r \in Reqs, JoinCommit(r)
  PROVE  Inv'
<1> DEFINE u == req[r].user
           g == req[r].goal
<1>1. TypeOK'
  BY ConsentType
<1>2. CASE seen[r].part # Nobody
  BY <1>2, RefuseKeeps DEF JoinCommit
<1>3. CASE seen[r].part = Nobody
  <2>1. /\ pc[r] = "read" /\ Answer(r) /\ goal' = goal /\ joins' = joins + 1
        /\ part' = [part EXCEPT ![u] = NewParticipation(g, seen[r].at)]
        /\ cards' = WithoutCardsOf(GoalOf(u))
    BY <1>3 DEF JoinCommit
  <2>2. now' = now /\ Aside(r)
    BY <2>1, AnswerMoves DEF Inv
  <2>3. u \in Users /\ g \in Goals /\ OwnerOf[g] = u /\ seen[r].at <= now
    BY <2>1, RequestFields DEF Inv, SlotsOK, SlotOK, Steady, Owned
  <2>4. /\ part'[u].id = joins + 1 /\ part'[u].goal = g /\ part'[u].joined = seen[r].at
        /\ part'[u].expires = part'[u].joined + Retention
        /\ \A v \in Users : v # u => part'[v] = part[v]
    BY <2>1, <2>3 DEF NewParticipation, Inv, TypeOK
  <2>5. joins \in Int /\ now \in Int
    BY DEF Inv, TypeOK, Instants
  <2>6. Onward
    BY <2>1, <2>2, <2>4, <2>5 DEF Onward
  <2>7. ASSUME NEW s \in Reqs, s # r
        PROVE  Still(s)
    <3>1. pc[s] = "read" => req[s].user # u
      BY <2>1, <2>7 DEF Inv, OneHolder, Locked
    <3>2. pc[s] = "read" => req[s].user \in Users
      BY RequestFields DEF Inv, SlotsOK, SlotOK
    <3>3. pc[s] \in {"locked", "read"} => goal[req[s].goal] # Gone
      BY DEF Inv, SlotsOK, SlotOK, Owned
    <3> QED
      BY <2>1, <2>2, <2>4, <2>7, <3>1, <3>2, <3>3 DEF Still, Aside, WithoutCardsOf
  <2>8. PartOK'
    <3>1. \A v \in Users : v # u /\ part[v] # Nobody => part[v].id <= joins /\ part[v].id \in Int
      BY DEF Inv, PartOK, TypeOK, Participations, Tickets
    <3>2. \A v \in Users : part'[v] # Nobody =>
            /\ OwnerOf[part'[v].goal] = v /\ part'[v].id <= joins' /\ part'[v].joined <= now'
            /\ part'[v].expires = part'[v].joined + Retention
      BY <2>1, <2>2, <2>3, <2>4, <2>5, <3>1 DEF Inv, PartOK
    <3>3. \A v, w \in Users : part'[v] # Nobody /\ part'[w] # Nobody
              /\ part'[v].id = part'[w].id => v = w
      BY <2>4, <2>5, <3>1 DEF Inv, PartOK
    <3> QED
      BY <3>2, <3>3 DEF PartOK
  <2>9. \A c \in cards' : c \in cards /\ part'[OwnerOf[c.goal]] = part[OwnerOf[c.goal]]
    BY <2>1, <2>4, OwnersOfCards DEF WithoutCardsOf
  <2>10. CardOK' /\ ConsentCoversCards'
    BY <2>2, <2>9, FewerCards
  <2> QED
    BY <1>1, <2>1, <2>6, <2>7, <2>8, <2>10, CommitStep
<1> QED
  BY <1>2, <1>3

LEMMA WithdrawKeeps ==
  ASSUME Inv, NEW r \in Reqs, WithdrawCommit(r)
  PROVE  Inv'
<1> DEFINE u == req[r].user
           g == req[r].goal
<1>1. TypeOK'
  BY ConsentType
<1>2. CASE g \notin GoalOf(u)
  BY <1>1, <1>2, QuietAnswer DEF WithdrawCommit, tables
<1>3. CASE g \in GoalOf(u)
  <2>1. /\ pc[r] = "read" /\ Answer(r) /\ goal' = goal /\ joins' = joins
        /\ part' = [part EXCEPT ![u] = Nobody] /\ cards' = WithoutCardsOf({g})
    BY <1>3 DEF WithdrawCommit
  <2>2. now' = now /\ Aside(r)
    BY <2>1, AnswerMoves DEF Inv
  <2>3. u \in Users /\ part[u].goal = g
    BY <1>3, <2>1, RequestFields DEF Inv, SlotsOK, SlotOK, GoalOf
  <2>4. part'[u] = Nobody /\ \A v \in Users : v # u => part'[v] = part[v]
    BY <2>1, <2>3 DEF Inv, TypeOK
  <2>5. joins \in Int /\ now \in Int
    BY DEF Inv, TypeOK, Instants
  <2>6. Onward
    BY <2>1, <2>2, <2>4, <2>5 DEF Onward
  <2>7. ASSUME NEW s \in Reqs, s # r
        PROVE  Still(s)
    <3>1. pc[s] = "read" => req[s].user \in Users
      BY RequestFields DEF Inv, SlotsOK, SlotOK
    <3>2. pc[s] \in {"locked", "read"} => goal[req[s].goal] # Gone
      BY DEF Inv, SlotsOK, SlotOK, Owned
    <3> QED
      BY <2>1, <2>2, <2>4, <2>7, <3>1, <3>2 DEF Still, Aside, WithoutCardsOf
  <2>8. PartOK'
    BY <2>1, <2>2, <2>4 DEF Inv, PartOK
  <2>9. \A c \in cards' : c \in cards /\ part'[OwnerOf[c.goal]] = part[OwnerOf[c.goal]]
    BY <2>1, <2>3, <2>4, OwnersOfCards DEF WithoutCardsOf
  <2>10. CardOK' /\ ConsentCoversCards'
    BY <2>2, <2>9, FewerCards
  <2> QED
    BY <1>1, <2>1, <2>6, <2>7, <2>8, <2>10, CommitStep
<1> QED
  BY <1>2, <1>3

(* What a capture that stores a card does. *)
Stores(r) ==
  /\ pc[r] = "read" /\ req[r].kind = "store" /\ Ready(r) /\ SameTicket(r) /\ SameInput(r)
  /\ OfTheDay(r, DayOf[memo[r].at]) = {}
  /\ req[r].goal \in GoalOf(req[r].user) /\ ~Collides(r)
  /\ cards' = WithoutCardsOf({req[r].goal}) \cup Kept(req[r].goal, seen[r].at) \cup {NewCard(r)}
  /\ told' = told \cup {NewCard(r)}
  /\ Answer(r) /\ UNCHANGED <<goal, part, joins>>

LEMMA StoreCases ==
  ASSUME NEW r \in Reqs, CaptureStore(r)
  PROVE  Refuse(r) \/ Replay(r, DayOf[memo[r].at]) \/ Stores(r)
BY DEF CaptureStore, Stores

LEMMA StoresKeeps ==
  ASSUME Inv, TypeOK', NEW r \in Reqs, Stores(r)
  PROVE  Inv'
<1> DEFINE g == req[r].goal
           new == NewCard(r)
<1>1. /\ new.goal = g /\ new.issued = memo[r].at /\ new.anchor = DayOf[memo[r].at]
      /\ OwnerOf[g] = req[r].user /\ part[req[r].user] # Nobody
      /\ part[req[r].user].goal = g /\ part[req[r].user].id = new.asked
      /\ part[req[r].user].joined <= new.issued /\ new.issued < new.expires
      /\ new.expires <= part[req[r].user].expires
  BY NewCardFits DEF Stores
<1> HIDE DEF new
<1>2. now' = now /\ Aside(r) /\ Answer(r) /\ part' = part /\ goal' = goal /\ joins' = joins
  BY AnswerMoves DEF Inv, Stores
<1>3. memo[r].at <= now
  BY DEF Inv, SlotsOK, CaptureOK, Storing, Stores
<1>4. \A c \in cards' : c = new \/ c \in cards
  BY DEF Stores, WithoutCardsOf, Kept, Latest, CardsOf, new
<1>5. \A c \in cards' : c.goal = g /\ c # new => c.anchor # new.anchor
  BY <1>1 DEF Stores, Collides, WithoutCardsOf, new
<1>6. Onward
  <2>1. joins \in Int /\ now \in Int
    BY DEF Inv, TypeOK, Instants
  <2> QED
    BY <1>2, <2>1 DEF Onward
<1>7. ASSUME NEW s \in Reqs, s # r
      PROVE  Still(s)
  <2>1. pc[s] = "read" => req[s].goal # g
    <3>1. pc[s] = "read" => OwnerOf[req[s].goal] = req[s].user
      BY DEF Inv, SlotsOK, SlotOK, Owned
    <3> QED
      BY <1>1, <1>7, <3>1 DEF Stores, Inv, OneHolder, Locked
  <2>2. pc[s] \in {"locked", "read"} => goal[req[s].goal] # Gone
    BY DEF Inv, SlotsOK, SlotOK, Owned
  <2> QED
    BY <1>1, <1>2, <1>4, <1>7, <2>1, <2>2 DEF Still, Aside
<1>8. PartOK'
  BY <1>2 DEF Inv, PartOK
<1>9. CardOK'
  <2>1. \A c \in cards' : c.issued <= now' /\ c.anchor = DayOf[c.issued]
    BY <1>1, <1>2, <1>3, <1>4 DEF Inv, CardOK
  <2>2. \A c, d \in cards' : c.goal = d.goal /\ c.anchor = d.anchor => c = d
    BY <1>1, <1>4, <1>5 DEF Inv, CardOK
  <2> QED
    BY <2>1, <2>2 DEF CardOK
<1>10. ConsentCoversCards'
  BY <1>1, <1>2, <1>4 DEF Inv, ConsentCoversCards
<1> QED
  BY <1>2, <1>6, <1>7, <1>8, <1>9, <1>10, CommitStep

LEMMA StoreKeeps ==
  ASSUME Inv, NEW r \in Reqs, CaptureStore(r)
  PROVE  Inv'
<1>1. TypeOK'
  BY CaptureType
<1>2. CASE Refuse(r)
  BY <1>2, RefuseKeeps
<1>3. CASE Replay(r, DayOf[memo[r].at])
  BY <1>1, <1>3, QuietAnswer DEF Replay
<1>4. CASE Stores(r)
  BY <1>1, <1>4, StoresKeeps
<1> QED
  BY <1>2, <1>3, <1>4, StoreCases

LEMMA PurgeKeeps ==
  ASSUME Inv, Purge
  PROVE  Inv'
<1>1. TypeOK'
  BY WorldType
<1>2. PICK at \in 0 .. now :
        /\ cards' = {c \in cards : /\ ~RunOut(c.expires, c.issued, at)
                                   /\ \A u \in PurgedUsers(at) : c.goal # part[u].goal}
        /\ part' = [u \in Users |-> IF u \in PurgedUsers(at) THEN Nobody ELSE part[u]]
        /\ UNCHANGED <<now, goal, bounds, pc, req, seen, memo, told>>
  BY DEF Purge
<1>3. \A u \in Users : part'[u] \in {part[u], Nobody}
  BY <1>2
<1>4. joins \in Int /\ now \in Int /\ joins' = joins /\ now' = now
  BY <1>2 DEF Inv, TypeOK, Instants, bounds
<1>5. Onward
  BY <1>3, <1>4 DEF Onward
<1>6. \A s \in Reqs : Still(s)
  <2> TAKE s \in Reqs
  <2>1. pc[s] = "read" => req[s].user \in Users
    BY RequestFields DEF Inv, SlotsOK, SlotOK
  <2>2. pc[s] \in {"locked", "read"} => goal[req[s].goal] # Gone
    BY DEF Inv, SlotsOK, SlotOK, Owned
  <2> QED
    BY <1>2, <1>3, <2>1, <2>2 DEF Still
<1>7. PartOK'
  BY <1>3, <1>4 DEF Inv, PartOK
<1>8. \A c \in cards' : c \in cards /\ part'[OwnerOf[c.goal]] = part[OwnerOf[c.goal]]
  BY <1>2, OwnersOfCards
<1>9. CardOK' /\ ConsentCoversCards'
  BY <1>4, <1>8, FewerCards
<1> QED
  BY <1>1, <1>2, <1>5, <1>6, <1>7, <1>9, WorldStep

LEMMA ChangeKeeps ==
  ASSUME Inv, TypeOK', NEW g \in Goals, NEW row \in Rows, Change(g, row)
  PROVE  Inv'
<1>1. /\ goal' = [goal EXCEPT ![g] = row]
      /\ UNCHANGED <<now, part, cards, joins, pc, req, seen, memo, told>>
  BY DEF Change
<1>2. \A h \in Goals : goal[h] # Gone => goal'[h] # Gone
  BY <1>1, NoneAssumption DEF Inv, TypeOK
<1>3. joins \in Int /\ now \in Int
  BY DEF Inv, TypeOK, Instants
<1>4. Onward
  BY <1>1, <1>3 DEF Onward
<1>5. \A s \in Reqs : Still(s)
  <2> TAKE s \in Reqs
  <2>1. pc[s] \in {"locked", "read"} => goal[req[s].goal] # Gone /\ req[s].goal \in Goals
    BY RequestFields DEF Inv, SlotsOK, SlotOK, Owned
  <2> QED
    BY <1>1, <1>2, <2>1 DEF Still
<1>6. PartOK' /\ CardOK' /\ ConsentCoversCards'
  BY <1>1 DEF Inv, PartOK, CardOK, ConsentCoversCards
<1> QED
  BY <1>1, <1>4, <1>5, <1>6, WorldStep

LEMMA DeleteKeeps ==
  ASSUME Inv, NEW g \in Goals, Delete(g)
  PROVE  Inv'
<1>1. TypeOK'
  BY WorldType
<1>2. /\ RowFree(g) /\ goal' = [goal EXCEPT ![g] = Gone]
      /\ part' = [u \in Users |-> IF g \in GoalOf(u) THEN Nobody ELSE part[u]]
      /\ cards' = WithoutCardsOf({g})
      /\ UNCHANGED <<now, bounds, pc, req, seen, memo, told>>
  BY DEF Delete
<1>3. \A u \in Users : part'[u] \in {part[u], Nobody}
  BY <1>2
<1>4. joins \in Int /\ now \in Int /\ joins' = joins /\ now' = now
  BY <1>2 DEF Inv, TypeOK, Instants, bounds
<1>5. Onward
  BY <1>3, <1>4 DEF Onward
<1>6. \A s \in Reqs : Still(s)
  <2> TAKE s \in Reqs
  <2>1. pc[s] \in {"locked", "read"} =>
          /\ goal[req[s].goal] # Gone /\ req[s].goal \in Goals
          /\ req[s].user \in Users /\ req[s].goal # g
    BY <1>2, RequestFields DEF Inv, SlotsOK, SlotOK, Owned, RowFree, HoldsRow
  <2>2. pc[s] \in {"locked", "read"} => goal'[req[s].goal] = goal[req[s].goal]
    BY <1>2, <2>1 DEF Inv, TypeOK
  <2> QED
    BY <1>2, <1>3, <2>1, <2>2 DEF Still, WithoutCardsOf
<1>7. PartOK'
  BY <1>3, <1>4 DEF Inv, PartOK
<1>8. \A c \in cards' : c \in cards /\ part'[OwnerOf[c.goal]] = part[OwnerOf[c.goal]]
  <2> TAKE c \in cards'
  <2>1. c \in cards /\ c.goal # g
    BY <1>2 DEF WithoutCardsOf
  <2>2. OwnerOf[c.goal] \in Users /\ g \notin GoalOf(OwnerOf[c.goal])
    BY <2>1, OwnersOfCards DEF GoalOf
  <2> QED
    BY <1>2, <2>1, <2>2
<1>9. CardOK' /\ ConsentCoversCards'
  BY <1>4, <1>8, FewerCards
<1> QED
  BY <1>1, <1>2, <1>5, <1>6, <1>7, <1>9, WorldStep

LEMMA TickKeeps ==
  ASSUME Inv, Tick
  PROVE  Inv'
<1>1. TypeOK'
  BY WorldType
<1>2. Quiet /\ UNCHANGED <<pc, req, seen, memo>>
  BY DEF Tick, Quiet, tables, bounds, Inv, TypeOK, Instants
<1>3. \A s \in Reqs : Still(s)
  BY <1>2 DEF Quiet, Still, Inv, SlotsOK, SlotOK, Owned
<1> QED
  BY <1>1, <1>2, <1>3, QuietWorld, WorldStep

-----------------------------------------------------------------------------
(* The invariant. *)

LEMMA ReqStep ==
  ASSUME Inv, NEW r \in Reqs, SubmitConsent(r) \/ SubmitCapture(r) \/ Work(r) \/ Abort(r)
  PROVE  Inv'
<1>1. CASE SubmitConsent(r)
  <2>1. PICK k \in {"join", "withdraw"}, u \in Users, g \in Goals :
          Submit(r, [kind |-> k, user |-> u, goal |-> g])
    BY <1>1 DEF SubmitConsent
  <2> QED
    BY <2>1, ConsentRequest, SubmitKeeps
<1>2. CASE SubmitCapture(r)
  <2>1. PICK u \in Users, g \in Goals :
          goal[g] # Gone
          /\ Submit(r, [kind |-> "capture", user |-> u, goal |-> g, rev |-> goal[g].rev])
    BY <1>2 DEF SubmitCapture
  <2> QED
    BY <2>1, CaptureRequest, SubmitKeeps DEF Inv
<1>3. CASE Work(r)
  BY <1>3, LockUserKeeps, LockRowKeeps, ReadStateKeeps, JoinKeeps, WithdrawKeeps,
     PreflightKeeps, SelectKeeps, ClockKeeps, StoreKeeps DEF Work
<1>4. CASE Abort(r)
  BY <1>4, RefuseKeeps DEF Abort
<1> QED
  BY <1>1, <1>2, <1>3, <1>4

LEMMA GoalStoreStep ==
  ASSUME Inv, NEW g \in Goals, Record(g) \/ Edit(g)
  PROVE  Inv'
<1>1. TypeOK'
  BY WorldType
<1>2. goal[g] \in Rows
  BY DEF Record, Edit, Change, Inv, TypeOK
<1>3. CASE Record(g)
  <2>1. PICK d \in {DayOf[now], DayOf[now] - 1} \cap Days, status \in {"DONE", "SKIPPED"} :
          Change(g, [goal[g] EXCEPT !.recs[d] = status])
    BY <1>3 DEF Record
  <2>2. [goal[g] EXCEPT !.recs[d] = status] \in Rows
    BY <1>2 DEF Rows, Records
  <2> QED
    BY <1>1, <2>1, <2>2, ChangeKeeps
<1>4. CASE Edit(g)
  <2>1. /\ [goal[g] EXCEPT !.rev = goal[g].rev + 1] \in Rows
        /\ [goal[g] EXCEPT !.arev = goal[g].arev + 1] \in Rows
    BY <1>2 DEF Rows
  <2> QED
    BY <1>1, <1>4, <2>1, ChangeKeeps DEF Edit
<1> QED
  BY <1>3, <1>4

LEMMA InvStep ==
  ASSUME Inv, [Next]_vars
  PROVE  Inv'
<1>1. CASE Next
  BY <1>1, ReqStep, GoalStoreStep, DeleteKeeps, PurgeKeeps, TickKeeps DEF Next
<1>2. CASE UNCHANGED vars
  BY <1>2 DEF vars, Inv, TypeOK, SlotsOK, SlotOK, Owned, CaptureOK, Storing, Steady, Live,
     Visible, CardsOf, OneHolder, Locked, PartOK, CardOK, ConsentCoversCards
<1> QED
  BY <1>1, <1>2

LEMMA InitInv == Init => Inv
<1> SUFFICES ASSUME Init
             PROVE  Inv
  OBVIOUS
<1>1. TypeOK
  <2>1. NoRecords \in Records
    BY DEF NoRecords, Records
  <2>2. [rev |-> 0, arev |-> 0, recs |-> NoRecords] \in Rows
    BY <2>1 DEF Rows
  <2> QED
    BY <2>2, EvaluationAssumption DEF Init, TypeOK, Instants
<1> QED
  BY <1>1 DEF Init, Inv, SlotsOK, SlotOK, CaptureOK, Storing, Steady, OneHolder, Locked,
     PartOK, CardOK, ConsentCoversCards

LEMMA InvHolds == Spec => []Inv
<1> QED
  BY InitInv, InvStep, PTL DEF Spec

(* No CHECK constraint of the two tables is ever violated: a card and a     *)
(* participation run out after they begin (joinEvaluation,                  *)
(* captureEvaluation).                                                      *)
THEOREM EvaluationTypes == Spec => []TypeOK
<1>1. Inv => TypeOK
  BY DEF Inv
<1> QED
  BY <1>1, InvHolds, PTL

(* No card without the consent that asked for it, for any number of         *)
(* requests, joins, withdrawals, purges and deletions.                      *)
THEOREM NoCardWithoutConsent == Spec => []ConsentCoversCards
<1>1. Inv => ConsentCoversCards
  BY DEF Inv
<1> QED
  BY <1>1, InvHolds, PTL

(* The unique index of the cards never refuses a capture.                   *)
THEOREM CapturesNeverCollide == Spec => []CaptureNeverCollides
<1>1. ASSUME Inv
      PROVE  CaptureNeverCollides
  <2> SUFFICES ASSUME NEW r \in Reqs, pc[r] = "read", req[r].kind = "store", Ready(r),
                      SameTicket(r), SameInput(r), OfTheDay(r, DayOf[memo[r].at]) = {},
                      NEW c \in Kept(req[r].goal, seen[r].at), c.anchor = DayOf[memo[r].at]
               PROVE  FALSE
    BY DEF CaptureNeverCollides, Collides
  <2>1. c \in CardsOf(req[r].goal) /\ Visible(c, seen[r].at)
    BY DEF Kept, Latest
  <2>2. c.anchor = DayOf[seen[r].at]
    BY DEF SameInput
  <2>3. c \in seen[r].cards
    BY <1>1, <2>1, <2>2 DEF Inv, SlotsOK, Steady, Ready
  <2> QED
    BY <2>3 DEF OfTheDay
<1> QED
  BY <1>1, InvHolds, PTL

-----------------------------------------------------------------------------
(* What a step may never do. *)

(* Who can touch participations and cards. *)
LEMMA OnlyThese ==
  ASSUME Inv, Next
  PROVE  \/ part' = part /\ cards' = cards
         \/ \E r \in Reqs : JoinCommit(r) /\ seen[r].part = Nobody
         \/ \E r \in Reqs : WithdrawCommit(r)
         \/ \E r \in Reqs : Stores(r)
         \/ Purge
         \/ \E g \in Goals : Delete(g)
<1>1. ASSUME NEW r \in Reqs, Refuse(r) \/ (\E anchor : Replay(r, anchor))
      PROVE  part' = part /\ cards' = cards
  BY <1>1 DEF Refuse, Replay, tables
<1>2. ASSUME NEW r \in Reqs, SubmitConsent(r) \/ SubmitCapture(r) \/ Abort(r)
      PROVE  part' = part /\ cards' = cards
  BY <1>1, <1>2 DEF SubmitConsent, SubmitCapture, Submit, Abort, tables
<1>3. ASSUME NEW r \in Reqs, LockUser(r) \/ LockRow(r) \/ ReadState(r) \/ CapturePreflight(r)
                             \/ CaptureSelect(r) \/ CaptureClock(r)
      PROVE  part' = part /\ cards' = cards
  BY <1>1, <1>3 DEF LockUser, LockRow, ReadState, CapturePreflight, CaptureSelect,
     CaptureClock, tables
<1>4. ASSUME NEW r \in Reqs, CaptureStore(r)
      PROVE  (part' = part /\ cards' = cards) \/ Stores(r)
  BY <1>1, <1>4, StoreCases
<1>5. ASSUME NEW r \in Reqs, JoinCommit(r)
      PROVE  (part' = part /\ cards' = cards) \/ seen[r].part = Nobody
  BY <1>1, <1>5 DEF JoinCommit
<1>6. ASSUME Tick \/ (\E g \in Goals : Record(g) \/ Edit(g))
      PROVE  part' = part /\ cards' = cards
  BY <1>6 DEF Tick, Record, Edit, Change, tables
<1> QED
  BY <1>2, <1>3, <1>4, <1>5, <1>6 DEF Next, Work

LEMMA NewCardIsStored ==
  ASSUME Inv, Next, NEW c \in cards' \ cards
  PROVE  \E r \in Reqs : Stores(r) /\ c = NewCard(r)
<1>1. ASSUME NEW r \in Reqs, Stores(r)
      PROVE  c = NewCard(r)
  BY <1>1 DEF Stores, WithoutCardsOf, Kept, Latest, CardsOf
<1>2. ~Purge /\ ~(\E g \in Goals : Delete(g))
  BY DEF Purge, Delete, WithoutCardsOf
<1>3. ~\E r \in Reqs : (JoinCommit(r) /\ seen[r].part = Nobody) \/ WithdrawCommit(r)
  BY DEF JoinCommit, WithdrawCommit, WithoutCardsOf
<1> QED
  BY <1>1, <1>2, <1>3, OnlyThese

(* The records up to a day hold no more DONE than all records. *)
LEMMA PrefixCapturable ==
  ASSUME NEW recs \in Records, NEW anchor \in Days, Capturable(recs, anchor)
  PROVE  Capturable(Prefix(recs, anchor), anchor)
<1> DEFINE All == {d \in Days : recs[d] = "DONE"}
           Some == {d \in Days : Prefix(recs, anchor)[d] = "DONE"}
<1>1. IsFiniteSet(Days)
  BY FS_Interval, EvaluationAssumption DEF Days
<1>2. All \subseteq Days /\ Some \subseteq All
  BY DEF Prefix
<1>3. IsFiniteSet(All) /\ IsFiniteSet(Some)
  BY <1>1, <1>2, FS_Subset
<1>4. Cardinality(Some) <= Cardinality(All)
  BY <1>2, <1>3, FS_Subset
<1>5. Cardinality(Some) \in Nat /\ Cardinality(All) \in Nat
  BY <1>3, FS_CardinalityType
<1>6. Cardinality(All) < Required /\ recs[anchor] # "UNRECORDED"
  BY DEF Capturable, Done
<1>7. Cardinality(Some) < Required
  BY <1>4, <1>5, <1>6, EvaluationAssumption
<1>8. Prefix(recs, anchor)[anchor] = recs[anchor]
  BY DEF Prefix, Days
<1> QED
  BY <1>6, <1>7, <1>8 DEF Capturable, Done

(* Whatever happens to the goal while a prediction is computed without      *)
(* locks, the stored card describes the goal as it is when it is stored.    *)
THEOREM CardsAreUpToDate == Spec => CardsDescribeTheGoal
<1>1. ASSUME Inv, [Next]_vars
      PROVE  \A c \in cards' \ cards :
               /\ goal[c.goal] # Gone
               /\ c.rev = goal[c.goal].rev /\ c.arev = goal[c.goal].arev
               /\ c.prefix = Prefix(goal[c.goal].recs, c.anchor)
               /\ Capturable(c.prefix, c.anchor)
  <2> TAKE c \in cards' \ cards
  <2>1. Next
    BY <1>1 DEF vars
  <2>2. PICK r \in Reqs : Stores(r) /\ c = NewCard(r)
    BY <1>1, <2>1, NewCardIsStored
  <2>3. /\ memo[r] \in Memos /\ memo[r].row \in Rows
        /\ Capturable(memo[r].row.recs, DayOf[memo[r].at])
        /\ goal[req[r].goal] # Gone
    BY <1>1, <2>2 DEF Inv, SlotsOK, SlotOK, CaptureOK, Storing, Stores, Owned
  <2>4. memo[r].row.recs \in Records /\ DayOf[memo[r].at] \in Days
    BY <2>3, EvaluationAssumption DEF Rows, Memos
  <2>5. Capturable(Prefix(memo[r].row.recs, DayOf[memo[r].at]), DayOf[memo[r].at])
    BY <2>3, <2>4, PrefixCapturable
  <2> QED
    BY <2>2, <2>3, <2>5 DEF NewCard, Stores, Ready, SameInput
<1> QED
  BY <1>1, InvHolds, PTL DEF Spec, CardsDescribeTheGoal

(* The numbers that retention compares. *)
LEMMA Dates ==
  ASSUME Inv
  PROVE  /\ now \in Int /\ Retention \in Int
         /\ \A u \in Users : part[u] # Nobody =>
              part[u].joined \in Int /\ part[u].expires \in Int
         /\ \A c \in cards : c.issued \in Int /\ c.expires \in Int
         /\ \A r \in Reqs : pc[r] = "read" => seen[r].at \in Instants /\ seen[r].at <= now
BY EvaluationAssumption DEF Inv, TypeOK, Instants, Participations, Cards, SlotsOK, Steady, Views

(* Only a dead participation makes room for a new one. *)
LEMMA JoinReplacesTheDead ==
  ASSUME Inv, NEW r \in Reqs, JoinCommit(r), seen[r].part = Nobody,
         part[req[r].user] # Nobody
  PROVE  req[r].user \in Users /\ ~Live(part[req[r].user], now)
<1> DEFINE p == part[req[r].user]
<1>1. pc[r] = "read" /\ ~Live(p, seen[r].at)
  BY DEF JoinCommit, Inv, SlotsOK, Steady
<1>2. req[r].user \in Users
  BY <1>1, RequestFields DEF Inv, SlotsOK, SlotOK
<1>3. seen[r].at \in Int /\ seen[r].at <= now
  BY <1>1, Dates DEF Instants
<1>4. p.joined \in Int /\ p.expires \in Int
  BY <1>2, Dates
<1> HIDE DEF p
<1>5. ~Live(p, now)
  BY <1>1, <1>3, <1>4, Dates DEF Live
<1> QED
  BY <1>2, <1>5 DEF p

(* Nor does the purge take a participation that counts, whatever its clock. *)
LEMMA PurgeTakesTheDead ==
  ASSUME Inv, NEW at \in 0 .. now, NEW u \in PurgedUsers(at)
  PROVE  ~Live(part[u], now)
<1>1. /\ u \in Users /\ part[u] # Nobody
      /\ RunOut(part[u].expires, part[u].joined, at)
  BY DEF PurgedUsers
<1>2. at \in Int /\ at <= now
  BY Dates
<1> QED
  BY <1>1, <1>2, Dates DEF RunOut, Live

(* A participation counts until the user withdraws or the goal goes,        *)
(* however many joins and purges run beside it.                             *)
THEOREM ConsentStands == Spec => LiveConsentStands
<1>1. ASSUME Inv, [Next]_vars
      PROVE  \A u \in Users : part[u] # Nobody /\ Live(part[u], now) =>
               \/ part'[u] = part[u]
               \/ part'[u] = Nobody /\ \E r \in Reqs : WithdrawCommit(r) /\ req[r].user = u
               \/ part'[u] = Nobody /\ Delete(part[u].goal)
  <2> SUFFICES ASSUME NEW u \in Users, part[u] # Nobody, Live(part[u], now),
                      part'[u] # part[u]
               PROVE  part'[u] = Nobody /\
                        \/ \E r \in Reqs : WithdrawCommit(r) /\ req[r].user = u
                        \/ Delete(part[u].goal)
    OBVIOUS
  <2>1. Next
    BY <1>1 DEF vars
  <2>2. ASSUME NEW r \in Reqs, JoinCommit(r), seen[r].part = Nobody
        PROVE  FALSE
    <3>1. \A v \in Users : v # req[r].user => part'[v] = part[v]
      BY <1>1, <2>2 DEF JoinCommit, Inv, TypeOK
    <3> QED
      BY <1>1, <2>2, <3>1, JoinReplacesTheDead
  <2>3. ASSUME NEW r \in Reqs, WithdrawCommit(r)
        PROVE  part'[u] = Nobody /\ req[r].user = u
    BY <1>1, <2>3 DEF WithdrawCommit, Inv, TypeOK
  <2>4. ASSUME NEW r \in Reqs, Stores(r)
        PROVE  FALSE
    BY <2>4 DEF Stores
  <2>5. ~Purge
    <3> SUFFICES ASSUME NEW at \in 0 .. now,
                   part' = [v \in Users |-> IF v \in PurgedUsers(at) THEN Nobody ELSE part[v]]
                 PROVE  FALSE
      BY DEF Purge
    <3>1. u \in PurgedUsers(at)
      OBVIOUS
    <3> QED
      BY <1>1, <3>1, PurgeTakesTheDead
  <2>6. ASSUME NEW g \in Goals, Delete(g)
        PROVE  part'[u] = Nobody /\ g = part[u].goal
    BY <2>6 DEF Delete, GoalOf
  <2> QED
    BY <1>1, <2>1, <2>2, <2>3, <2>4, <2>5, <2>6, OnlyThese
<1> QED
  BY <1>1, InvHolds, PTL DEF Spec, LiveConsentStands

(* A card runs out with its participation at the latest. *)
LEMMA DeadConsentHidesCards ==
  ASSUME Inv, NEW c \in cards, ~Live(part[OwnerOf[c.goal]], now)
  PROVE  ~Visible(c, now)
<1> DEFINE p == part[OwnerOf[c.goal]]
<1>1. OwnerOf[c.goal] \in Users /\ p # Nobody
  BY OwnersOfCards
<1>2. c.expires <= p.expires
  BY DEF Inv, ConsentCoversCards
<1>3. p.expires = p.joined + Retention /\ p.joined \in Int /\ p.expires \in Int
  BY <1>1, Dates DEF Inv, PartOK
<1>4. ~(p.expires > now /\ p.joined > now - Retention)
  BY DEF Live
<1> HIDE DEF p
<1>5. p.expires <= now
  BY <1>3, <1>4, Dates
<1> QED
  BY <1>2, <1>3, <1>5, Dates DEF Visible

(* A card that has to make room is older than the card that takes it: had   *)
(* it been issued today, the capture would have answered it.                *)
LEMMA OnlyOlderCardsMakeRoom ==
  ASSUME Inv, NEW r \in Reqs, Stores(r), NEW c \in cards \ cards', Visible(c, now)
  PROVE  NewCard(r) \in cards' \ cards /\ NewCard(r).goal = c.goal
         /\ NewCard(r).issued > c.issued
<1> DEFINE new == NewCard(r)
           g == req[r].goal
           p == part[req[r].user]
<1>1. /\ pc[r] = "read" /\ seen[r].at \in Instants /\ seen[r].at <= now
      /\ memo[r].at <= seen[r].at /\ memo[r].at \in Instants
    BY Dates DEF Stores, Inv, SlotsOK, Steady, Storing, CaptureOK, Memos
<1>2. /\ new.goal = g /\ new.anchor = DayOf[memo[r].at] /\ new.issued = memo[r].at
      /\ p # Nobody /\ p = seen[r].part /\ p.joined <= new.issued
      /\ new \in Cards /\ new.goal = p.goal
  BY NewCardFits DEF Stores
<1>3. new \in cards'
  BY DEF Stores
<1>4. DayOf[seen[r].at] = DayOf[memo[r].at]
  BY DEF Stores, SameInput
<1>5. \A d \in CardsOf(g) : Visible(d, seen[r].at) => d.anchor # DayOf[memo[r].at]
  <2>1. \A d \in CardsOf(g) : Visible(d, seen[r].at) /\ d.anchor = DayOf[seen[r].at]
                                => d \in seen[r].cards
    BY <1>1, <1>2 DEF Inv, SlotsOK, Steady
  <2> QED
    BY <1>4, <2>1 DEF Stores, OfTheDay
<1>6. c.goal = g
  BY DEF Stores, WithoutCardsOf
<1>7. Visible(c, seen[r].at)
  <2>1. seen[r].at \in Int
    BY <1>1 DEF Instants
  <2> QED
    BY <1>1, <2>1, Dates DEF Visible
<1>8. c.issued < memo[r].at
  <2> SUFFICES ASSUME c.issued >= memo[r].at
               PROVE  FALSE
    BY <1>1, Dates DEF Instants
  <2>1. c.issued <= seen[r].at /\ c.anchor = DayOf[c.issued] /\ c.issued \in Instants
    BY <1>1, <1>6 DEF Inv, SlotsOK, Steady, CardsOf, CardOK, TypeOK, Cards
  <2>2. DayOf[memo[r].at] <= DayOf[c.issued] /\ DayOf[c.issued] <= DayOf[seen[r].at]
    <3>1. memo[r].at <= c.issued
      BY <1>1, <2>1 DEF Instants
    <3> QED
      BY <1>1, <2>1, <3>1, EvaluationAssumption
  <2>3. DayOf[c.issued] \in Int /\ DayOf[memo[r].at] \in Int
    BY <1>1, <2>1, EvaluationAssumption DEF Days
  <2>4. c.anchor = DayOf[memo[r].at]
    BY <1>4, <2>1, <2>2, <2>3
  <2> QED
    BY <1>5, <1>6, <1>7, <2>4 DEF CardsOf
<1>9. new \notin cards
  <2> SUFFICES ASSUME new \in cards
               PROVE  FALSE
    OBVIOUS
  <2>1. Live(p, seen[r].at)
    BY <1>1, <1>2 DEF Inv, SlotsOK, Steady
  <2>2. req[r].user \in Users
    BY <1>1, RequestFields DEF Inv, SlotsOK, SlotOK
  <2>3. /\ p.expires = p.joined + Retention /\ p.joined \in Int /\ p.expires \in Int
        /\ new.expires \in Int /\ new.issued \in Int /\ seen[r].at \in Int
    BY <1>1, <1>2, <2>2, Dates DEF Inv, PartOK, Instants
  <2>4. new.expires = Least(memo[r].at + Retention, seen[r].part.expires)
    BY DEF NewCard
  <2>5. new.expires > seen[r].at /\ new.issued > seen[r].at - Retention
    <3> HIDE DEF new, p
    <3> QED
      BY <1>1, <1>2, <2>1, <2>3, <2>4, Dates DEF Live, Least
  <2> QED
    BY <1>2, <1>5, <2>5 DEF Visible, CardsOf
<1> QED
  BY <1>1, <1>2, <1>3, <1>6, <1>8, <1>9, Dates DEF Instants

(* Nobody loses a card that can be seen to a purge or to somebody's join.   *)
THEOREM CardsStand == Spec => VisibleCardsStand
<1>1. ASSUME Inv, [Next]_vars
      PROVE  \A c \in cards \ cards' : Visible(c, now) =>
               \/ \E r \in Reqs : WithdrawCommit(r) /\ req[r].goal = c.goal
               \/ Delete(c.goal)
               \/ \E d \in cards' \ cards : d.goal = c.goal /\ d.issued > c.issued
  <2> SUFFICES ASSUME NEW c \in cards \ cards', Visible(c, now)
               PROVE  \/ \E r \in Reqs : WithdrawCommit(r) /\ req[r].goal = c.goal
                      \/ Delete(c.goal)
                      \/ \E d \in cards' \ cards : d.goal = c.goal /\ d.issued > c.issued
    OBVIOUS
  <2>1. Next
    BY <1>1 DEF vars
  <2>2. /\ OwnerOf[c.goal] \in Users /\ part[OwnerOf[c.goal]] # Nobody
        /\ part[OwnerOf[c.goal]].goal = c.goal
    BY <1>1, OwnersOfCards
  <2>3. Live(part[OwnerOf[c.goal]], now)
    BY <1>1, DeadConsentHidesCards
  <2>4. ASSUME NEW r \in Reqs, JoinCommit(r), seen[r].part = Nobody
        PROVE  FALSE
    <3>1. part[req[r].user] # Nobody /\ part[req[r].user].goal = c.goal
      BY <2>4 DEF JoinCommit, WithoutCardsOf, GoalOf
    <3>2. req[r].user \in Users /\ ~Live(part[req[r].user], now)
      BY <1>1, <2>4, <3>1, JoinReplacesTheDead
    <3>3. OwnerOf[c.goal] = req[r].user
      BY <1>1, <3>1, <3>2 DEF Inv, PartOK
    <3> QED
      BY <2>3, <3>2, <3>3
  <2>5. ASSUME NEW r \in Reqs, WithdrawCommit(r)
        PROVE  req[r].goal = c.goal
    BY <2>5 DEF WithdrawCommit, WithoutCardsOf
  <2>6. ASSUME NEW r \in Reqs, Stores(r)
        PROVE  \E d \in cards' \ cards : d.goal = c.goal /\ d.issued > c.issued
    BY <1>1, <2>6, OnlyOlderCardsMakeRoom
  <2>7. ~Purge
    <3> SUFFICES ASSUME NEW at \in 0 .. now,
                   cards' = {d \in cards : /\ ~RunOut(d.expires, d.issued, at)
                                           /\ \A u \in PurgedUsers(at) : d.goal # part[u].goal}
                 PROVE  FALSE
      BY DEF Purge
    <3>1. ~RunOut(c.expires, c.issued, at)
      BY <1>1, Dates DEF RunOut, Visible
    <3>2. PICK u \in PurgedUsers(at) : c.goal = part[u].goal
      BY <3>1
    <3>3. ~Live(part[u], now)
      BY <1>1, PurgeTakesTheDead
    <3>4. u = OwnerOf[c.goal]
      BY <1>1, <3>2 DEF PurgedUsers, Inv, PartOK
    <3> QED
      BY <2>3, <3>3, <3>4
  <2>8. ASSUME NEW g \in Goals, Delete(g)
        PROVE  g = c.goal
    BY <2>8 DEF Delete, WithoutCardsOf
  <2> QED
    BY <1>1, <2>1, <2>4, <2>5, <2>6, <2>7, <2>8, OnlyThese
<1> QED
  BY <1>1, InvHolds, PTL DEF Spec, VisibleCardsStand

-----------------------------------------------------------------------------
(* One answer a day.  A card that was answered stays the card of its day:   *)
(* it is stored, or a card of a later day is, as long as its participation  *)
(* lasts (ToldStored); all cards of a participation run out with it         *)
(* (ExpireTogether), so that retention hides none of them while another     *)
(* capture looks for it; and a participation number is known under one goal *)
(* only, wherever it is remembered (OneGoalEach).                           *)

Remembers(i, g) ==
  \/ \E u \in Users : part[u] # Nobody /\ part[u].id = i /\ part[u].goal = g
  \/ \E s \in Reqs : pc[s] = "read" /\ seen[s].part # Nobody
                     /\ seen[s].part.id = i /\ seen[s].part.goal = g
  \/ \E c \in told : c.asked = i /\ c.goal = g

OneGoalEach ==
  \A i, j \in Tickets, g, h \in Goals :
    Remembers(i, g) /\ Remembers(j, h) => i <= joins /\ (i = j => g = h)

ExpireTogether == \A c \in cards : c.expires = part[OwnerOf[c.goal]].expires

ToldStored ==
  \A d \in told :
    LET p == part[OwnerOf[d.goal]] IN
    p # Nobody /\ p.id = d.asked =>
      \E e \in cards : e.goal = d.goal /\ (e = d \/ e.anchor > d.anchor)

(* What a transaction has read of the cards. *)
SeenOK(s) ==
  pc[s] = "read" => \A c \in seen[s].cards :
    /\ seen[s].part # Nobody /\ seen[s].part.goal = req[s].goal
    /\ c.goal = req[s].goal /\ c.asked = seen[s].part.id
    /\ part[req[s].user] # Nobody => c \in cards
    /\ \A e \in seen[s].cards : e.anchor = c.anchor => e = c
    /\ c.anchor = DayOf[seen[s].at] =>
         \A d \in told : d.asked = c.asked /\ d.anchor = c.anchor => d = c

ToldInv ==
  /\ OneGoalEach /\ ExpireTogether /\ ToldStored /\ FirstCardStands
  /\ \A s \in Reqs : SeenOK(s)

(* The numbers that this part compares. *)
LEMMA Anchors ==
  ASSUME Inv
  PROVE  /\ joins \in Int
         /\ \A u \in Users : part[u] # Nobody => part[u].id \in Tickets /\ part[u].goal \in Goals
         /\ \A c \in cards \cup told :
              c.anchor \in Int /\ c.asked \in Tickets /\ c.goal \in Goals
         /\ \A s \in Reqs : pc[s] = "read" =>
              /\ req[s].user \in Users /\ req[s].goal \in Goals
              /\ OwnerOf[req[s].goal] = req[s].user
              /\ seen[s].part # Nobody => seen[s].part.id \in Tickets /\ seen[s].part.goal \in Goals
<1>1. ASSUME NEW s \in Reqs, pc[s] = "read"
      PROVE  /\ req[s].user \in Users /\ req[s].goal \in Goals
             /\ OwnerOf[req[s].goal] = req[s].user
             /\ seen[s].part # Nobody => seen[s].part.id \in Tickets /\ seen[s].part.goal \in Goals
  <2>1. req[s] \in Requests /\ Owned(req[s].user, req[s].goal) /\ seen[s] \in Views
    BY <1>1 DEF Inv, SlotsOK, SlotOK, Steady
  <2> QED
    BY <2>1, RequestFields DEF Owned, Views, Participations
<1> QED
  BY <1>1 DEF Inv, TypeOK, Participations, Cards, Days

LEMMA OnwardStep ==
  ASSUME Inv, Next
  PROVE  \A u \in Users : part'[u] # Nobody => part'[u] = part[u] \/ part'[u].id > joins
<1>1. ASSUME NEW r \in Reqs, JoinCommit(r), seen[r].part = Nobody
      PROVE  \A u \in Users : part'[u] # Nobody => part'[u] = part[u] \/ part'[u].id > joins
  <2>1. /\ part' = [part EXCEPT ![req[r].user] = NewParticipation(req[r].goal, seen[r].at)]
    BY <1>1 DEF JoinCommit
  <2> QED
    BY <2>1, Anchors DEF NewParticipation, Inv, TypeOK
<1>2. ASSUME NEW r \in Reqs, WithdrawCommit(r)
      PROVE  \A u \in Users : part'[u] # Nobody => part'[u] = part[u]
  BY <1>2 DEF WithdrawCommit, Inv, TypeOK
<1>3. ASSUME Purge \/ \E g \in Goals : Delete(g)
      PROVE  \A u \in Users : part'[u] # Nobody => part'[u] = part[u]
  BY <1>3 DEF Purge, Delete
<1> QED
  BY <1>1, <1>2, <1>3, OnlyThese DEF Stores

LEMMA JoinsGrow ==
  ASSUME Inv, Next
  PROVE  joins <= joins'
<1>1. joins \in Int
  BY Anchors
<1>2. ASSUME NEW r \in Reqs, SubmitConsent(r) \/ SubmitCapture(r) \/ Work(r) \/ Abort(r)
      PROVE  joins' \in {joins, joins + 1}
  <2>1. ASSUME SubmitConsent(r) \/ SubmitCapture(r) \/ Abort(r)
        PROVE  joins' = joins
    BY <2>1 DEF SubmitConsent, SubmitCapture, Submit, Abort, Refuse, bounds
  <2>2. ASSUME LockUser(r) \/ LockRow(r) \/ ReadState(r) \/ CaptureSelect(r) \/ CaptureClock(r)
        PROVE  joins' = joins
    BY <2>2 DEF LockUser, LockRow, ReadState, CaptureSelect, CaptureClock, Refuse, bounds
  <2>3. ASSUME CapturePreflight(r) \/ CaptureStore(r)
        PROVE  joins' = joins
    BY <2>3 DEF CapturePreflight, CaptureStore, Replay, Refuse, bounds
  <2>4. ASSUME JoinCommit(r) \/ WithdrawCommit(r)
        PROVE  joins' \in {joins, joins + 1}
    BY <2>4 DEF JoinCommit, WithdrawCommit, Refuse
  <2> QED
    BY <1>2, <2>1, <2>2, <2>3, <2>4 DEF Work
<1>3. ASSUME Tick \/ Purge \/ \E g \in Goals : Record(g) \/ Edit(g) \/ Delete(g)
      PROVE  joins' = joins
  BY <1>3 DEF Tick, Purge, Record, Edit, Change, Delete, bounds
<1> QED
  BY <1>1, <1>2, <1>3 DEF Next

(* A card goes with its participation or when a capture makes room. *)
LEMMA CardLoss ==
  ASSUME Inv, ExpireTogether, Next, NEW c \in cards \ cards',
         part'[OwnerOf[c.goal]] = part[OwnerOf[c.goal]]
  PROVE  \E r \in Reqs : Stores(r) /\ req[r].goal = c.goal
<1> DEFINE u == OwnerOf[c.goal]
<1>1. u \in Users /\ c.goal \in Goals /\ part[u] # Nobody /\ part[u].goal = c.goal
  BY OwnersOfCards
<1>2. ASSUME NEW r \in Reqs, JoinCommit(r), seen[r].part = Nobody
      PROVE  FALSE
  <2>1. part[req[r].user] # Nobody /\ part[req[r].user].goal = c.goal /\ req[r].user \in Users
    BY <1>2, Anchors DEF JoinCommit, WithoutCardsOf, GoalOf
  <2>2. req[r].user = u
    BY <2>1 DEF Inv, PartOK
  <2>3. part'[u].id = joins + 1
    BY <1>1, <1>2, <2>2 DEF JoinCommit, NewParticipation, Inv, TypeOK
  <2>4. part[u].id <= joins /\ part[u].id \in Int
    BY <1>1, Anchors DEF Inv, PartOK, Tickets
  <2> QED
    BY <2>3, <2>4, Anchors
<1>3. ASSUME NEW r \in Reqs, WithdrawCommit(r)
      PROVE  FALSE
  <2>1. c.goal = req[r].goal /\ part' = [part EXCEPT ![req[r].user] = Nobody]
    BY <1>3 DEF WithdrawCommit, WithoutCardsOf
  <2>2. u = req[r].user
    BY <1>3, <2>1, Anchors DEF WithdrawCommit
  <2> QED
    BY <1>1, <2>1, <2>2 DEF Inv, TypeOK
<1>4. ASSUME NEW r \in Reqs, Stores(r)
      PROVE  req[r].goal = c.goal
  BY <1>4 DEF Stores, WithoutCardsOf
<1>5. ~Purge
  <2> SUFFICES ASSUME NEW at \in 0 .. now,
                 cards' = {d \in cards : /\ ~RunOut(d.expires, d.issued, at)
                                         /\ \A v \in PurgedUsers(at) : d.goal # part[v].goal},
                 part' = [v \in Users |-> IF v \in PurgedUsers(at) THEN Nobody ELSE part[v]]
               PROVE  FALSE
    BY DEF Purge
  <2>1. u \notin PurgedUsers(at)
    BY <1>1
  <2>2. \A v \in PurgedUsers(at) : c.goal # part[v].goal
    BY <2>1 DEF PurgedUsers, Inv, PartOK
  <2>3. ~RunOut(part[u].expires, part[u].joined, at)
    BY <1>1, <2>1 DEF PurgedUsers
  <2>4. c.expires = part[u].expires /\ part[u].joined <= c.issued
    BY DEF ExpireTogether, Inv, ConsentCoversCards
  <2>5. at \in Int
    OBVIOUS
  <2>6. ~RunOut(c.expires, c.issued, at)
    BY <1>1, <2>3, <2>4, <2>5, Dates DEF RunOut
  <2> QED
    BY <2>2, <2>6
<1>6. ASSUME NEW g \in Goals, Delete(g)
      PROVE  FALSE
  BY <1>1, <1>6 DEF Delete, WithoutCardsOf, GoalOf
<1> QED
  BY <1>2, <1>3, <1>4, <1>5, <1>6, OnlyThese

(* A card is stored only on a day that has no card of the participation. *)
LEMMA StoreNewest ==
  ASSUME Inv, ExpireTogether, NEW r \in Reqs, Stores(r), NEW e \in cards, e.goal = req[r].goal
  PROVE  e.anchor < NewCard(r).anchor
<1> DEFINE new == NewCard(r)
           p == part[req[r].user]
<1>1. /\ pc[r] = "read" /\ memo[r].at \in Instants /\ seen[r].at \in Instants
      /\ req[r].user \in Users
  BY Dates, Anchors DEF Stores, Inv, SlotsOK, Storing, CaptureOK, Memos
<1>2. /\ new.anchor = DayOf[memo[r].at] /\ p # Nobody /\ p = seen[r].part
      /\ p.goal = req[r].goal /\ OwnerOf[e.goal] = req[r].user
  BY NewCardFits DEF Stores
<1>3. new.anchor = DayOf[seen[r].at]
  BY <1>2 DEF Stores, SameInput
<1>4. /\ Live(p, seen[r].at) /\ e.issued <= seen[r].at
      /\ Visible(e, seen[r].at) /\ e.anchor = new.anchor => e \in seen[r].cards
  BY <1>1, <1>2, <1>3 DEF Inv, SlotsOK, Steady, CardsOf
<1>5. e.expires = p.expires /\ p.joined <= e.issued
  BY <1>2 DEF ExpireTogether, Inv, ConsentCoversCards
<1>6. seen[r].at \in Int /\ p.joined \in Int /\ p.expires \in Int /\ e.issued \in Int
  BY <1>1, <1>2, Dates DEF Instants
<1>7. Visible(e, seen[r].at)
  <2> HIDE DEF p
  <2> QED
    BY <1>4, <1>5, <1>6, Dates DEF Visible, Live
<1>8. e.anchor # new.anchor
  BY <1>2, <1>4, <1>7 DEF Stores, OfTheDay
<1>9. e.anchor = DayOf[e.issued] /\ e.issued \in Instants
  BY DEF Inv, CardOK, TypeOK, Cards
<1>10. DayOf[e.issued] <= DayOf[seen[r].at]
  BY <1>1, <1>4, <1>9, EvaluationAssumption
<1>11. DayOf[e.issued] \in Int /\ DayOf[seen[r].at] \in Int
  BY <1>1, <1>9, EvaluationAssumption DEF Days
<1> HIDE DEF new
<1>12. e.anchor < new.anchor
  BY <1>3, <1>8, <1>9, <1>10, <1>11
<1> QED
  BY <1>12 DEF new

(* Who knows of a participation by one goal knows of no other. *)
LEMMA SameGoal ==
  ASSUME OneGoalEach, NEW i \in Tickets, NEW g \in Goals, NEW h \in Goals,
         Remembers(i, g), Remembers(i, h)
  PROVE  g = h
BY DEF OneGoalEach

(* What a slot tells in a step that adds to told. *)
Tells(r, d) ==
  /\ pc[r] = "read" /\ pc'[r] = "idle"
  /\ seen[r].part # Nobody /\ seen[r].part.goal = d.goal /\ seen[r].part.id = d.asked
  /\ d.goal = req[r].goal
  /\ part'[req[r].user] # Nobody => d \in cards'
  /\ \A c \in told' : c.asked = d.asked /\ c.anchor = d.anchor => c = d

LEMMA WhoTells ==
  ASSUME Next, told' # told
  PROVE  \E r \in Reqs :
           \/ pc[r] = "read" /\ Replay(r, DayOf[seen[r].at])
           \/ Stores(r)
<1>1. ASSUME NEW r \in Reqs, CapturePreflight(r)
      PROVE  pc[r] = "read" /\ Replay(r, DayOf[seen[r].at])
  BY <1>1 DEF CapturePreflight, Refuse
<1>2. ASSUME NEW r \in Reqs, CaptureStore(r)
      PROVE  (pc[r] = "read" /\ Replay(r, DayOf[seen[r].at])) \/ Stores(r)
  BY <1>2 DEF CaptureStore, Refuse, SameInput, Stores
<1>3. ASSUME NEW r \in Reqs
      PROVE  ~(SubmitConsent(r) \/ SubmitCapture(r) \/ Abort(r))
  BY DEF SubmitConsent, SubmitCapture, Submit, Abort, Refuse
<1>4. ASSUME NEW r \in Reqs
      PROVE  ~(LockUser(r) \/ LockRow(r) \/ ReadState(r) \/ JoinCommit(r) \/ WithdrawCommit(r)
               \/ CaptureSelect(r) \/ CaptureClock(r))
  BY DEF LockUser, LockRow, ReadState, JoinCommit, WithdrawCommit, CaptureSelect,
     CaptureClock, Refuse
<1>5. ~(Tick \/ Purge \/ \E g \in Goals : Record(g) \/ Edit(g) \/ Delete(g))
  BY DEF Tick, Purge, Record, Edit, Change, Delete
<1> QED
  BY <1>1, <1>2, <1>3, <1>4, <1>5 DEF Next, Work

LEMMA NewlyTold ==
  ASSUME Inv, ToldInv, Next, NEW d \in told' \ told
  PROVE  \E r \in Reqs : Tells(r, d)
<1> USE DEF ToldInv
<1>1. ASSUME NEW r \in Reqs, pc[r] = "read", Replay(r, DayOf[seen[r].at])
      PROVE  Tells(r, d)
  <2>1. /\ told' = told \cup OfTheDay(r, DayOf[seen[r].at])
        /\ part' = part /\ cards' = cards /\ pc'[r] = "idle"
    BY <1>1, AnswerMoves DEF Replay, tables, Inv
  <2>2. d \in seen[r].cards /\ d.anchor = DayOf[seen[r].at]
    BY <2>1 DEF OfTheDay
  <2>3. \A c \in OfTheDay(r, DayOf[seen[r].at]) : c = d
    BY <1>1, <2>2 DEF OfTheDay, SeenOK
  <2> QED
    BY <1>1, <2>1, <2>2, <2>3 DEF Tells, SeenOK
<1>2. ASSUME NEW r \in Reqs, Stores(r)
      PROVE  Tells(r, d)
  <2>1. d = NewCard(r) /\ told' = told \cup {NewCard(r)} /\ pc'[r] = "idle" /\ part' = part
    BY <1>2, AnswerMoves DEF Stores, Inv
  <2>2. /\ pc[r] = "read" /\ d.goal = req[r].goal /\ part[req[r].user] # Nobody
        /\ part[req[r].user] = seen[r].part /\ OwnerOf[d.goal] = req[r].user
        /\ d.asked = seen[r].part.id /\ seen[r].part.goal = d.goal /\ d \in Cards
    BY <1>2, <2>1, NewCardFits DEF Stores
  <2>3. d \in cards'
    BY <1>2, <2>1 DEF Stores
  <2>4. ASSUME NEW c \in told, c.asked = d.asked, c.anchor = d.anchor
        PROVE  FALSE
    <3>1. d.asked \in Tickets /\ d.goal \in Goals /\ c.goal \in Goals
      BY <2>2, Anchors DEF Cards
    <3>2. Remembers(c.asked, c.goal)
      BY DEF Remembers
    <3>3. Remembers(d.asked, d.goal)
      BY <2>2 DEF Remembers
    <3>4. c.goal = d.goal
      BY <2>4, <3>1, <3>2, <3>3, SameGoal
    <3>5. PICK e \in cards : e.goal = d.goal /\ (e = c \/ e.anchor > c.anchor)
      BY <2>2, <2>4, <3>4 DEF ToldStored
    <3>6. e.anchor < d.anchor
      BY <1>2, <2>1, <2>2, <3>5, StoreNewest
    <3> QED
      BY <2>4, <3>5, <3>6, Anchors
  <2> QED
    BY <2>1, <2>2, <2>3, <2>4 DEF Tells
<1> QED
  BY <1>1, <1>2, WhoTells

(* A slot reads in ReadState only. *)
LEMMA WhoReads ==
  ASSUME Inv, Next, NEW s \in Reqs, pc'[s] = "read"
  PROVE  \/ ReadState(s)
         \/ pc[s] = "read" /\ seen'[s] = seen[s] /\ req'[s] = req[s]
<1> DEFINE Rests == pc[s] = "read" /\ seen'[s] = seen[s] /\ req'[s] = req[s]
<1> USE DEF Inv, TypeOK
<1>1. ASSUME NEW r \in Reqs, Answer(r)
      PROVE  Rests
  BY <1>1 DEF Answer
<1>2. ASSUME NEW r \in Reqs, SubmitConsent(r) \/ SubmitCapture(r) \/ Abort(r)
      PROVE  Rests
  BY <1>1, <1>2 DEF SubmitConsent, SubmitCapture, Submit, Abort, Refuse
<1>3. ASSUME NEW r \in Reqs, LockUser(r) \/ LockRow(r) \/ CaptureSelect(r) \/ CaptureClock(r)
      PROVE  Rests
  BY <1>1, <1>3 DEF LockUser, LockRow, CaptureSelect, CaptureClock, Refuse
<1>4. ASSUME NEW r \in Reqs, JoinCommit(r) \/ WithdrawCommit(r) \/ CaptureStore(r)
      PROVE  Rests
  BY <1>1, <1>4 DEF JoinCommit, WithdrawCommit, CaptureStore, Refuse, Replay
<1>5. ASSUME NEW r \in Reqs, CapturePreflight(r)
      PROVE  Rests
  BY <1>1, <1>5 DEF CapturePreflight, Refuse, Replay
<1>6. ASSUME NEW r \in Reqs, ReadState(r)
      PROVE  ReadState(s) \/ Rests
  BY <1>6 DEF ReadState
<1>7. ASSUME Tick \/ Purge \/ \E g \in Goals : Record(g) \/ Edit(g) \/ Delete(g)
      PROVE  Rests
  BY <1>7 DEF Tick, Purge, Record, Edit, Change, Delete
<1> HIDE DEF Rests
<1>8. ReadState(s) \/ Rests
  BY <1>2, <1>3, <1>4, <1>5, <1>6, <1>7 DEF Next, Work
<1> QED
  BY <1>8 DEF Rests

(* What is read of a participation is the participation. *)
LEMMA ReadRemembers ==
  ASSUME Inv, NEW s \in Reqs, ReadState(s)
  PROVE  /\ seen'[s].at = now /\ seen'[s].part = ReadPart(req[s].user, now)
         /\ seen'[s].cards = ReadCards(req[s].user, req[s].goal, now)
         /\ req'[s] = req[s] /\ part' = part /\ cards' = cards /\ told' = told
         /\ req[s].user \in Users /\ req[s].goal \in Goals
         /\ OwnerOf[req[s].goal] = req[s].user
         /\ seen'[s].part # Nobody =>
              seen'[s].part = part[req[s].user] /\ part[req[s].user] # Nobody
<1>1. pc[s] = "locked" /\ req[s] \in Requests /\ Owned(req[s].user, req[s].goal)
  BY DEF ReadState, Inv, SlotsOK, SlotOK
<1>2. seen' = [seen EXCEPT ![s] =
        [at |-> now, part |-> ReadPart(req[s].user, now),
         cards |-> ReadCards(req[s].user, req[s].goal, now)]]
  BY DEF ReadState
<1>3. seen'[s] = [at |-> now, part |-> ReadPart(req[s].user, now),
                  cards |-> ReadCards(req[s].user, req[s].goal, now)]
  BY <1>2 DEF Inv, TypeOK
<1> QED
  BY <1>1, <1>3, RequestFields DEF ReadState, tables, Owned, ReadPart

LEMMA OneGoalStep ==
  ASSUME Inv, Inv', ToldInv, Next
  PROVE  OneGoalEach'
<1> DEFINE Fresh(i, g) ==
      i > joins /\ \E u \in Users : part'[u] # Nobody /\ part'[u].id = i /\ part'[u].goal = g
<1>1. ASSUME NEW i \in Tickets, NEW g \in Goals, Remembers(i, g)'
      PROVE  Remembers(i, g) \/ Fresh(i, g)
  <2>1. ASSUME NEW u \in Users, part'[u] # Nobody, part'[u].id = i, part'[u].goal = g
        PROVE  Remembers(i, g) \/ Fresh(i, g)
    BY <2>1, OnwardStep DEF Remembers
  <2>2. ASSUME NEW s \in Reqs, pc'[s] = "read", seen'[s].part # Nobody,
               seen'[s].part.id = i, seen'[s].part.goal = g
        PROVE  Remembers(i, g)
    <3>1. CASE ReadState(s)
      BY <2>2, <3>1, ReadRemembers DEF Remembers
    <3>2. CASE ~ReadState(s)
      BY <2>2, <3>2, WhoReads DEF Remembers
    <3> QED
      BY <3>1, <3>2
  <2>3. ASSUME NEW d \in told', d.asked = i, d.goal = g
        PROVE  Remembers(i, g)
    <3>1. CASE d \in told
      BY <2>3, <3>1 DEF Remembers
    <3>2. CASE d \notin told
      BY <2>3, <3>2, NewlyTold DEF Tells, Remembers
    <3> QED
      BY <3>1, <3>2
  <2> QED
    BY <1>1, <2>1, <2>2, <2>3 DEF Remembers
<1>2. joins <= joins' /\ joins \in Int /\ joins' \in Int
  BY Anchors, JoinsGrow DEF Inv, TypeOK
<1>3. SUFFICES ASSUME NEW i \in Tickets, NEW j \in Tickets, NEW g \in Goals, NEW h \in Goals,
                      Remembers(i, g)', Remembers(j, h)'
               PROVE  i <= joins' /\ (i = j => g = h)
  BY DEF OneGoalEach
<1>4. i \in Int /\ j \in Int
  BY DEF Tickets
<1>5. ASSUME NEW k \in Tickets, NEW f \in Goals, Remembers(k, f)
      PROVE  k <= joins
  BY <1>5 DEF ToldInv, OneGoalEach
<1>6. Fresh(i, g) => i <= joins'
  BY DEF Inv, PartOK
<1>7. Fresh(i, g) /\ Fresh(j, h) /\ i = j => g = h
  BY DEF Inv, PartOK
<1>8. Remembers(i, g) /\ Remembers(j, h) /\ i = j => g = h
  BY SameGoal DEF ToldInv
<1>9. (Remembers(i, g) \/ Fresh(i, g)) /\ (Remembers(j, h) \/ Fresh(j, h))
  BY <1>1, <1>3
<1>10. (Fresh(i, g) => i > joins) /\ (Fresh(j, h) => j > joins)
  OBVIOUS
<1> HIDE DEF Fresh
<1> QED
  BY <1>2, <1>4, <1>5, <1>6, <1>7, <1>8, <1>9, <1>10

LEMMA ExpireStep ==
  ASSUME Inv, Inv', ToldInv, Next
  PROVE  ExpireTogether'
<1> SUFFICES ASSUME NEW c \in cards'
             PROVE  c.expires = part'[OwnerOf[c.goal]].expires
  BY DEF ExpireTogether
<1>1. CASE c \in cards
  <2> DEFINE u == OwnerOf[c.goal]
  <2>1. part'[u] # Nobody /\ part'[u].id = c.asked
    BY DEF Inv, ConsentCoversCards
  <2>2. part[u] # Nobody /\ part[u].id = c.asked /\ u \in Users
    BY <1>1, OwnersOfCards DEF Inv, ConsentCoversCards
  <2>3. c.asked <= joins /\ c.asked \in Int
    BY <1>1, <2>2, Anchors DEF Inv, PartOK, Tickets
  <2>4. part'[u] = part[u]
    BY <2>1, <2>2, <2>3, OnwardStep, Anchors
  <2> QED
    BY <1>1, <2>4 DEF ToldInv, ExpireTogether
<1>2. CASE c \notin cards
  <2>1. PICK r \in Reqs : Stores(r) /\ c = NewCard(r)
    BY <1>2, NewCardIsStored
  <2> DEFINE p == part[req[r].user]
  <2>2. /\ p # Nobody /\ p = seen[r].part /\ OwnerOf[c.goal] = req[r].user
        /\ p.joined <= c.issued /\ c.issued = memo[r].at
    BY <2>1, NewCardFits DEF Stores
  <2>3. req[r].user \in Users
    BY <2>1, Anchors DEF Stores
  <2>4. p.expires = p.joined + Retention /\ p.joined \in Int
    BY <2>2, <2>3, Dates DEF Inv, PartOK
  <2>5. c.issued \in Int
    BY <2>1, NewCardFits DEF Stores, Cards, Instants
  <2>6. c.expires = Least(c.issued + Retention, p.expires)
    BY <2>1, <2>2 DEF NewCard
  <2>7. part' = part
    BY <2>1 DEF Stores
  <2>8. c.expires = p.expires
    <3> HIDE DEF p
    <3> QED
      BY <2>2, <2>4, <2>5, <2>6, Dates DEF Least
  <2> QED
    BY <2>2, <2>7, <2>8
<1> QED
  BY <1>1, <1>2

LEMMA StoredStep ==
  ASSUME Inv, Inv', ToldInv, Next
  PROVE  ToldStored'
<1> SUFFICES ASSUME NEW d \in told', part'[OwnerOf[d.goal]] # Nobody,
                    part'[OwnerOf[d.goal]].id = d.asked
             PROVE  \E e \in cards' : e.goal = d.goal /\ (e = d \/ e.anchor > d.anchor)
  BY DEF ToldStored
<1> DEFINE u == OwnerOf[d.goal]
<1>1. CASE d \notin told
  <2>1. PICK r \in Reqs : Tells(r, d)
    BY <1>1, NewlyTold
  <2> QED
    BY <2>1, Anchors DEF Tells
<1>2. CASE d \in told
  <2>1. d.asked \in Tickets /\ d.goal \in Goals /\ u \in Users /\ d.anchor \in Int
    BY <1>2, Anchors, EvaluationAssumption
  <2>2. Remembers(d.asked, d.goal)
    BY <1>2 DEF Remembers
  <2>3. d.asked <= joins /\ d.asked \in Int
    BY <2>1, <2>2 DEF ToldInv, OneGoalEach, Tickets
  <2>4. part'[u] = part[u]
    BY <2>1, <2>3, OnwardStep, Anchors
  <2>5. PICK e \in cards : e.goal = d.goal /\ (e = d \/ e.anchor > d.anchor)
    BY <1>2, <2>4 DEF ToldInv, ToldStored
  <2>6. CASE e \notin cards'
    <3>1. PICK r \in Reqs : Stores(r) /\ req[r].goal = d.goal
      BY <2>4, <2>5, <2>6, CardLoss DEF ToldInv
    <3>2. e.anchor < NewCard(r).anchor
      BY <2>5, <3>1, StoreNewest DEF ToldInv
    <3>3. NewCard(r).goal = d.goal /\ NewCard(r) \in cards' /\ NewCard(r) \in Cards
      BY <3>1, NewCardFits DEF Stores
    <3>4. NewCard(r).anchor \in Int /\ e.anchor \in Int
      BY <3>3, Anchors DEF Cards, Days
    <3>5. NewCard(r).anchor > d.anchor
      BY <2>1, <2>5, <3>2, <3>4
    <3> QED
      BY <3>3, <3>5
  <2> QED
    BY <2>5, <2>6
<1> QED
  BY <1>1, <1>2

LEMMA FirstCardStep ==
  ASSUME Inv, ToldInv, Next
  PROVE  FirstCardStands'
<1> SUFFICES ASSUME NEW c \in told', NEW d \in told', c.asked = d.asked, c.anchor = d.anchor
             PROVE  c = d
  BY DEF FirstCardStands
<1>1. CASE c \in told /\ d \in told
  BY <1>1 DEF ToldInv, FirstCardStands
<1>2. CASE c \notin told \/ d \notin told
  BY <1>2, NewlyTold DEF Tells
<1> QED
  BY <1>1, <1>2

(* Today's card is the last of the participation: what was told of today is *)
(* what is read of today.                                                   *)
LEMMA SeenNow ==
  ASSUME Inv, ToldInv, NEW s \in Reqs, ReadState(s)
  PROVE  SeenOK(s)'
<1> SUFFICES ASSUME NEW c \in seen'[s].cards
             PROVE  /\ seen'[s].part # Nobody /\ seen'[s].part.goal = req'[s].goal
                    /\ c.goal = req'[s].goal /\ c.asked = seen'[s].part.id
                    /\ part'[req'[s].user] # Nobody => c \in cards'
                    /\ \A e \in seen'[s].cards : e.anchor = c.anchor => e = c
                    /\ c.anchor = DayOf[seen'[s].at] =>
                         \A d \in told' : d.asked = c.asked /\ d.anchor = c.anchor => d = c
  BY DEF SeenOK
<1> DEFINE u == req[s].user
           g == req[s].goal
<1>1. /\ seen'[s].at = now /\ seen'[s].part = ReadPart(u, now)
      /\ seen'[s].cards = ReadCards(u, g, now)
      /\ req'[s] = req[s] /\ part' = part /\ cards' = cards /\ told' = told
      /\ OwnerOf[g] = u
  BY ReadRemembers
<1>2. /\ ReadPart(u, now) # Nobody /\ part[u] # Nobody /\ ReadPart(u, now) = part[u]
      /\ part[u].goal = g
      /\ \A e \in ReadCards(u, g, now) : e \in cards /\ e.goal = g
  BY <1>1 DEF ReadCards, ReadPart, Latest, CardsOf
<1>3. c \in cards /\ c.goal = g /\ c.asked = part[u].id
  BY <1>1, <1>2 DEF Inv, ConsentCoversCards
<1>4. \A e \in seen'[s].cards : e.anchor = c.anchor => e = c
  BY <1>1, <1>2, <1>3 DEF Inv, CardOK
<1>5. ASSUME c.anchor = DayOf[now], NEW d \in told, d.asked = c.asked, d.anchor = c.anchor
      PROVE  d = c
  <2>1. d.asked \in Tickets /\ d.goal \in Goals /\ g \in Goals /\ u \in Users
    BY Anchors, ReadRemembers
  <2>2. Remembers(d.asked, d.goal)
    BY DEF Remembers
  <2>3. Remembers(d.asked, g)
    BY <1>2, <1>3, <1>5, <2>1 DEF Remembers
  <2>4. d.goal = g
    BY <2>1, <2>2, <2>3, SameGoal DEF ToldInv
  <2>5. PICK e \in cards : e.goal = g /\ (e = d \/ e.anchor > d.anchor)
    BY <1>1, <1>2, <1>3, <1>5, <2>4 DEF ToldInv, ToldStored
  <2>6. e.issued \in Instants /\ e.issued <= now /\ e.anchor = DayOf[e.issued] /\ now \in Instants
    BY DEF Inv, CardOK, TypeOK, Cards
  <2>7. e.anchor <= DayOf[now]
    BY <2>6, EvaluationAssumption
  <2>8. e.anchor \in Int /\ DayOf[now] \in Int
    BY <2>6, EvaluationAssumption DEF Days
  <2>9. e = d
    BY <1>5, <2>5, <2>7, <2>8
  <2> QED
    BY <1>3, <1>5, <2>4, <2>9 DEF Inv, CardOK
<1> QED
  BY <1>1, <1>2, <1>3, <1>4, <1>5

LEMMA SeenStep ==
  ASSUME Inv, Inv', ToldInv, Next, NEW s \in Reqs
  PROVE  SeenOK(s)'
<1>1. CASE ReadState(s)
  BY <1>1, SeenNow
<1>2. CASE ~ReadState(s)
  <2> SUFFICES ASSUME pc'[s] = "read", NEW c \in seen'[s].cards
               PROVE  /\ seen'[s].part # Nobody /\ seen'[s].part.goal = req'[s].goal
                      /\ c.goal = req'[s].goal /\ c.asked = seen'[s].part.id
                      /\ part'[req'[s].user] # Nobody => c \in cards'
                      /\ \A e \in seen'[s].cards : e.anchor = c.anchor => e = c
                      /\ c.anchor = DayOf[seen'[s].at] =>
                           \A d \in told' : d.asked = c.asked /\ d.anchor = c.anchor => d = c
    BY DEF SeenOK
  <2>1. pc[s] = "read" /\ seen'[s] = seen[s] /\ req'[s] = req[s]
    BY <1>2, WhoReads
  <2> DEFINE u == req[s].user
             g == req[s].goal
  <2>2. /\ seen[s].part # Nobody /\ seen[s].part.goal = g /\ c.goal = g
        /\ c.asked = seen[s].part.id
        /\ part[u] # Nobody => c \in cards
        /\ \A e \in seen[s].cards : e.anchor = c.anchor => e = c
        /\ c.anchor = DayOf[seen[s].at] =>
             \A d \in told : d.asked = c.asked /\ d.anchor = c.anchor => d = c
    BY <2>1 DEF ToldInv, SeenOK
  <2>3. u \in Users /\ g \in Goals /\ OwnerOf[g] = u /\ seen[s].part.id \in Tickets
    BY <2>1, <2>2, Anchors
  <2>4. ASSUME NEW r \in Reqs, pc[r] = "read", pc'[r] = "idle"
        PROVE  req[r].goal # g
    <3>1. OwnerOf[req[r].goal] = req[r].user
      BY <2>4, Anchors
    <3> QED
      BY <2>1, <2>3, <2>4, <3>1 DEF Inv, OneHolder, Locked
  <2>5. part'[u] # Nobody => c \in cards'
    <3> SUFFICES ASSUME part'[u] # Nobody, c \notin cards'
                 PROVE  FALSE
      OBVIOUS
    <3>1. part'[u] = seen[s].part
      BY <2>1, <2>2 DEF Inv, SlotsOK, Steady
    <3>2. seen[s].part.id <= joins /\ seen[s].part.id \in Int
      BY <2>1, <2>2, <2>3 DEF Inv, SlotsOK, Steady, Tickets
    <3>3. part'[u] = part[u]
      BY <2>3, <3>1, <3>2, OnwardStep, Anchors
    <3>4. PICK r \in Reqs : Stores(r) /\ req[r].goal = g
      BY <2>2, <2>3, <3>3, CardLoss DEF ToldInv
    <3>5. pc[r] = "read" /\ pc'[r] = "idle"
      BY <3>4, AnswerMoves DEF Stores, Inv
    <3> QED
      BY <2>4, <3>4, <3>5
  <2>6. ASSUME NEW d \in told' \ told, d.asked = c.asked
        PROVE  FALSE
    <3>1. PICK r \in Reqs : Tells(r, d)
      BY NewlyTold
    <3>2. d.goal = req[r].goal /\ d.goal \in Goals /\ d.asked \in Tickets
      BY <2>2, <2>3, <2>6, <3>1, Anchors DEF Tells
    <3>3. Remembers(d.asked, d.goal) /\ Remembers(d.asked, g)
      BY <2>1, <2>2, <2>6, <3>1 DEF Tells, Remembers
    <3>4. d.goal = g
      BY <2>3, <3>2, <3>3, SameGoal DEF ToldInv
    <3> QED
      BY <2>4, <3>1, <3>2, <3>4 DEF Tells
  <2> QED
    BY <2>1, <2>2, <2>5, <2>6
<1> QED
  BY <1>1, <1>2

LEMMA ToldStep ==
  ASSUME Inv, Inv', ToldInv, [Next]_vars
  PROVE  ToldInv'
<1>1. CASE Next
  BY <1>1, OneGoalStep, ExpireStep, StoredStep, FirstCardStep, SeenStep DEF ToldInv
<1>2. CASE UNCHANGED vars
  BY <1>2 DEF vars, ToldInv, OneGoalEach, Remembers, ExpireTogether, ToldStored,
     FirstCardStands, SeenOK
<1> QED
  BY <1>1, <1>2

(* One participation, one day, one card: whatever captures run at once and  *)
(* whatever changes between them, all answers of a day are the same card.   *)
THEOREM OneAnswerADay == Spec => []FirstCardStands
<1>1. Init => ToldInv
  BY DEF Init, ToldInv, OneGoalEach, Remembers, ExpireTogether, ToldStored,
     FirstCardStands, SeenOK
<1>2. ToldInv => FirstCardStands
  BY DEF ToldInv
<1> QED
  BY <1>1, <1>2, ToldStep, InvHolds, PTL DEF Spec

(* What the run evaluation checks of both, for any number of accounts.      *)
THEOREM WhatIsAcceptedStands == Spec => AcceptedStands
BY ConsentStands, CardsStand DEF AcceptedStands
=============================================================================
