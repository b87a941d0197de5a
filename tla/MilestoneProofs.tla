-------------------------- MODULE MilestoneProofs --------------------------
(***************************************************************************)
(* Proofs about Milestone for any accounts, goals, slots, calendar and     *)
(* policy.                                                                 *)
(*                                                                         *)
(* A transaction knows, while it holds its two locks, that the             *)
(* participation it has read is still there or has been purged, that the   *)
(* coefficient it has read goes only with that participation, and that the *)
(* last revision of consent was spent by it (SeenOK).  What a capture or a *)
(* fit keeps from its first transaction to its second is tied to the       *)
(* participation by a number that is never given twice (MemoOK, PartOK),   *)
(* and a generation belongs to one fit only (GenOK).                       *)
(*                                                                         *)
(* What a coefficient was learned from is a function of records that no    *)
(* request can write any more (Learned): that is why it stays true.        *)
(***************************************************************************)
EXTENDS Milestone, FiniteSetTheorems, TLAPS

Held(s) == pc[s] = "held"

Busy(s, kinds) == pc[s] # "idle" /\ req[s].kind \in kinds

(* A slot is where its kind of request can be. *)
SlotOK(s) ==
  /\ pc[s] # "idle" =>
       req[s] \in Requests /\ OwnerOf[req[s].goal] = req[s].user
  /\ pc[s] = "computing" => req[s].kind \in {"store", "fitted"}
  /\ Held(s) => goal[req[s].goal] # Gone /\ seen[s] \in Views /\ seen[s].at <= now
  /\ Busy(s, {"capture", "store", "fit", "fitted"}) => req[s].ticket <= joins

(* What was read of the participation is true until the locks go, purges    *)
(* apart, and no other account ever has its number.                         *)
PartSeen(s) ==
  IF seen[s].part = Nobody
  THEN part[req[s].user] # Nobody => ~Live(part[req[s].user], seen[s].at)
  ELSE /\ Live(seen[s].part, seen[s].at)
       /\ seen[s].part.id <= joins /\ seen[s].part.joined <= seen[s].at
       /\ part[req[s].user] \in {seen[s].part, Nobody}
       /\ \A u \in Users :
            part[u] # Nobody /\ part[u].id = seen[s].part.id => u = req[s].user

(* Nobody else fits the goal or spends its last revision of consent. *)
GoalSeen(s) ==
  seen[s].part # Nobody /\ seen[s].part.goal = req[s].goal =>
    /\ part[req[s].user] = seen[s].part => artifact[req[s].goal] = seen[s].art
    /\ \A x \in spent :
         x.goal = req[s].goal /\ x.consent = goal[req[s].goal].consent - 1 =>
           x.by = "join" /\ x.ticket = seen[s].part.id

(* So are the episodes, which go with the participation and not before. *)
ForecastsSeen(s) ==
  \A e \in seen[s].forecasts :
    /\ seen[s].part # Nobody /\ e.expires > seen[s].at /\ e.expires = seen[s].part.expires
    /\ e.goal = req[s].goal /\ (part[req[s].user] = seen[s].part => e \in forecasts)

SeenOK(s) == Held(s) => PartSeen(s) /\ GoalSeen(s) /\ ForecastsSeen(s)

(* A receipt is what the records say of its episode up to its last day. *)
Learned(c, recs) ==
  /\ c.label.state # "EXPIRED"
  /\ c.label.state # "INVALID" =>
       IF c.through <= c.from.origin THEN c.label = Blank("PENDING", c.through)
       ELSE c.label = Observed(c.from, recs, c.through)

(* That day can no longer be corrected. *)
Mature(c, at) == c.through <= LastMature(at) /\ c.through <= End(c.from)

Trained(receipts, row, at) ==
  \A c \in receipts : Mature(c, at) /\ (row # Gone => Learned(c, row.recs))

(* What a capture or a fit has kept. *)
MemoOK(s) ==
  /\ Busy(s, {"store", "fitted"}) =>
       /\ memo[s] \in Memos /\ memo[s].at <= now
       /\ Held(s) => memo[s].at <= seen[s].at
       /\ \A u \in Users : part[u] # Nobody /\ part[u].id = req[s].ticket =>
            part[u].joined <= memo[s].at
  /\ Busy(s, {"store"}) => Capturable(memo[s].recs, DayOf[memo[s].at])
  /\ Busy(s, {"fitted"}) => Trained(memo[s].receipts, goal[req[s].goal], now)

SlotsOK == \A s \in Reqs : SlotOK(s) /\ SeenOK(s) /\ MemoOK(s)

OneHolder == \A s, t \in Reqs : Held(s) /\ Held(t) /\ req[s].user = req[t].user => s = t

PartOK ==
  /\ \A u \in Users : part[u] # Nobody =>
       /\ OwnerOf[part[u].goal] = u
       /\ part[u].id <= joins /\ part[u].joined <= now
       /\ part[u].expires = part[u].joined + Retention
  /\ \A u, v \in Users : part[u] # Nobody /\ part[v] # Nobody /\ part[u].id = part[v].id => u = v

(* The fits of a participation that are being computed. *)
FitsOf(u) == {s \in Reqs : Busy(s, {"fitted"}) /\ req[s].ticket = part[u].id}

(* A generation was reserved for one fit. *)
GenOK ==
  \A u \in Users : part[u] # Nobody =>
    /\ \A s \in FitsOf(u) : req[s].gen < part[u].gen
    /\ \A s, t \in FitsOf(u) : req[s].gen = req[t].gen => s = t
    /\ \A s \in FitsOf(u), g \in Goals :
         artifact[g] # None /\ artifact[g].name.ticket = part[u].id =>
           artifact[g].name.gen # req[s].gen + 1

(* The last revision of consent made the participation that lives. *)
SpentOK ==
  /\ \A x \in spent : goal[x.goal] # Gone => x.consent < goal[x.goal].consent
  /\ \A u \in Users : part[u] # Nobody /\ Live(part[u], now) /\ goal[part[u].goal] # Gone =>
       \A x \in spent :
         x.goal = part[u].goal /\ x.consent = goal[part[u].goal].consent - 1 =>
           x.by = "join" /\ x.ticket = part[u].id
  /\ RevisionsAreSpentOnce

(* An episode and a coefficient run out with their participation. *)
EpisodeCovered(e) ==
  LET p == part[OwnerOf[e.goal]] IN
  p # Nobody /\ p.goal = e.goal /\ p.id = e.ticket /\ p.joined <= e.issued /\ p.expires = e.expires

FitCovered(g) ==
  LET p == part[OwnerOf[g]]  a == artifact[g] IN
  a # None =>
    /\ p # Nobody /\ p.goal = g /\ p.id = a.name.ticket
    /\ p.joined <= a.created /\ p.expires = a.expires /\ a.name.gen <= p.gen
    /\ Trained(a.receipts, goal[g], now)

CoverOK == (\A e \in forecasts : EpisodeCovered(e)) /\ (\A g \in Goals : FitCovered(g))

Inv == TypeOK /\ SlotsOK /\ OneHolder /\ PartOK /\ GenOK /\ SpentOK /\ CoverOK

-----------------------------------------------------------------------------
(* What the records say of an episode. *)

LEMMA LeastExists ==
  ASSUME NEW n \in Nat, NEW S \in SUBSET (0 .. n), S # {}
  PROVE  \E x \in S : \A y \in S : x <= y
<1> DEFINE Upto(x) == {y \in S : y <= x}
           T == {Upto(x) : x \in S}
<1>1. IsFiniteSet(0 .. n)
  BY FS_Interval
<1>2. IsFiniteSet(S)
  BY <1>1, FS_Subset
<1>3. T \subseteq SUBSET S /\ T # {}
  OBVIOUS
<1>4. IsWellFoundedOn(StrictSubsetOrdering(S), SUBSET S)
  BY <1>2, FS_StrictSubsetOrderingWellFounded, FS_FiniteSubsetsOfFinite
<1>5. PICK m \in T : \A t \in T : <<t, m>> \notin StrictSubsetOrdering(S)
  <2> HIDE DEF T
  <2> QED
    BY <1>3, <1>4, WFMin
<1>6. PICK x \in S : m = Upto(x)
  OBVIOUS
<1>7. ASSUME NEW y \in S, y < x
      PROVE  FALSE
  <2>0. x \in Int /\ \A z \in S : z \in Int
    OBVIOUS
  <2>1. \A z \in S : z <= y => z <= x
    BY <1>7, <2>0
  <2>2. x <= x /\ ~(x <= y)
    BY <1>7, <2>0
  <2>3. Upto(y) \subseteq Upto(x) /\ x \in Upto(x) /\ x \notin Upto(y)
    BY <2>1, <2>2
  <2>4. Upto(y) \in SUBSET S /\ Upto(x) \in SUBSET S /\ Upto(y) # Upto(x)
    BY <2>3
  <2> HIDE DEF Upto
  <2>5. <<Upto(y), Upto(x)>> \in StrictSubsetOrdering(S)
    BY <2>3, <2>4 DEF StrictSubsetOrdering
  <2> QED
    BY <1>5, <1>6, <2>5
<1>8. \A y \in S : x <= y
  BY <1>7
<1> QED
  BY <1>8

(* The days the milestone was reached, and the day an observation ends on. *)
Hits(e, recs, through) == {d \in DaysFrom(e, through) : Reached(e, recs, d)}

Last(e, recs, through) ==
  IF Hits(e, recs, through) = {} THEN through
  ELSE CHOOSE d \in Hits(e, recs, through) : \A n \in Hits(e, recs, through) : d <= n

StateBy(e, recs, through) ==
  IF Hits(e, recs, through) # {}
  THEN (IF Complete(e, recs, Last(e, recs, through)) THEN "EVENT" ELSE "INTERVAL")
  ELSE IF AtRisk(e, recs, through) # {} THEN "CENSOR" ELSE "UNKNOWN"

LEMMA ObservedIs ==
  ASSUME NEW e, NEW recs, NEW through
  PROVE  Observed(e, recs, through) =
           [state |-> StateBy(e, recs, through), through |-> Last(e, recs, through),
            days |-> [d \in DaysFrom(e, Last(e, recs, through)) |-> recs[d]]]
BY DEF Observed, StateBy, Last, Hits

LEMMA LastIs ==
  ASSUME NEW e, NEW recs, NEW through \in Int
  PROVE  /\ Last(e, recs, through) \in Int /\ Last(e, recs, through) <= through
         /\ Hits(e, recs, through) # {} =>
              /\ Last(e, recs, through) \in Hits(e, recs, through)
              /\ \A n \in Hits(e, recs, through) : Last(e, recs, through) <= n
<1> DEFINE S == Hits(e, recs, through)
<1>1. LastDay \in Nat
  BY MilestoneAssumption
<1>2. S \in SUBSET (0 .. LastDay) /\ \A d \in S : d <= through
  BY DEF Hits, DaysFrom, Days
<1> HIDE DEF S
<1>3. CASE S = {}
  BY <1>3 DEF Last, S
<1>4. CASE S # {}
  <2>1. \E x \in S : \A y \in S : x <= y
    BY <1>1, <1>2, <1>4, LeastExists
  <2>2. Last(e, recs, through) \in S /\ \A n \in S : Last(e, recs, through) <= n
    BY <1>4, <2>1 DEF Last, S
  <2> QED
    BY <1>1, <1>2, <2>2 DEF S
<1> QED
  BY <1>3, <1>4

(* Only the records of the days up to through matter. *)
LEMMA DaysAgree ==
  ASSUME NEW e, e.origin \in Days, NEW through \in Int, NEW recs, NEW recs2,
         \A d \in Days : d <= through => recs[d] = recs2[d],
         NEW d \in Days, d <= through
  PROVE  /\ Reached(e, recs, d) = Reached(e, recs2, d)
         /\ Complete(e, recs, d) = Complete(e, recs2, d)
<1>1. \A n \in e.origin + 1 .. d : recs[n] = recs2[n]
  <2> TAKE n \in e.origin + 1 .. d
  <2>1. LastDay \in Nat /\ through \in Int /\ e.origin \in Nat /\ d \in Int /\ d <= LastDay
    BY MilestoneAssumption DEF Days
  <2>2. n \in Int /\ n >= 0 /\ n <= d /\ n <= LastDay
    BY <2>1
  <2>3. n \in Days /\ n <= through
    BY <2>1, <2>2 DEF Days
  <2> QED
    BY <2>3
<1>2. {n \in e.origin + 1 .. d : recs[n] = "DONE"} = {n \in e.origin + 1 .. d : recs2[n] = "DONE"}
  BY <1>1
<1>3. Reached(e, recs, d) = Reached(e, recs2, d)
  BY <1>2 DEF Reached, DoneBy
<1> QED
  BY <1>1, <1>3 DEF Complete

LEMMA ObservedStands ==
  ASSUME NEW e, e.origin \in Days, NEW through \in Int, NEW recs, NEW recs2,
         \A d \in Days : d <= through => recs[d] = recs2[d]
  PROVE  Observed(e, recs, through) = Observed(e, recs2, through)
<1>1. \A d \in DaysFrom(e, through) :
        /\ Reached(e, recs, d) = Reached(e, recs2, d)
        /\ Complete(e, recs, d) = Complete(e, recs2, d)
  BY DaysAgree DEF DaysFrom
<1>2. Hits(e, recs, through) = Hits(e, recs2, through)
  BY <1>1 DEF Hits
<1>3. Last(e, recs, through) = Last(e, recs2, through)
  BY <1>2 DEF Last
<1>4. AtRisk(e, recs, through) = AtRisk(e, recs2, through)
  BY <1>1 DEF AtRisk
<1>5. Hits(e, recs, through) # {} => Last(e, recs, through) \in DaysFrom(e, through)
  BY LastIs DEF Hits
<1>6. StateBy(e, recs, through) = StateBy(e, recs2, through)
  BY <1>1, <1>2, <1>3, <1>4, <1>5 DEF StateBy
<1>7. \A d \in DaysFrom(e, Last(e, recs, through)) : recs[d] = recs2[d]
  <2>1. Last(e, recs, through) \in Int /\ Last(e, recs, through) <= through
    BY LastIs
  <2>2. \A d \in DaysFrom(e, Last(e, recs, through)) : d \in Days /\ d \in Int /\ d <= Last(e, recs, through)
    BY DEF DaysFrom, Days
  <2>3. \A d \in DaysFrom(e, Last(e, recs, through)) : d <= through
    BY <2>1, <2>2
  <2> QED
    BY <2>2, <2>3
<1>8. [d \in DaysFrom(e, Last(e, recs, through)) |-> recs[d]] =
      [d \in DaysFrom(e, Last(e, recs2, through)) |-> recs2[d]]
  BY <1>3, <1>7
<1> QED
  BY <1>3, <1>6, <1>8, ObservedIs

(* An observation that is cut off on its own last day says the same. *)
LEMMA ObservedAgain ==
  ASSUME NEW e, e.origin \in Days, NEW through \in Int, NEW recs
  PROVE  Observed(e, recs, Last(e, recs, through)) = Observed(e, recs, through)
<1> DEFINE last == Last(e, recs, through)
<1>1. CASE Hits(e, recs, through) = {}
  BY <1>1 DEF Last
<1>2. CASE Hits(e, recs, through) # {}
  <2>1. /\ last \in Hits(e, recs, through) /\ last \in Int /\ last <= through
        /\ \A n \in Hits(e, recs, through) : last <= n
    BY <1>2, LastIs
  <2> HIDE DEF last
  <2>2. \A d \in DaysFrom(e, last) : d \in DaysFrom(e, through)
    BY <2>1 DEF DaysFrom, Days
  <2>3. Hits(e, recs, last) \subseteq Hits(e, recs, through)
    BY <2>2 DEF Hits
  <2>4. last \in Hits(e, recs, last)
    BY <2>1 DEF Hits, DaysFrom
  <2>5. Last(e, recs, last) = last
    <3>1. /\ Last(e, recs, last) \in Hits(e, recs, last) /\ Last(e, recs, last) <= last
          /\ Last(e, recs, last) \in Int
      BY <2>1, <2>4, LastIs
    <3>2. last <= Last(e, recs, last)
      BY <2>1, <2>3, <3>1
    <3> QED
      BY <2>1, <3>1, <3>2
  <2>6. StateBy(e, recs, last) = StateBy(e, recs, through)
    BY <1>2, <2>4, <2>5 DEF StateBy, last
  <2>7. Observed(e, recs, last) =
          [state |-> StateBy(e, recs, through), through |-> last,
           days |-> [d \in DaysFrom(e, last) |-> recs[d]]]
    BY <2>5, <2>6, ObservedIs
  <2>8. Observed(e, recs, through) =
          [state |-> StateBy(e, recs, through), through |-> last,
           days |-> [d \in DaysFrom(e, last) |-> recs[d]]]
    BY ObservedIs DEF last
  <2> QED
    BY <2>7, <2>8 DEF last
<1> QED
  BY <1>1, <1>2

LEMMA ObservedType ==
  ASSUME NEW e, NEW through \in Int, NEW recs \in Records
  PROVE  /\ Observed(e, recs, through) \in Labels
         /\ Observed(e, recs, through).through = Last(e, recs, through)
         /\ Observed(e, recs, through).state \in {"EVENT", "INTERVAL", "CENSOR", "UNKNOWN"}
<1> DEFINE S == DaysFrom(e, Last(e, recs, through))
           f == [d \in S |-> recs[d]]
<1>1. Last(e, recs, through) \in Int
  BY LastIs
<1>2. S \in SUBSET Days
  BY DEF DaysFrom
<1>3. f \in [S -> Statuses]
  BY <1>2 DEF Records
<1>4. f \in UNION {[T -> Statuses] : T \in SUBSET Days}
  BY <1>2, <1>3
<1>5. StateBy(e, recs, through) \in {"EVENT", "INTERVAL", "CENSOR", "UNKNOWN"}
  BY DEF StateBy
<1>6. Observed(e, recs, through) =
        [state |-> StateBy(e, recs, through), through |-> Last(e, recs, through), days |-> f]
  BY ObservedIs
<1> HIDE DEF f
<1> QED
  BY <1>1, <1>4, <1>5, <1>6 DEF Labels, States

LEMMA BlankType ==
  ASSUME NEW state \in States, NEW through \in Int
  PROVE  /\ Blank(state, through) \in Labels
         /\ Blank(state, through).through = through /\ Blank(state, through).state = state
<1> DEFINE f == [d \in {} |-> "UNRECORDED"]
<1>1. f \in [{} -> Statuses]
  OBVIOUS
<1>2. f \in UNION {[T -> Statuses] : T \in SUBSET Days}
  BY <1>1
<1> HIDE DEF f
<1> QED
  BY <1>2 DEF Blank, Labels, f

-----------------------------------------------------------------------------
(* Receipts. *)

LEMMA DaysOf ==
  ASSUME NEW m \in Instants, NEW n \in Instants, m <= n
  PROVE  /\ DayOf[m] \in Days /\ DayOf[m] \in Int /\ DayOf[n] \in Int /\ DayOf[m] <= DayOf[n]
         /\ LastMature(m) \in Int /\ LastMature(n) \in Int /\ LastMature(m) <= LastMature(n)
<1>1. DayOf[m] \in Days /\ DayOf[n] \in Days /\ DayOf[m] <= DayOf[n]
  BY MilestoneAssumption
<1>2. DayOf[m] \in Int /\ DayOf[n] \in Int
  BY <1>1, MilestoneAssumption DEF Days
<1> QED
  BY <1>1, <1>2 DEF LastMature, CorrectionDays

LEMMA ReceiptFields ==
  ASSUME NEW c \in Receipts
  PROVE  /\ c.from \in Forecasts /\ c.through \in Int /\ c.label \in Labels
         /\ c.from.origin \in Days /\ c.from.origin \in Int /\ End(c.from) \in Int
<1>1. c.from \in Forecasts /\ c.through \in Int /\ c.label \in Labels /\ c.from.origin \in Days
  BY DEF Receipts, Forecasts
<1> QED
  BY <1>1, MilestoneAssumption DEF Days, End

(* The receipt of an episode that has not run out. *)
LEMMA ReceiptLearned ==
  ASSUME NEW e \in Forecasts, NEW row \in Rows, NEW at \in Instants, e.expires > at
  PROVE  /\ ReceiptOf(e, row, at) \in Receipts
         /\ Mature(ReceiptOf(e, row, at), at) /\ Learned(ReceiptOf(e, row, at), row.recs)
<1> DEFINE T == Through(e, at)
           label == AssessNow(e, row, at)
           c == ReceiptOf(e, row, at)
<1>1. /\ e.origin \in Days /\ e.origin \in Int /\ End(e) \in Int /\ e.expires \in Int
      /\ at \in Int /\ LastMature(at) \in Int
  <2>1. e.origin \in Days /\ e.expires \in Nat
    BY DEF Forecasts
  <2>2. e.origin \in Int
    BY <2>1, MilestoneAssumption DEF Days
  <2>3. at \in Int /\ at <= at
    BY MilestoneAssumption DEF Instants
  <2> QED
    BY <2>1, <2>2, <2>3, DaysOf, MilestoneAssumption DEF End
<1>2. T \in Int /\ T <= LastMature(at) /\ T <= End(e)
  BY <1>1 DEF Through, Least
<1> HIDE DEF T
<1>3. c = [from |-> e, through |-> label.through, label |-> label]
  BY DEF ReceiptOf
<1>4. ~(e.expires <= at)
  BY <1>1
<1>5. CASE ~SameContext(e, row) \/ Prefix(row.recs, e.origin) # e.prefix
  <2>1. label = Blank("INVALID", T)
    BY <1>4, <1>5 DEF AssessNow, Assess, T
  <2>2. label \in Labels /\ label.through = T /\ label.state = "INVALID"
    BY <1>2, <2>1, BlankType DEF States
  <2> HIDE DEF label, c
  <2>3. c \in Receipts
    BY <1>2, <1>3, <2>2 DEF Receipts
  <2> QED
    BY <1>2, <1>3, <2>2, <2>3 DEF Mature, Learned, c
<1>6. CASE SameContext(e, row) /\ Prefix(row.recs, e.origin) = e.prefix /\ T <= e.origin
  <2>1. label = Blank("PENDING", T)
    BY <1>4, <1>6 DEF AssessNow, Assess, T
  <2>2. label \in Labels /\ label.through = T /\ label.state = "PENDING"
    BY <1>2, <2>1, BlankType DEF States
  <2> HIDE DEF label, c
  <2>3. c \in Receipts
    BY <1>2, <1>3, <2>2 DEF Receipts
  <2> QED
    BY <1>2, <1>3, <1>6, <2>1, <2>2, <2>3 DEF Mature, Learned, c
<1>7. CASE SameContext(e, row) /\ Prefix(row.recs, e.origin) = e.prefix /\ ~(T <= e.origin)
  <2>1. label = Observed(e, row.recs, T)
    BY <1>4, <1>7 DEF AssessNow, Assess, T
  <2>2. row.recs \in Records
    BY DEF Rows
  <2>3. /\ label \in Labels /\ label.through = Last(e, row.recs, T)
        /\ label.state \in {"EVENT", "INTERVAL", "CENSOR", "UNKNOWN"}
    BY <1>2, <2>1, <2>2, ObservedType
  <2>4. label.through \in Int /\ label.through <= T
    BY <1>2, <2>3, LastIs
  <2>5. ~(label.through <= e.origin)
    <3>1. CASE Hits(e, row.recs, T) = {}
      BY <1>7, <2>3, <3>1 DEF Last
    <3>2. CASE Hits(e, row.recs, T) # {}
      <4>1. label.through \in DaysFrom(e, T)
        BY <1>2, <2>3, <3>2, LastIs DEF Hits
      <4> QED
        BY <1>1, <2>4, <4>1 DEF DaysFrom
    <3> QED
      BY <3>1, <3>2
  <2>6. label = Observed(e, row.recs, label.through)
    BY <1>1, <1>2, <2>1, <2>3, ObservedAgain
  <2> HIDE DEF label, c
  <2>7. c \in Receipts
    BY <1>3, <2>3, <2>4 DEF Receipts
  <2>8. label.through <= LastMature(at) /\ label.through <= End(e)
    BY <1>1, <1>2, <2>4
  <2>9. Mature(c, at)
    BY <1>3, <2>8 DEF Mature
  <2>10. Learned(c, row.recs)
    BY <1>3, <2>3, <2>5, <2>6 DEF Learned
  <2> QED
    BY <2>7, <2>9, <2>10 DEF c
<1> QED
  BY <1>5, <1>6, <1>7

(* What was learned stands: time only makes it more mature, and a record    *)
(* that is written is too young to matter.                                  *)
LEMMA TrainedStands ==
  ASSUME NEW R \in SUBSET Receipts, NEW row, NEW row2, NEW m \in Instants, NEW n \in Instants,
         m <= n, Trained(R, row, m),
         row2 # Gone => row # Gone /\ \A d \in Days : d <= LastMature(m) => row2.recs[d] = row.recs[d]
  PROVE  Trained(R, row2, n)
<1> SUFFICES ASSUME NEW c \in R
             PROVE  Mature(c, n) /\ (row2 # Gone => Learned(c, row2.recs))
  BY DEF Trained
<1>1. /\ c \in Receipts /\ c.through <= LastMature(m) /\ c.through <= End(c.from)
      /\ row # Gone => Learned(c, row.recs)
  BY DEF Trained, Mature
<1>2. c.through \in Int /\ c.from.origin \in Days
  BY <1>1, ReceiptFields
<1>3. LastMature(m) \in Int /\ LastMature(n) \in Int /\ LastMature(m) <= LastMature(n)
  BY DaysOf
<1>4. Mature(c, n)
  BY <1>1, <1>2, <1>3 DEF Mature
<1>5. ASSUME row2 # Gone
      PROVE  Learned(c, row2.recs)
  <2>1. \A d \in Days : d <= c.through => row2.recs[d] = row.recs[d]
    <3> TAKE d \in Days
    <3>1. d \in Int
      BY DEF Days
    <3> QED
      BY <1>1, <1>2, <1>3, <1>5, <3>1
  <2>2. Observed(c.from, row2.recs, c.through) = Observed(c.from, row.recs, c.through)
    BY <1>2, <2>1, ObservedStands
  <2> QED
    BY <1>1, <1>5, <2>2 DEF Learned
<1> QED
  BY <1>4, <1>5

-----------------------------------------------------------------------------
(* What a step must leave alone. *)

(* The same participation, perhaps with more generations. *)
Same(u) ==
  /\ part[u] # Nobody /\ part'[u] # Nobody
  /\ part'[u].id = part[u].id /\ part'[u].goal = part[u].goal
  /\ part'[u].joined = part[u].joined /\ part'[u].expires = part[u].expires
  /\ part[u].gen <= part'[u].gen

Onward ==
  /\ now <= now' /\ joins <= joins'
  /\ \A u \in Users : part'[u] # Nobody => Same(u) \/ part'[u].id > joins

OldPart == \A u \in Users : part'[u] # Nobody => Same(u)

(* No goal comes back and no matured record is written. *)
RecsStand ==
  \A g \in Goals : goal'[g] # Gone =>
    goal[g] # Gone /\ \A d \in Days : d <= LastMature(now) => goal'[g].recs[d] = goal[g].recs[d]

ConsentStands == \A g \in Goals : goal'[g] # Gone =>
  goal[g] # Gone /\ goal'[g].consent = goal[g].consent

FitsStand == \A s \in Reqs : Busy(s, {"fitted"})' => Busy(s, {"fitted"}) /\ req'[s] = req[s]

ForecastsStand == \A e \in forecasts' : e \in forecasts /\ Same(OwnerOf[e.goal])

ArtifactsStand == \A g \in Goals : artifact'[g] # None => artifact'[g] = artifact[g]

EpisodesKept(g) == \A e \in forecasts : e.goal = g => e \in forecasts'

Still(s) ==
  /\ pc'[s] = pc[s] /\ req'[s] = req[s] /\ seen'[s] = seen[s] /\ memo'[s] = memo[s]
  /\ Held(s) =>
       /\ goal'[req[s].goal] # Gone /\ goal'[req[s].goal].consent = goal[req[s].goal].consent
       /\ part'[req[s].user] \in {part[req[s].user], Nobody}
       /\ part'[req[s].user] # Nobody => artifact'[req[s].goal] = artifact[req[s].goal]
       /\ part'[req[s].user] # Nobody => EpisodesKept(req[s].goal)
       /\ \A x \in spent' : x.goal = req[s].goal => x \in spent

LEMMA RequestFields ==
  ASSUME NEW q \in Requests
  PROVE  /\ q.user \in Users /\ q.goal \in Goals
         /\ q.kind \in {"join", "withdraw", "capture", "store", "fit", "fitted"}
         /\ q.kind = "join" => q.rev \in Nat /\ q.consent \in Nat
         /\ q.kind = "withdraw" => q.ticket \in Tickets
         /\ q.kind \in {"capture", "store"} =>
              /\ q.rev \in Nat /\ q.arev \in Nat /\ q.ticket \in Tickets
              /\ q.art \in Names \cup {None}
         /\ q.kind \in {"fit", "fitted"} =>
              q.rev \in Nat /\ q.arev \in Nat /\ q.ticket \in Tickets /\ q.gen \in Nat
BY DEF Requests

LEMMA TicketType == \A t \in Tickets : t \in Int /\ t \in Nat
BY MilestoneAssumption DEF Tickets

LEMMA InstantType == \A n \in Instants : n \in Int /\ n \in Nat
BY MilestoneAssumption DEF Instants

LEMMA PartFields ==
  ASSUME NEW p \in Participations
  PROVE  /\ p.id \in Tickets /\ p.id \in Int /\ p.goal \in Goals
         /\ p.joined \in Instants /\ p.joined \in Int
         /\ p.expires \in Nat /\ p.expires > p.joined /\ p.gen \in Nat
<1>1. p.id \in Tickets /\ p.joined \in Instants
  BY DEF Participations
<1> QED
  BY <1>1, TicketType, InstantType DEF Participations

LEMMA Typed ==
  ASSUME TypeOK
  PROVE  /\ now \in Instants /\ now \in Int /\ joins \in Int
         /\ \A u \in Users : part[u] # Nobody => part[u] \in Participations
         /\ \A g \in Goals : goal[g] # Gone => goal[g] \in Rows
         /\ \A g \in Goals : artifact[g] # None => artifact[g] \in Artifacts
BY InstantType, MilestoneAssumption DEF TypeOK

LEMMA TypedNext ==
  ASSUME TypeOK'
  PROVE  /\ now' \in Instants /\ now' \in Int /\ joins' \in Int
         /\ \A u \in Users : part'[u] # Nobody => part'[u] \in Participations
         /\ \A g \in Goals : goal'[g] # Gone => goal'[g] \in Rows
         /\ \A g \in Goals : artifact'[g] # None => artifact'[g] \in Artifacts
BY InstantType, MilestoneAssumption DEF TypeOK

(* A slot that does not move keeps what it knows. *)
LEMMA StillKeeps ==
  ASSUME Inv, TypeOK', Onward, RecsStand, NEW s \in Reqs, Still(s)
  PROVE  SlotOK(s)' /\ SeenOK(s)' /\ MemoOK(s)'
<1>1. SlotOK(s) /\ SeenOK(s) /\ MemoOK(s) /\ TypeOK
  BY DEF Inv, SlotsOK
<1>2. /\ now \in Instants /\ now' \in Instants /\ now \in Int /\ now' \in Int /\ now <= now'
      /\ joins \in Int /\ joins' \in Int /\ joins <= joins'
      /\ \A u \in Users : part[u] # Nobody => part[u].id \in Int
      /\ \A u \in Users : part'[u] # Nobody => part'[u].id \in Int
  BY <1>1, Typed, TypedNext, PartFields DEF Onward
<1>3. /\ pc'[s] = pc[s] /\ req'[s] = req[s] /\ seen'[s] = seen[s] /\ memo'[s] = memo[s]
      /\ Held(s)' = Held(s) /\ \A kinds : Busy(s, kinds)' = Busy(s, kinds)
  BY DEF Still, Held, Busy
<1>4. \A kinds : Busy(s, kinds) => req[s] \in Requests /\ req[s].goal \in Goals
  BY <1>1, RequestFields DEF Busy, SlotOK
<1>5. Busy(s, {"capture", "store", "fit", "fitted"}) =>
        req[s].ticket \in Int /\ req[s].ticket <= joins
  <2> SUFFICES ASSUME Busy(s, {"capture", "store", "fit", "fitted"})
               PROVE  req[s].ticket \in Int /\ req[s].ticket <= joins
    OBVIOUS
  <2>1. req[s] \in Requests /\ req[s].kind \in {"capture", "store", "fit", "fitted"}
    BY <1>4 DEF Busy
  <2>2. req[s].ticket \in Tickets
    BY <2>1, RequestFields
  <2> QED
    BY <1>1, <2>2, TicketType DEF SlotOK
<1>6. SlotOK(s)'
  <2>1. Held(s) => seen[s].at \in Int /\ seen[s].at <= now'
    <3>1. Held(s) => seen[s].at \in Instants /\ seen[s].at <= now
      BY <1>1 DEF SlotOK, Views
    <3> QED
      BY <1>2, <3>1, InstantType
  <2>2. Busy(s, {"capture", "store", "fit", "fitted"}) => req[s].ticket <= joins'
    BY <1>2, <1>5
  <2> QED
    BY <1>1, <1>3, <2>1, <2>2 DEF SlotOK, Still
<1>7. SeenOK(s)'
  <2> SUFFICES ASSUME Held(s)
               PROVE  (PartSeen(s) /\ GoalSeen(s) /\ ForecastsSeen(s))'
    BY <1>3 DEF SeenOK
  <2>1. PartSeen(s) /\ GoalSeen(s) /\ ForecastsSeen(s) /\ seen[s] \in Views
    BY <1>1 DEF SeenOK, SlotOK
  <2>2. ForecastsSeen(s)'
    BY <1>3, <2>1 DEF ForecastsSeen, Still, EpisodesKept
  <2>3. part'[req[s].user] \in {part[req[s].user], Nobody}
    BY DEF Still
  <2>4. PartSeen(s)'
    <3>1. CASE seen[s].part = Nobody
      BY <1>3, <2>1, <2>3, <3>1 DEF PartSeen, Live
    <3>2. CASE seen[s].part # Nobody
      <4>1. /\ Live(seen[s].part, seen[s].at) /\ seen[s].part.joined <= seen[s].at
            /\ seen[s].part.id <= joins /\ part[req[s].user] \in {seen[s].part, Nobody}
            /\ \A u \in Users : part[u] # Nobody /\ part[u].id = seen[s].part.id => u = req[s].user
        BY <2>1, <3>2 DEF PartSeen
      <4>2. seen[s].part.id \in Int
        BY <2>1, <3>2, PartFields DEF Views
      <4>3. seen[s].part.id <= joins'
        BY <1>2, <4>1, <4>2
      <4>4. ASSUME NEW u \in Users, part'[u] # Nobody, part'[u].id = seen[s].part.id
            PROVE  u = req[s].user
        <5>1. Same(u)
          BY <1>2, <4>1, <4>2, <4>4 DEF Onward
        <5> QED
          BY <4>1, <4>4, <5>1 DEF Same
      <4> QED
        BY <1>3, <2>3, <3>2, <4>1, <4>3, <4>4 DEF PartSeen, Live
    <3> QED
      BY <3>1, <3>2
  <2>5. GoalSeen(s)'
    BY <1>3, <2>1, <2>3 DEF GoalSeen, Still
  <2> QED
    BY <2>2, <2>4, <2>5
<1>8. MemoOK(s)'
  <2>1. Busy(s, {"store", "fitted"}) => memo[s] \in Memos /\ memo[s].at \in Int /\ memo[s].at <= now'
    <3>1. Busy(s, {"store", "fitted"}) => memo[s] \in Memos /\ memo[s].at \in Instants /\ memo[s].at <= now
      BY <1>1 DEF MemoOK, Memos
    <3> QED
      BY <1>2, <3>1, InstantType
  <2>2. ASSUME Busy(s, {"store", "fitted"}), NEW u \in Users, part'[u] # Nobody,
               part'[u].id = req[s].ticket
        PROVE  part'[u].joined <= memo[s].at
    <3>1. req[s].ticket \in Int /\ req[s].ticket <= joins
      BY <1>5, <2>2 DEF Busy
    <3>2. Same(u)
      BY <1>2, <2>2, <3>1 DEF Onward
    <3> QED
      BY <1>1, <2>2, <3>2 DEF MemoOK, Same
  <2>3. Busy(s, {"fitted"}) => Trained(memo[s].receipts, goal'[req[s].goal], now')
    <3> SUFFICES ASSUME Busy(s, {"fitted"})
                 PROVE  Trained(memo[s].receipts, goal'[req[s].goal], now')
      OBVIOUS
    <3>1. Busy(s, {"store", "fitted"}) /\ req[s].goal \in Goals
      BY <1>4 DEF Busy
    <3>2. memo[s].receipts \in SUBSET Receipts
      BY <2>1, <3>1 DEF Memos
    <3>3. Trained(memo[s].receipts, goal[req[s].goal], now)
      BY <1>1 DEF MemoOK
    <3> QED
      BY <1>2, <3>1, <3>2, <3>3, TrainedStands DEF RecsStand
  <2> QED
    BY <1>1, <1>3, <2>1, <2>2, <2>3 DEF MemoOK
<1> QED
  BY <1>6, <1>7, <1>8

(* The slots other than r do not move, and r is answered. *)
LEMMA AnsweredKeeps ==
  ASSUME Inv, TypeOK', Onward, RecsStand, NEW r \in Reqs, Answer(r),
         \A s \in Reqs \ {r} : Still(s)
  PROVE  SlotsOK' /\ OneHolder'
<1>1. pc'[r] = "idle"
  BY DEF Answer, Inv, TypeOK
<1>2. SlotOK(r)' /\ SeenOK(r)' /\ MemoOK(r)'
  BY <1>1 DEF SlotOK, SeenOK, MemoOK, Held, Busy
<1>3. \A s \in Reqs : SlotOK(s)' /\ SeenOK(s)' /\ MemoOK(s)'
  BY <1>2, StillKeeps
<1>4. \A s \in Reqs : Held(s)' => Held(s) /\ req'[s] = req[s]
  BY <1>1 DEF Held, Still
<1> QED
  BY <1>3, <1>4 DEF SlotsOK, OneHolder, Inv

LEMMA StillAll ==
  ASSUME Inv, TypeOK', Onward, RecsStand, \A s \in Reqs : Still(s)
  PROVE  SlotsOK' /\ OneHolder'
<1>1. \A s \in Reqs : SlotOK(s)' /\ SeenOK(s)' /\ MemoOK(s)'
  BY StillKeeps
<1>2. \A s \in Reqs : Held(s)' => Held(s) /\ req'[s] = req[s]
  BY DEF Held, Still
<1> QED
  BY <1>1, <1>2 DEF SlotsOK, OneHolder, Inv

LEMMA OldIsOnward ==
  ASSUME now <= now', joins <= joins', OldPart
  PROVE  Onward
BY DEF Onward, OldPart

LEMMA PartKept ==
  ASSUME Inv, TypeOK', now <= now', joins <= joins', OldPart
  PROVE  PartOK'
<1>1. /\ now \in Int /\ now' \in Int /\ joins \in Int /\ joins' \in Int
      /\ \A u \in Users : part[u] # Nobody => part[u].id \in Int /\ part[u].joined \in Int
  BY Typed, TypedNext, PartFields DEF Inv
<1>2. \A u \in Users : part'[u] # Nobody =>
        /\ OwnerOf[part'[u].goal] = u /\ part'[u].expires = part'[u].joined + Retention
        /\ part'[u].id <= joins' /\ part'[u].joined <= now'
  BY <1>1 DEF OldPart, Same, Inv, PartOK
<1>3. \A u, v \in Users :
        part'[u] # Nobody /\ part'[v] # Nobody /\ part'[u].id = part'[v].id => u = v
  BY DEF OldPart, Same, Inv, PartOK
<1> QED
  BY <1>2, <1>3 DEF PartOK

LEMMA GenKept ==
  ASSUME Inv, TypeOK', Onward, FitsStand, ArtifactsStand
  PROVE  GenOK'
<1> SUFFICES ASSUME NEW u \in Users, part'[u] # Nobody
             PROVE  /\ \A s \in FitsOf(u)' : req'[s].gen < part'[u].gen
                    /\ \A s, t \in FitsOf(u)' : req'[s].gen = req'[t].gen => s = t
                    /\ \A s \in FitsOf(u)', g \in Goals :
                         artifact'[g] # None /\ artifact'[g].name.ticket = part'[u].id =>
                           artifact'[g].name.gen # req'[s].gen + 1
  BY DEF GenOK
<1>1. \A s \in FitsOf(u)' : Busy(s, {"fitted"}) /\ s \in Reqs /\ req'[s] = req[s]
  BY DEF FitsOf, FitsStand
<1>2. \A s \in FitsOf(u)' :
        /\ req[s].ticket = part'[u].id /\ req[s].ticket \in Int /\ req[s].ticket <= joins
        /\ req[s].gen \in Nat
  <2> TAKE s \in FitsOf(u)'
  <2>1. req[s] \in Requests /\ req[s].kind = "fitted" /\ req[s].ticket <= joins
    BY <1>1 DEF Inv, SlotsOK, SlotOK, Busy
  <2> QED
    BY <1>1, <2>1, RequestFields, TicketType DEF FitsOf
<1>3. CASE Same(u)
  <2>1. \A s \in FitsOf(u)' : s \in FitsOf(u) /\ req'[s] = req[s] /\ req[s].gen \in Nat
    BY <1>1, <1>2, <1>3 DEF FitsOf, Same
  <2>2. part[u].gen \in Nat /\ part'[u].gen \in Nat /\ part[u].gen <= part'[u].gen
        /\ part'[u].id = part[u].id /\ part[u] # Nobody
    BY <1>3, Typed, TypedNext, PartFields DEF Inv, Same
  <2>3. \A s \in FitsOf(u)' : req'[s].gen < part'[u].gen
    <3>1. \A s \in FitsOf(u)' : req[s].gen < part[u].gen
      BY <2>1, <2>2 DEF Inv, GenOK
    <3> QED
      BY <2>1, <2>2, <3>1
  <2>4. \A s, t \in FitsOf(u)' : req'[s].gen = req'[t].gen => s = t
    BY <2>1, <2>2 DEF Inv, GenOK
  <2>5. \A s \in FitsOf(u)', g \in Goals :
          artifact'[g] # None /\ artifact'[g].name.ticket = part'[u].id =>
            artifact'[g].name.gen # req'[s].gen + 1
    BY <2>1, <2>2 DEF Inv, GenOK, ArtifactsStand
  <2> QED
    BY <2>3, <2>4, <2>5
<1>4. CASE part'[u].id > joins
  <2>1. part'[u].id \in Int /\ joins \in Int
    BY Typed, TypedNext, PartFields DEF Inv
  <2>2. FitsOf(u)' = {}
    BY <1>2, <1>4, <2>1
  <2> QED
    BY <2>2
<1> QED
  BY <1>3, <1>4 DEF Onward

LEMMA SpentKept ==
  ASSUME Inv, TypeOK', now <= now', OldPart, ConsentStands, spent' = spent
  PROVE  SpentOK'
<1>0. SpentOK /\ TypeOK
  BY DEF Inv
<1>1. \A x \in spent' : goal'[x.goal] # Gone => x.consent < goal'[x.goal].consent
  <2>1. \A x \in spent : x.goal \in Goals
    BY <1>0 DEF TypeOK
  <2> QED
    BY <1>0, <2>1 DEF SpentOK, ConsentStands
<1>2. ASSUME NEW u \in Users, part'[u] # Nobody, Live(part'[u], now'), goal'[part'[u].goal] # Gone,
             NEW x \in spent', x.goal = part'[u].goal, x.consent = goal'[part'[u].goal].consent - 1
      PROVE  x.by = "join" /\ x.ticket = part'[u].id
  <2>1. Same(u) /\ part[u] \in Participations /\ part[u].goal \in Goals
    BY <1>0, <1>2, Typed, TypedNext, PartFields DEF OldPart, Same
  <2>2. /\ now \in Int /\ now' \in Int /\ part[u].expires \in Int /\ part[u].joined \in Int
        /\ Retention \in Int
    BY <1>0, <2>1, Typed, TypedNext, PartFields, MilestoneAssumption
  <2>3. Live(part[u], now)
    BY <1>2, <2>1, <2>2 DEF Live, Same
  <2>4. /\ goal[part[u].goal] # Gone
        /\ goal'[part'[u].goal].consent = goal[part[u].goal].consent
    BY <1>2, <2>1 DEF Same, ConsentStands
  <2> QED
    BY <1>0, <1>2, <2>1, <2>3, <2>4 DEF SpentOK, Same
<1>3. RevisionsAreSpentOnce'
  BY <1>0 DEF SpentOK, RevisionsAreSpentOnce
<1> QED
  BY <1>1, <1>2, <1>3 DEF SpentOK

LEMMA EpisodeStands ==
  ASSUME CoverOK, NEW e \in forecasts, Same(OwnerOf[e.goal])
  PROVE  EpisodeCovered(e)'
BY DEF CoverOK, EpisodeCovered, Same

LEMMA FitStands ==
  ASSUME Inv, TypeOK', now <= now', RecsStand, NEW g \in Goals,
         artifact'[g] # None => artifact'[g] = artifact[g] /\ Same(OwnerOf[g])
  PROVE  FitCovered(g)'
<1> SUFFICES ASSUME artifact'[g] # None
             PROVE  LET p == part'[OwnerOf[g]]  a == artifact'[g] IN
                    /\ p # Nobody /\ p.goal = g /\ p.id = a.name.ticket
                    /\ p.joined <= a.created /\ p.expires = a.expires /\ a.name.gen <= p.gen
                    /\ Trained(a.receipts, goal'[g], now')
  BY DEF FitCovered
<1> DEFINE u == OwnerOf[g]
           a == artifact[g]
<1>1. artifact'[g] = a /\ a # None /\ Same(u) /\ u \in Users
  BY MilestoneAssumption
<1>2. /\ part[u] # Nobody /\ part[u].goal = g /\ part[u].id = a.name.ticket
      /\ part[u].joined <= a.created /\ part[u].expires = a.expires
      /\ a.name.gen <= part[u].gen /\ Trained(a.receipts, goal[g], now)
  BY <1>1 DEF Inv, CoverOK, FitCovered
<1>3. a \in Artifacts /\ part[u] \in Participations /\ part'[u] \in Participations
  BY <1>1, Typed, TypedNext DEF Inv, Same
<1>4. a.name.gen \in Nat /\ part[u].gen \in Nat /\ part'[u].gen \in Nat
      /\ a.receipts \in SUBSET Receipts
  BY <1>3, PartFields DEF Artifacts, Names
<1>5. a.name.gen <= part'[u].gen
  BY <1>1, <1>2, <1>4 DEF Same
<1>6. now \in Instants /\ now' \in Instants
  BY Typed, TypedNext DEF Inv
<1>7. Trained(a.receipts, goal'[g], now')
  BY <1>2, <1>4, <1>6, TrainedStands DEF RecsStand
<1> HIDE DEF a, u
<1>8. artifact'[g] = a /\ OwnerOf[g] = u
  BY <1>1 DEF u
<1> QED
  BY <1>1, <1>2, <1>5, <1>7, <1>8 DEF Same

LEMMA CoverKept ==
  ASSUME Inv, TypeOK', now <= now', RecsStand, ForecastsStand,
         \A g \in Goals : artifact'[g] # None => artifact'[g] = artifact[g] /\ Same(OwnerOf[g])
  PROVE  CoverOK'
<1>1. \A e \in forecasts' : EpisodeCovered(e)'
  BY EpisodeStands DEF Inv, ForecastsStand
<1>2. \A g \in Goals : FitCovered(g)'
  BY FitStands
<1> QED
  BY <1>1, <1>2 DEF CoverOK

(* The participation of what is derived is the one of the goal's owner. *)
LEMMA Derived ==
  ASSUME Inv
  PROVE  /\ \A e \in forecasts : /\ e.goal \in Goals /\ OwnerOf[e.goal] \in Users
                                 /\ part[OwnerOf[e.goal]] # Nobody
                                 /\ part[OwnerOf[e.goal]].goal = e.goal
         /\ \A g \in Goals : artifact[g] # None => /\ OwnerOf[g] \in Users
                                                   /\ part[OwnerOf[g]] # Nobody
                                                   /\ part[OwnerOf[g]].goal = g
<1>1. \A e \in forecasts : e.goal \in Goals
  BY DEF Inv, TypeOK, Forecasts
<1> QED
  BY <1>1, MilestoneAssumption DEF Inv, CoverOK, EpisodeCovered, FitCovered

-----------------------------------------------------------------------------
(* Steps that write no table. *)

LEMMA SameIfEqual ==
  ASSUME TypeOK, NEW u \in Users, part[u] # Nobody, part'[u] = part[u]
  PROVE  Same(u)
<1>1. part[u].gen \in Nat
  BY Typed, PartFields
<1> QED
  BY <1>1 DEF Same

Quiet == now <= now' /\ UNCHANGED <<goal, part, forecasts, artifact, joins, spent>>

LEMMA QuietKeeps ==
  ASSUME Inv, TypeOK', Quiet, FitsStand
  PROVE  /\ Onward /\ RecsStand
         /\ PartOK' /\ GenOK' /\ SpentOK' /\ CoverOK'
<1>1. now \in Int /\ now' \in Int /\ joins \in Int /\ TypeOK
  BY Typed, TypedNext DEF Inv
<1>2. now <= now' /\ joins <= joins' /\ OldPart
  BY <1>1, SameIfEqual DEF Quiet, OldPart
<1>3. Onward
  BY <1>2, OldIsOnward
<1>4. RecsStand /\ ConsentStands /\ ArtifactsStand /\ spent' = spent
  BY DEF Quiet, RecsStand, ConsentStands, ArtifactsStand
<1>5. ForecastsStand
  BY <1>1, Derived, SameIfEqual DEF Quiet, ForecastsStand
<1>6. \A g \in Goals : artifact'[g] # None => artifact'[g] = artifact[g] /\ Same(OwnerOf[g])
  BY <1>1, Derived, SameIfEqual DEF Quiet
<1>7. PartOK'
  BY <1>2, PartKept
<1>8. GenOK'
  BY <1>3, <1>4, GenKept
<1>9. SpentOK'
  BY <1>2, <1>4, SpentKept
<1>10. CoverOK'
  BY <1>2, <1>4, <1>5, <1>6, CoverKept
<1> QED
  BY <1>3, <1>4, <1>7, <1>8, <1>9, <1>10

LEMMA QuietStill ==
  ASSUME Inv, Quiet, NEW s \in Reqs,
         pc'[s] = pc[s], req'[s] = req[s], seen'[s] = seen[s], memo'[s] = memo[s]
  PROVE  Still(s)
BY DEF Inv, SlotsOK, SlotOK, Held, Quiet, Still, EpisodesKept

LEMMA AnswerType ==
  ASSUME TypeOK, NEW r \in Reqs, Answer(r),
         goal' \in [Goals -> Rows \cup {Gone}],
         part' \in [Users -> Participations \cup {Nobody}],
         forecasts' \subseteq Forecasts, artifact' \in [Goals -> Artifacts \cup {None}],
         joins' \in 0 .. MaxJoins,
         spent' \subseteq [goal : Goals, consent : Nat, by : {"join", "withdraw"}, ticket : Nat]
  PROVE  TypeOK'
BY DEF TypeOK, Answer

LEMMA AnswerSlots ==
  ASSUME TypeOK, NEW r \in Reqs, Answer(r)
  PROVE  /\ pc'[r] = "idle" /\ now' = now
         /\ \A s \in Reqs \ {r} : /\ pc'[s] = pc[s] /\ req'[s] = req[s]
                                  /\ seen'[s] = seen[s] /\ memo'[s] = memo[s]
         /\ FitsStand
BY DEF TypeOK, Answer, FitsStand, Busy

LEMMA RefuseKeeps ==
  ASSUME Inv, NEW r \in Reqs, Refuse(r)
  PROVE  Inv'
<1>0. TypeOK /\ Answer(r)
  BY DEF Inv, Refuse
<1>1. TypeOK'
  BY <1>0, AnswerType DEF Refuse, derived, TypeOK
<1>2. now \in Int
  BY <1>0, Typed
<1>3. Quiet /\ FitsStand
  BY <1>0, <1>2, AnswerSlots DEF Quiet, Refuse, derived
<1>4. \A s \in Reqs \ {r} : Still(s)
  BY <1>0, <1>3, AnswerSlots, QuietStill
<1>5. Onward /\ RecsStand /\ PartOK' /\ GenOK' /\ SpentOK' /\ CoverOK'
  BY <1>1, <1>3, QuietKeeps
<1>6. SlotsOK' /\ OneHolder'
  BY <1>0, <1>1, <1>4, <1>5, AnsweredKeeps
<1> QED
  BY <1>1, <1>5, <1>6 DEF Inv

LEMMA TickKeeps ==
  ASSUME Inv, Tick
  PROVE  Inv'
<1>0. TypeOK /\ now \in Int
  BY Typed DEF Inv
<1>1. TypeOK'
  BY <1>0, MilestoneAssumption DEF Tick, TypeOK, derived, bounds, Instants
<1>2. Quiet /\ FitsStand
  BY <1>0 DEF Tick, Quiet, FitsStand, Busy, derived, bounds
<1>3. \A s \in Reqs : Still(s)
  BY <1>2, QuietStill DEF Tick
<1>4. Onward /\ RecsStand /\ PartOK' /\ GenOK' /\ SpentOK' /\ CoverOK'
  BY <1>1, <1>2, QuietKeeps
<1>5. SlotsOK' /\ OneHolder'
  BY <1>1, <1>3, <1>4, StillAll
<1> QED
  BY <1>1, <1>4, <1>5 DEF Inv

LEMMA ViewType ==
  ASSUME TypeOK, NEW u \in Users, NEW g \in Goals
  PROVE  /\ View(u, g, now) \in Views
         /\ View(u, g, now).at = now /\ View(u, g, now).part = ReadPart(u, now)
         /\ View(u, g, now).art = IF Takes(u, g, now) THEN artifact[g] ELSE None
         /\ View(u, g, now).forecasts =
              IF Takes(u, g, now) THEN {e \in forecasts : e.goal = g /\ Visible(e, now)} ELSE {}
<1>1. ReadPart(u, now) \in Participations \cup {Nobody}
  BY DEF TypeOK, ReadPart
<1>2. (IF Takes(u, g, now) THEN {e \in forecasts : e.goal = g /\ Visible(e, now)} ELSE {})
        \in SUBSET Forecasts
  BY DEF TypeOK
<1>3. (IF Takes(u, g, now) THEN artifact[g] ELSE None) \in Artifacts \cup {None}
  BY DEF TypeOK
<1>4. now \in Instants
  BY DEF TypeOK
<1> QED
  BY <1>1, <1>2, <1>3, <1>4 DEF View, Views

LEMMA ReadKeeps ==
  ASSUME Inv, NEW r \in Reqs, NEW q \in Requests, Read(r, q.user, q.goal),
         req' = [req EXCEPT ![r] = q],
         \/ /\ pc[r] = "idle" /\ q.kind \in {"join", "withdraw", "capture", "fit"}
            /\ q.kind \in {"capture", "fit"} => q.ticket <= joins
         \/ pc[r] = "computing" /\ q = req[r]
  PROVE  Inv'
<1> DEFINE u == q.user
           g == q.goal
           v == View(u, g, now)
<1>0. TypeOK /\ now \in Int /\ u \in Users /\ g \in Goals
  BY Typed, RequestFields DEF Inv
<1>1. /\ v \in Views /\ v.at = now /\ v.part = ReadPart(u, now)
      /\ v.art = IF Takes(u, g, now) THEN artifact[g] ELSE None
      /\ v.forecasts = IF Takes(u, g, now) THEN {e \in forecasts : e.goal = g /\ Visible(e, now)} ELSE {}
  BY <1>0, ViewType
<1>2. /\ UserFree(u) /\ RowFree(g) /\ OwnerOf[g] = u /\ goal[g] # Gone
      /\ seen' = [seen EXCEPT ![r] = v] /\ pc' = [pc EXCEPT ![r] = "held"]
      /\ now' = now /\ UNCHANGED <<goal, part, forecasts, artifact, joins, edits, memo, spent>>
  BY DEF Read, Owned, derived, bounds
<1> HIDE DEF v
<1>3. TypeOK'
  BY <1>0, <1>1, <1>2 DEF TypeOK
<1>4. /\ pc'[r] = "held" /\ req'[r] = q /\ seen'[r] = v /\ memo'[r] = memo[r]
      /\ \A s \in Reqs \ {r} : /\ pc'[s] = pc[s] /\ req'[s] = req[s]
                               /\ seen'[s] = seen[s] /\ memo'[s] = memo[s]
  BY <1>0, <1>2 DEF TypeOK
<1>5. Quiet
  BY <1>0, <1>2 DEF Quiet
<1>6. FitsStand
  BY <1>4 DEF FitsStand, Busy
<1>7. Onward /\ RecsStand /\ PartOK' /\ GenOK' /\ SpentOK' /\ CoverOK'
  BY <1>3, <1>5, <1>6, QuietKeeps
<1>8. \A s \in Reqs \ {r} : Still(s)
  BY <1>4, <1>5, QuietStill
<1>9. SlotOK(r)'
  <2>1. Busy(r, {"capture", "store", "fit", "fitted"})' => q.ticket <= joins
    BY <1>4 DEF Inv, SlotsOK, SlotOK, Busy
  <2> QED
    BY <1>0, <1>1, <1>2, <1>4, <2>1 DEF SlotOK, Held
<1>10. SeenOK(r)'
  <2>0. part' = part /\ artifact' = artifact /\ spent' = spent /\ goal' = goal /\ joins' = joins
    BY <1>2
  <2>1. CASE v.part = Nobody
    <3>1. part[u] # Nobody => ~Live(part[u], now)
      BY <1>1, <2>1 DEF ReadPart
    <3>2. v.forecasts = {}
      BY <1>1, <2>1 DEF Takes
    <3> QED
      BY <1>1, <1>4, <2>0, <2>1, <3>1, <3>2 DEF SeenOK, PartSeen, GoalSeen, ForecastsSeen, Live
  <2>2. CASE v.part # Nobody
    <3>1. v.part = part[u] /\ part[u] # Nobody /\ Live(part[u], now)
      BY <1>1, <2>2 DEF ReadPart
    <3>2. /\ part[u].id <= joins /\ part[u].joined <= now
          /\ \A w \in Users : part[w] # Nobody /\ part[w].id = part[u].id => w = u
      BY <1>0, <3>1 DEF Inv, PartOK
    <3>3. PartSeen(r)'
      BY <1>1, <1>4, <2>0, <2>2, <3>1, <3>2 DEF PartSeen, Live
    <3>4. GoalSeen(r)'
      <4> SUFFICES ASSUME part[u].goal = g
                   PROVE  /\ artifact[g] = v.art
                          /\ \A x \in spent : x.goal = g /\ x.consent = goal[g].consent - 1 =>
                               x.by = "join" /\ x.ticket = part[u].id
        BY <1>1, <1>4, <2>0, <3>1 DEF GoalSeen
      <4>1. Takes(u, g, now)
        BY <1>1, <2>2 DEF Takes
      <4> QED
        BY <1>0, <1>1, <1>2, <3>1, <4>1 DEF Inv, SpentOK
    <3>5. ForecastsSeen(r)'
      <4> SUFFICES ASSUME NEW e \in v.forecasts
                   PROVE  /\ e.expires > now /\ e.expires = part[u].expires
                          /\ e.goal = g /\ e \in forecasts
        BY <1>1, <1>2, <1>4, <2>2, <3>1 DEF ForecastsSeen
      <4>1. e \in forecasts /\ e.goal = g /\ Visible(e, now)
        BY <1>1
      <4> QED
        BY <1>2, <4>1 DEF Visible, Inv, CoverOK, EpisodeCovered
    <3> QED
      BY <3>3, <3>4, <3>5 DEF SeenOK
  <2> QED
    BY <2>1, <2>2
<1>11. MemoOK(r)'
  <2>1. CASE pc[r] = "idle"
    BY <1>4, <2>1 DEF MemoOK, Busy, Inv, SlotsOK
  <2>2. CASE pc[r] = "computing" /\ q = req[r]
    <3>1. MemoOK(r) /\ pc[r] # "idle"
      BY <2>2 DEF Inv, SlotsOK
    <3>2. \A kinds : Busy(r, kinds)' = Busy(r, kinds)
      BY <1>4, <2>2 DEF Busy
    <3>3. memo'[r] = memo[r] /\ req'[r] = req[r] /\ seen'[r].at = now /\ goal' = goal
          /\ now' = now /\ part' = part
      BY <1>1, <1>2, <1>4, <2>2
    <3> QED
      BY <3>1, <3>2, <3>3 DEF MemoOK
  <2> QED
    BY <2>1, <2>2
<1>12. SlotsOK'
  BY <1>3, <1>7, <1>8, <1>9, <1>10, <1>11, StillKeeps DEF SlotsOK
<1>13. OneHolder'
  <2>1. \A s \in Reqs \ {r} : Held(s)' => Held(s) /\ req'[s] = req[s] /\ req[s].user # u
    BY <1>2, <1>4 DEF Held, UserFree
  <2> QED
    BY <1>4, <2>1 DEF OneHolder, Inv
<1> QED
  BY <1>3, <1>7, <1>12, <1>13 DEF Inv

LEMMA EnterKeeps ==
  ASSUME Inv, NEW r \in Reqs, Join(r) \/ Withdraw(r) \/ Capture(r) \/ Fit(r)
  PROVE  Inv'
<1>0. TypeOK
  BY DEF Inv
<1>1. ASSUME NEW q \in Requests, Enter(r, q), q.kind \in {"join", "withdraw", "capture", "fit"},
             q.kind \in {"capture", "fit"} => q.ticket <= joins
      PROVE  Inv'
  BY <1>1, ReadKeeps DEF Enter
<1>2. CASE Join(r)
  <2>0. PICK u \in Users, g \in Goals :
          /\ goal[g] # Gone
          /\ \E c \in 0 .. goal[g].consent :
               Enter(r, [kind |-> "join", user |-> u, goal |-> g, rev |-> goal[g].rev, consent |-> c])
    BY <1>2 DEF Join
  <2>1. PICK c \in 0 .. goal[g].consent :
          Enter(r, [kind |-> "join", user |-> u, goal |-> g, rev |-> goal[g].rev, consent |-> c])
    BY <2>0
  <2> DEFINE q == [kind |-> "join", user |-> u, goal |-> g, rev |-> goal[g].rev, consent |-> c]
  <2>2. goal[g].rev \in Nat /\ c \in Nat
    BY <1>0, <2>0, Typed DEF Rows
  <2>3. q \in Requests /\ q.kind = "join"
    BY <2>2 DEF Requests
  <2> HIDE DEF q
  <2>4. Enter(r, q)
    BY <2>1 DEF q
  <2> QED
    BY <1>1, <2>3, <2>4
<1>3. CASE Withdraw(r)
  <2>1. PICK u \in Users, g \in Goals, t \in 1 .. joins :
          Enter(r, [kind |-> "withdraw", user |-> u, goal |-> g, ticket |-> t])
    BY <1>3 DEF Withdraw
  <2> DEFINE q == [kind |-> "withdraw", user |-> u, goal |-> g, ticket |-> t]
  <2>2. t \in Tickets
    BY <1>0, MilestoneAssumption DEF TypeOK, Tickets
  <2>3. q \in Requests /\ q.kind = "withdraw"
    BY <2>2 DEF Requests
  <2> HIDE DEF q
  <2>4. Enter(r, q)
    BY <2>1 DEF q
  <2> QED
    BY <1>1, <2>3, <2>4
<1>4. CASE Capture(r)
  <2>0. PICK u \in Users, g \in Goals :
          /\ goal[g] # Gone /\ part[u] # Nobody
          /\ \E art \in {None} \cup (IF artifact[g] = None THEN {} ELSE {artifact[g].name}) :
               Enter(r, [kind |-> "capture", user |-> u, goal |-> g, rev |-> goal[g].rev,
                         arev |-> goal[g].arev, ticket |-> part[u].id, art |-> art])
    BY <1>4 DEF Capture, PartOf
  <2>1. PICK art \in {None} \cup (IF artifact[g] = None THEN {} ELSE {artifact[g].name}) :
          Enter(r, [kind |-> "capture", user |-> u, goal |-> g, rev |-> goal[g].rev,
                    arev |-> goal[g].arev, ticket |-> part[u].id, art |-> art])
    BY <2>0
  <2> DEFINE q == [kind |-> "capture", user |-> u, goal |-> g, rev |-> goal[g].rev,
                   arev |-> goal[g].arev, ticket |-> part[u].id, art |-> art]
  <2>2. goal[g].rev \in Nat /\ goal[g].arev \in Nat
    BY <1>0, <2>0, Typed DEF Rows
  <2>3. part[u].id \in Tickets /\ part[u].id <= joins
    BY <1>0, <2>0, Typed, PartFields DEF Inv, PartOK
  <2>4. art \in Names \cup {None}
    BY <1>0, Typed DEF Artifacts
  <2>5. q \in Requests /\ q.kind = "capture" /\ q.ticket <= joins
    BY <2>2, <2>3, <2>4 DEF Requests
  <2> HIDE DEF q
  <2>6. Enter(r, q)
    BY <2>1 DEF q
  <2> QED
    BY <1>1, <2>5, <2>6
<1>5. CASE Fit(r)
  <2>1. PICK u \in Users, g \in Goals :
          /\ goal[g] # Gone /\ part[u] # Nobody
          /\ Enter(r, [kind |-> "fit", user |-> u, goal |-> g, rev |-> goal[g].rev,
                       arev |-> goal[g].arev, ticket |-> part[u].id, gen |-> part[u].gen])
    BY <1>5 DEF Fit, PartOf
  <2> DEFINE q == [kind |-> "fit", user |-> u, goal |-> g, rev |-> goal[g].rev,
                   arev |-> goal[g].arev, ticket |-> part[u].id, gen |-> part[u].gen]
  <2>2. goal[g].rev \in Nat /\ goal[g].arev \in Nat
    BY <1>0, <2>1, Typed DEF Rows
  <2>3. part[u].id \in Tickets /\ part[u].id <= joins /\ part[u].gen \in Nat
    BY <1>0, <2>1, Typed, PartFields DEF Inv, PartOK
  <2>4. q \in Requests /\ q.kind = "fit" /\ q.ticket <= joins
    BY <2>2, <2>3 DEF Requests
  <2> HIDE DEF q
  <2>5. Enter(r, q)
    BY <2>1 DEF q
  <2> QED
    BY <1>1, <2>4, <2>5
<1> QED
  BY <1>2, <1>3, <1>4, <1>5

LEMMA ReenterKeeps ==
  ASSUME Inv, NEW r \in Reqs, Reenter(r)
  PROVE  Inv'
<1>1. CASE Refuse(r)
  BY <1>1, RefuseKeeps
<1>2. CASE ~Refuse(r)
  <2>1. pc[r] = "computing" /\ Read(r, req[r].user, req[r].goal) /\ req' = req
    BY <1>2 DEF Reenter
  <2>2. req[r] \in Requests
    BY <2>1 DEF Inv, SlotsOK, SlotOK
  <2>3. req' = [req EXCEPT ![r] = req[r]]
    BY <2>1 DEF Inv, TypeOK
  <2> QED
    BY <2>1, <2>2, <2>3, ReadKeeps
<1> QED
  BY <1>1, <1>2

-----------------------------------------------------------------------------
(* Steps of the goals, of the clock and of the operator. *)

LEMMA ChangeKeeps ==
  ASSUME Inv, NEW g \in Goals, NEW row \in Rows, Change(g, row),
         row.consent = goal[g].consent,
         \A d \in Days : d <= LastMature(now) => row.recs[d] = goal[g].recs[d]
  PROVE  Inv'
<1>0. TypeOK /\ now \in Int /\ joins \in Int
  BY Typed DEF Inv
<1>1. /\ goal[g] # Gone /\ RowFree(g) /\ edits < MaxEdits /\ edits' = edits + 1
      /\ goal' = [goal EXCEPT ![g] = row]
      /\ UNCHANGED <<now, part, forecasts, artifact, joins, pc, req, seen, memo, spent>>
  BY DEF Change, derived
<1>2. TypeOK'
  BY <1>0, <1>1, MilestoneAssumption DEF TypeOK
<1>3. now <= now' /\ joins <= joins' /\ OldPart
  BY <1>0, <1>1, SameIfEqual DEF OldPart
<1>4. RecsStand /\ ConsentStands
  BY <1>0, <1>1 DEF RecsStand, ConsentStands, TypeOK
<1>5. FitsStand /\ ArtifactsStand /\ Onward /\ spent' = spent
  BY <1>1, <1>3, OldIsOnward DEF FitsStand, Busy, ArtifactsStand
<1>6. ForecastsStand
  BY <1>0, <1>1, Derived, SameIfEqual DEF ForecastsStand
<1>7. \A h \in Goals : artifact'[h] # None => artifact'[h] = artifact[h] /\ Same(OwnerOf[h])
  BY <1>0, <1>1, Derived, SameIfEqual
<1>8. \A s \in Reqs : Still(s)
  <2> TAKE s \in Reqs
  <2>1. Held(s) => req[s].goal # g /\ goal[req[s].goal] # Gone /\ req[s].goal \in Goals
    BY <1>1, RequestFields DEF Inv, SlotsOK, SlotOK, Held, RowFree
  <2>2. Held(s) => goal'[req[s].goal] = goal[req[s].goal]
    BY <1>0, <1>1, <2>1 DEF TypeOK
  <2> QED
    BY <1>1, <2>1, <2>2 DEF Still, EpisodesKept
<1>9. SlotsOK' /\ OneHolder'
  BY <1>2, <1>4, <1>5, <1>8, StillAll
<1>10. PartOK' /\ GenOK' /\ SpentOK' /\ CoverOK'
  BY <1>2, <1>3, <1>4, <1>5, <1>6, <1>7, PartKept, GenKept, SpentKept, CoverKept
<1> QED
  BY <1>2, <1>9, <1>10 DEF Inv

(* A record that can be written is younger than any that matters. *)
LEMMA RecordKeeps ==
  ASSUME Inv, NEW g \in Goals, Record(g)
  PROVE  Inv'
<1>1. PICK d \in {DayOf[now], DayOf[now] - 1} \cap Days, status \in {"DONE", "SKIPPED"} :
        Change(g, [goal[g] EXCEPT !.recs[d] = status])
  BY DEF Record
<1> DEFINE row == [goal[g] EXCEPT !.recs[d] = status]
<1>2. goal[g] \in Rows
  BY <1>1, Typed DEF Change, Inv
<1>3. row \in Rows /\ row.consent = goal[g].consent
      /\ \A n \in Days : n # d => row.recs[n] = goal[g].recs[n]
  BY <1>2 DEF Rows, Records, Statuses
<1>4. \A n \in Days : n <= LastMature(now) => n # d
  <2>1. now \in Instants /\ now <= now
    BY Typed DEF Inv
  <2>2. DayOf[now] \in Int /\ DayOf[now] - 2 = LastMature(now)
    BY <2>1, DaysOf DEF LastMature, CorrectionDays
  <2> QED
    BY <1>1, <2>2
<1> HIDE DEF row
<1>5. Change(g, row)
  BY <1>1 DEF row
<1> QED
  BY <1>3, <1>4, <1>5, ChangeKeeps

LEMMA EditKeeps ==
  ASSUME Inv, NEW g \in Goals, Edit(g)
  PROVE  Inv'
<1> DEFINE one == [goal[g] EXCEPT !.rev = goal[g].rev + 1]
           two == [goal[g] EXCEPT !.arev = goal[g].arev + 1]
<1>1. Change(g, one) \/ Change(g, two)
  BY DEF Edit
<1>2. goal[g] \in Rows
  BY <1>1, Typed DEF Change, Inv
<1>3. /\ one \in Rows /\ one.consent = goal[g].consent /\ one.recs = goal[g].recs
      /\ two \in Rows /\ two.consent = goal[g].consent /\ two.recs = goal[g].recs
  BY <1>2 DEF Rows
<1> HIDE DEF one, two
<1> QED
  BY <1>1, <1>3, ChangeKeeps

LEMMA DeleteKeeps ==
  ASSUME Inv, NEW g \in Goals, Delete(g)
  PROVE  Inv'
<1>0. TypeOK /\ now \in Int /\ joins \in Int
  BY Typed DEF Inv
<1>1. /\ RowFree(g) /\ goal' = [goal EXCEPT ![g] = Gone]
      /\ part' = [u \in Users |-> IF g \in GoalOf(u) THEN Nobody ELSE part[u]]
      /\ forecasts' = {e \in forecasts : e.goal # g}
      /\ artifact' = [h \in Goals |-> IF h = g THEN None ELSE artifact[h]]
      /\ UNCHANGED <<now, joins, edits, pc, req, seen, memo, spent>>
  BY DEF Delete, bounds, DropDerived
<1>2. TypeOK'
  <2>1. part' \in [Users -> Participations \cup {Nobody}]
    BY <1>0, <1>1 DEF TypeOK
  <2>2. artifact' \in [Goals -> Artifacts \cup {None}] /\ forecasts' \subseteq Forecasts
    BY <1>0, <1>1 DEF TypeOK
  <2>3. goal' \in [Goals -> Rows \cup {Gone}]
    BY <1>0, <1>1 DEF TypeOK
  <2> QED
    BY <1>0, <1>1, <2>1, <2>2, <2>3 DEF TypeOK
<1>3. now <= now' /\ joins <= joins' /\ OldPart
  BY <1>0, <1>1, SameIfEqual DEF OldPart
<1>4. RecsStand /\ ConsentStands
  BY <1>0, <1>1 DEF RecsStand, ConsentStands, TypeOK
<1>5. FitsStand /\ ArtifactsStand /\ Onward /\ spent' = spent
  BY <1>1, <1>3, OldIsOnward DEF FitsStand, Busy, ArtifactsStand
<1>6. \A h \in Goals, u \in Users : part[u] # Nobody /\ part[u].goal = h /\ h # g => Same(u)
  <2> TAKE h \in Goals, u \in Users
  <2> HAVE part[u] # Nobody /\ part[u].goal = h /\ h # g
  <2>1. part'[u] = part[u]
    BY <1>1 DEF GoalOf
  <2> QED
    BY <1>0, <2>1, SameIfEqual
<1>7. ForecastsStand
  BY <1>1, <1>6, Derived DEF ForecastsStand
<1>8. \A h \in Goals : artifact'[h] # None => artifact'[h] = artifact[h] /\ Same(OwnerOf[h])
  BY <1>1, <1>6, Derived
<1>9. \A s \in Reqs : Still(s)
  <2> TAKE s \in Reqs
  <2>1. Held(s) => /\ req[s].goal # g /\ goal[req[s].goal] # Gone
                   /\ req[s].goal \in Goals /\ req[s].user \in Users
    BY <1>1, RequestFields DEF Inv, SlotsOK, SlotOK, Held, RowFree
  <2>2. Held(s) => /\ goal'[req[s].goal] = goal[req[s].goal]
                   /\ artifact'[req[s].goal] = artifact[req[s].goal]
                   /\ part'[req[s].user] \in {part[req[s].user], Nobody}
    BY <1>0, <1>1, <2>1 DEF TypeOK
  <2>3. Held(s) => EpisodesKept(req[s].goal)
    BY <1>1, <2>1 DEF EpisodesKept
  <2> QED
    BY <1>1, <2>1, <2>2, <2>3 DEF Still
<1>10. SlotsOK' /\ OneHolder'
  BY <1>2, <1>4, <1>5, <1>9, StillAll
<1>11. PartOK' /\ GenOK' /\ SpentOK' /\ CoverOK'
  BY <1>2, <1>3, <1>4, <1>5, <1>7, <1>8, PartKept, GenKept, SpentKept, CoverKept
<1> QED
  BY <1>2, <1>10, <1>11 DEF Inv

(* What runs out runs out with its participation: the purge takes a         *)
(* coefficient only together with the participation it hangs on.            *)
LEMMA PurgeKeeps ==
  ASSUME Inv, Purge
  PROVE  Inv'
<1>0. TypeOK /\ now \in Int /\ joins \in Int
  BY Typed DEF Inv
<1>1. PICK at \in 0 .. now :
        /\ part' = [u \in Users |-> IF u \in PurgedUsers(at) THEN Nobody ELSE part[u]]
        /\ forecasts' = {e \in forecasts :
                           e.goal \notin PurgedGoals(at) /\ ~RunOut(e.expires, e.issued, at)}
        /\ artifact' = [g \in Goals |->
             IF artifact[g] # None /\ \/ g \in PurgedGoals(at)
                                      \/ RunOut(artifact[g].expires, artifact[g].created, at)
             THEN None ELSE artifact[g]]
        /\ UNCHANGED <<now, goal, joins, edits, pc, req, seen, memo, spent>>
  BY DEF Purge, bounds
<1>2. TypeOK'
  <2>1. part' \in [Users -> Participations \cup {Nobody}]
    BY <1>0, <1>1 DEF TypeOK
  <2>2. artifact' \in [Goals -> Artifacts \cup {None}] /\ forecasts' \subseteq Forecasts
    BY <1>0, <1>1 DEF TypeOK
  <2> QED
    BY <1>0, <1>1, <2>1, <2>2 DEF TypeOK
<1>3. now <= now' /\ joins <= joins' /\ OldPart
  BY <1>0, <1>1, SameIfEqual DEF OldPart
<1>4. RecsStand /\ ConsentStands
  BY <1>0, <1>1 DEF RecsStand, ConsentStands, TypeOK
<1>5. FitsStand /\ ArtifactsStand /\ Onward /\ spent' = spent
  BY <1>1, <1>3, OldIsOnward DEF FitsStand, Busy, ArtifactsStand
<1>6. \A u \in Users : part[u] # Nobody /\ part[u].goal \notin PurgedGoals(at) => Same(u)
  <2> TAKE u \in Users
  <2> HAVE part[u] # Nobody /\ part[u].goal \notin PurgedGoals(at)
  <2>1. part'[u] = part[u]
    BY <1>1 DEF PurgedGoals
  <2> QED
    BY <1>0, <2>1, SameIfEqual
<1>7. ForecastsStand
  BY <1>1, <1>6, Derived DEF ForecastsStand
<1>8. \A g \in Goals : artifact'[g] # None => artifact'[g] = artifact[g] /\ Same(OwnerOf[g])
  BY <1>1, <1>6, Derived
<1>9. ASSUME NEW g \in Goals, part'[OwnerOf[g]] # Nobody
      PROVE  artifact'[g] = artifact[g]
  <2> SUFFICES ASSUME artifact[g] # None
               PROVE  artifact'[g] = artifact[g]
    BY <1>1
  <2> DEFINE u == OwnerOf[g]
             a == artifact[g]
  <2>1. /\ u \in Users /\ part[u] # Nobody /\ part[u].goal = g
        /\ part[u].joined <= a.created /\ part[u].expires = a.expires
    BY Derived DEF Inv, CoverOK, FitCovered
  <2>2. u \notin PurgedUsers(at)
    BY <1>1, <1>9, <2>1
  <2>3. g \notin PurgedGoals(at)
    BY <2>2 DEF PurgedGoals, PurgedUsers, Inv, PartOK
  <2>4. part[u].joined \in Int /\ a.created \in Int /\ at \in Int /\ Retention \in Int
    <3>1. a \in Artifacts
      BY <1>0, Typed
    <3>2. a.created \in Instants
      BY <3>1 DEF Artifacts
    <3> QED
      BY <1>0, <2>1, <3>2, Typed, PartFields, InstantType, MilestoneAssumption
  <2>5. ~RunOut(a.expires, a.created, at)
    <3>1. ~RunOut(part[u].expires, part[u].joined, at)
      BY <2>1, <2>2 DEF PurgedUsers
    <3> QED
      BY <2>1, <2>4, <3>1 DEF RunOut
  <2> QED
    BY <1>1, <2>3, <2>5
<1>9a. ASSUME NEW g \in Goals, part'[OwnerOf[g]] # Nobody
       PROVE  EpisodesKept(g)
  <2> SUFFICES ASSUME NEW e \in forecasts, e.goal = g
               PROVE  e \in forecasts'
    BY DEF EpisodesKept
  <2> DEFINE u == OwnerOf[g]
  <2>1. /\ u \in Users /\ part[u] # Nobody /\ part[u].goal = g
        /\ part[u].joined <= e.issued /\ part[u].expires = e.expires
    BY Derived DEF Inv, CoverOK, EpisodeCovered
  <2>2. u \notin PurgedUsers(at)
    BY <1>1, <1>9a, <2>1
  <2>3. g \notin PurgedGoals(at)
    BY <2>2 DEF PurgedGoals, PurgedUsers, Inv, PartOK
  <2>4. part[u].joined \in Int /\ e.issued \in Int /\ at \in Int /\ Retention \in Int
    <3>1. e.issued \in Instants
      BY <1>0 DEF TypeOK, Forecasts
    <3> QED
      BY <1>0, <2>1, <3>1, Typed, PartFields, InstantType, MilestoneAssumption
  <2>5. ~RunOut(e.expires, e.issued, at)
    <3>1. ~RunOut(part[u].expires, part[u].joined, at)
      BY <2>1, <2>2 DEF PurgedUsers
    <3> QED
      BY <2>1, <2>4, <3>1 DEF RunOut
  <2> QED
    BY <1>1, <2>3, <2>5
<1>10. \A s \in Reqs : Still(s)
  <2> TAKE s \in Reqs
  <2>1. Held(s) => /\ OwnerOf[req[s].goal] = req[s].user /\ goal[req[s].goal] # Gone
                   /\ req[s].goal \in Goals /\ req[s].user \in Users
    BY RequestFields DEF Inv, SlotsOK, SlotOK, Held
  <2>2. Held(s) => /\ part'[req[s].user] \in {part[req[s].user], Nobody}
                   /\ part'[req[s].user] # Nobody => artifact'[req[s].goal] = artifact[req[s].goal]
    BY <1>1, <1>9, <2>1
  <2>3. Held(s) /\ part'[req[s].user] # Nobody => EpisodesKept(req[s].goal)
    BY <1>9a, <2>1
  <2> QED
    BY <1>1, <2>1, <2>2, <2>3 DEF Still
<1>11. SlotsOK' /\ OneHolder'
  BY <1>2, <1>4, <1>5, <1>10, StillAll
<1>12. PartOK' /\ GenOK' /\ SpentOK' /\ CoverOK'
  BY <1>2, <1>3, <1>4, <1>5, <1>7, <1>8, PartKept, GenKept, SpentKept, CoverKept
<1> QED
  BY <1>2, <1>11, <1>12 DEF Inv

-----------------------------------------------------------------------------
(* Steps under the locks of slot r. *)

LEMMA HeldFacts ==
  ASSUME Inv, NEW r \in Reqs, Held(r)
  PROVE  /\ req[r] \in Requests /\ req[r].user \in Users /\ req[r].goal \in Goals
         /\ goal[req[r].goal] \in Rows /\ goal[req[r].goal] # Gone
         /\ OwnerOf[req[r].goal] = req[r].user
         /\ seen[r] \in Views /\ seen[r].at \in Instants /\ seen[r].at \in Int /\ seen[r].at <= now
         /\ seen[r].part # Nobody => seen[r].part \in Participations
         /\ PartSeen(r) /\ GoalSeen(r) /\ ForecastsSeen(r) /\ MemoOK(r)
         /\ \A s \in Reqs \ {r} : Held(s) =>
              req[s].user # req[r].user /\ OwnerOf[req[s].goal] = req[s].user
<1>1. /\ req[r] \in Requests /\ OwnerOf[req[r].goal] = req[r].user
      /\ goal[req[r].goal] # Gone /\ seen[r] \in Views /\ seen[r].at <= now
      /\ PartSeen(r) /\ GoalSeen(r) /\ ForecastsSeen(r) /\ MemoOK(r)
  BY DEF Inv, SlotsOK, SlotOK, SeenOK, Held
<1>2. req[r].user \in Users /\ req[r].goal \in Goals
  BY <1>1, RequestFields
<1>3. goal[req[r].goal] \in Rows
  BY <1>1, <1>2, Typed DEF Inv
<1>4. seen[r].at \in Instants /\ seen[r].part \in Participations \cup {Nobody}
  BY <1>1 DEF Views
<1>5. \A s \in Reqs \ {r} : Held(s) =>
        req[s].user # req[r].user /\ OwnerOf[req[s].goal] = req[s].user
  BY DEF Inv, SlotsOK, SlotOK, OneHolder, Held
<1> QED
  BY <1>1, <1>2, <1>3, <1>4, <1>5, InstantType

(* Slot r writes only what its locks cover. *)
OwnOnly(r) ==
  /\ \A h \in Goals : h # req[r].goal => goal'[h] = goal[h]
  /\ \A u \in Users : u # req[r].user => part'[u] = part[u]
  /\ \A h \in Goals : OwnerOf[h] # req[r].user => artifact'[h] = artifact[h] /\ EpisodesKept(h)
  /\ \A x \in spent' : x.goal # req[r].goal => x \in spent

LEMMA OthersStill ==
  ASSUME Inv, NEW r \in Reqs, Held(r), OwnOnly(r), NEW s \in Reqs \ {r},
         pc'[s] = pc[s], req'[s] = req[s], seen'[s] = seen[s], memo'[s] = memo[s]
  PROVE  Still(s)
<1> SUFFICES ASSUME Held(s)
             PROVE  /\ goal'[req[s].goal] # Gone
                    /\ goal'[req[s].goal].consent = goal[req[s].goal].consent
                    /\ part'[req[s].user] \in {part[req[s].user], Nobody}
                    /\ part'[req[s].user] # Nobody =>
                         artifact'[req[s].goal] = artifact[req[s].goal] /\ EpisodesKept(req[s].goal)
                    /\ \A x \in spent' : x.goal = req[s].goal => x \in spent
  BY DEF Still
<1>1. /\ req[s].user # req[r].user /\ OwnerOf[req[s].goal] = req[s].user
      /\ OwnerOf[req[r].goal] = req[r].user
  BY HeldFacts
<1>2. req[s].user \in Users /\ req[s].goal \in Goals /\ goal[req[s].goal] # Gone
  BY HeldFacts
<1>3. req[s].goal # req[r].goal
  BY <1>1
<1> QED
  BY <1>1, <1>2, <1>3 DEF OwnOnly

LEMMA AnswerKeeps ==
  ASSUME Inv, TypeOK', NEW r \in Reqs, Held(r), Answer(r), Onward, RecsStand, OwnOnly(r)
  PROVE  SlotsOK' /\ OneHolder'
<1>1. TypeOK
  BY DEF Inv
<1>2. \A s \in Reqs \ {r} : Still(s)
  BY <1>1, AnswerSlots, OthersStill
<1> QED
  BY <1>2, AnsweredKeeps

-----------------------------------------------------------------------------
(* Consent. *)

LEMMA SpentType ==
  ASSUME TypeOK, NEW g \in Goals, NEW c \in Nat, NEW by \in {"join", "withdraw"}, NEW t \in Nat,
         Spend(g, c, by, t)
  PROVE  spent' \subseteq [goal : Goals, consent : Nat, by : {"join", "withdraw"}, ticket : Nat]
BY DEF TypeOK, Spend

LEMMA ConsentMoves ==
  ASSUME TypeOK, NEW g \in Goals, goal[g] \in Rows, goal[g] # Gone, Consent(g)
  PROVE  /\ goal' \in [Goals -> Rows \cup {Gone}] /\ goal[g].consent \in Nat
         /\ goal'[g].consent = goal[g].consent + 1
         /\ \A h \in Goals : h # g => goal'[h] = goal[h]
         /\ RecsStand
<1> DEFINE row == [goal[g] EXCEPT !.consent = goal[g].consent + 1]
<1>1. goal[g].consent \in Nat /\ row \in Rows /\ row.recs = goal[g].recs
      /\ row.consent = goal[g].consent + 1
  BY DEF Rows
<1>2. goal' = [goal EXCEPT ![g] = row]
  BY DEF Consent
<1> HIDE DEF row
<1>3. goal'[g] = row /\ \A h \in Goals : h # g => goal'[h] = goal[h]
  BY <1>2 DEF TypeOK
<1>4. goal' \in [Goals -> Rows \cup {Gone}]
  BY <1>1, <1>2 DEF TypeOK
<1> QED
  BY <1>1, <1>3, <1>4 DEF RecsStand

(* The derived rows of the participations that stay are left alone. *)
LEMMA DropKeeps ==
  ASSUME Inv, NEW gs, DropDerived(gs),
         \A v \in Users : part[v] # Nobody /\ part[v].goal \notin gs => part'[v] = part[v]
  PROVE  /\ forecasts' \subseteq Forecasts /\ artifact' \in [Goals -> Artifacts \cup {None}]
         /\ ForecastsStand /\ ArtifactsStand
         /\ \A g \in Goals : artifact'[g] # None => artifact'[g] = artifact[g] /\ Same(OwnerOf[g])
         /\ \A g \in Goals : g \notin gs => artifact'[g] = artifact[g] /\ EpisodesKept(g)
<1>0. TypeOK
  BY DEF Inv
<1>1. forecasts' \subseteq Forecasts /\ artifact' \in [Goals -> Artifacts \cup {None}]
  BY <1>0 DEF DropDerived, TypeOK
<1>2. /\ ArtifactsStand
      /\ \A g \in Goals : g \notin gs => artifact'[g] = artifact[g] /\ EpisodesKept(g)
  BY DEF DropDerived, ArtifactsStand, EpisodesKept
<1>3. \A v \in Users : part[v] # Nobody /\ part[v].goal \notin gs => Same(v)
  BY <1>0, SameIfEqual
<1>4. ForecastsStand
  BY <1>3, Derived DEF DropDerived, ForecastsStand
<1>5. \A g \in Goals : artifact'[g] # None => artifact'[g] = artifact[g] /\ Same(OwnerOf[g])
  BY <1>3, Derived DEF DropDerived
<1> QED
  BY <1>1, <1>2, <1>4, <1>5

(* A join that is sent again claims the revision it has spent. *)
LEMMA ResendKeeps ==
  ASSUME Inv, NEW r \in Reqs, Holds(r, "join"), seen[r].part # Nobody,
         seen[r].part.goal = req[r].goal, ConsentIsResent(r),
         Spend(req[r].goal, req[r].consent, "join", seen[r].part.id),
         Answer(r), UNCHANGED <<goal, derived, joins>>
  PROVE  Inv'
<1> DEFINE u == req[r].user
           g == req[r].goal
           x0 == [goal |-> g, consent |-> req[r].consent, by |-> "join", ticket |-> seen[r].part.id]
<1>0. TypeOK /\ now \in Int /\ joins \in Int /\ Held(r)
  BY Typed DEF Inv, Holds, Held
<1>1. /\ req[r] \in Requests /\ u \in Users /\ g \in Goals /\ goal[g] \in Rows
      /\ OwnerOf[g] = u /\ seen[r].part \in Participations /\ PartSeen(r) /\ GoalSeen(r)
  BY <1>0, HeldFacts
<1>2. req[r].consent \in Nat /\ goal[g].consent \in Nat /\ seen[r].part.id \in Nat
  BY <1>1, RequestFields, PartFields, TicketType DEF Holds, Rows
<1>3. /\ part' = part /\ forecasts' = forecasts /\ artifact' = artifact /\ goal' = goal
      /\ joins' = joins /\ now' = now /\ spent' = spent \cup {x0}
      /\ req[r].consent = goal[g].consent - 1
  BY DEF derived, Answer, Spend, ConsentIsResent
<1>4. TypeOK'
  BY <1>0, <1>1, <1>2, <1>3, SpentType, AnswerType DEF TypeOK
<1>5. now <= now' /\ joins <= joins' /\ OldPart
  BY <1>0, <1>3, SameIfEqual DEF OldPart
<1>6. RecsStand /\ FitsStand /\ ArtifactsStand /\ Onward /\ OwnOnly(r)
  BY <1>0, <1>3, <1>5, AnswerSlots, OldIsOnward DEF RecsStand, ArtifactsStand, OwnOnly, EpisodesKept
<1>7. ForecastsStand
  BY <1>0, <1>3, Derived, SameIfEqual DEF ForecastsStand
<1>8. \A h \in Goals : artifact'[h] # None => artifact'[h] = artifact[h] /\ Same(OwnerOf[h])
  BY <1>0, <1>3, Derived, SameIfEqual
<1>9. PartOK' /\ GenOK' /\ CoverOK'
  BY <1>4, <1>5, <1>6, <1>7, <1>8, PartKept, GenKept, CoverKept
<1>10. SlotsOK' /\ OneHolder'
  BY <1>0, <1>4, <1>6, AnswerKeeps
<1> HIDE DEF x0
<1>11. \A x \in spent : x.goal = g /\ x.consent = x0.consent => x = x0
  <2> TAKE x \in spent
  <2> HAVE x.goal = g /\ x.consent = x0.consent
  <2>1. x.by = "join" /\ x.ticket = seen[r].part.id
    BY <1>1, <1>3 DEF GoalSeen, x0
  <2>2. x \in [goal : Goals, consent : Nat, by : {"join", "withdraw"}, ticket : Nat]
    BY <1>0 DEF TypeOK
  <2> QED
    BY <2>1, <2>2 DEF x0
<1>12. x0.goal = g /\ x0.consent = req[r].consent /\ x0.by = "join" /\ x0.ticket = seen[r].part.id
  BY DEF x0
<1>13. SpentOK /\ RevisionsAreSpentOnce
  BY DEF Inv, SpentOK
<1>14. \A x \in spent' : goal'[x.goal] # Gone => x.consent < goal'[x.goal].consent
  BY <1>2, <1>3, <1>12, <1>13 DEF SpentOK
<1>15. ASSUME NEW v \in Users, part'[v] # Nobody, Live(part'[v], now'), goal'[part'[v].goal] # Gone,
              NEW x \in spent', x.goal = part'[v].goal,
              x.consent = goal'[part'[v].goal].consent - 1
       PROVE  x.by = "join" /\ x.ticket = part'[v].id
  <2>1. CASE x \in spent
    BY <1>3, <1>13, <1>15, <2>1 DEF SpentOK, Live
  <2>2. CASE x = x0
    <3>1. v = u
      BY <1>1, <1>3, <1>12, <1>15, <2>2 DEF Inv, PartOK
    <3>2. part[u] = seen[r].part
      BY <1>1, <1>3, <1>15, <3>1 DEF PartSeen
    <3> QED
      BY <1>3, <1>12, <2>2, <3>1, <3>2
  <2> QED
    BY <1>3, <1>15, <2>1, <2>2
<1>16. RevisionsAreSpentOnce'
  BY <1>3, <1>11, <1>12, <1>13 DEF RevisionsAreSpentOnce
<1>17. SpentOK'
  BY <1>14, <1>15, <1>16 DEF SpentOK
<1> QED
  BY <1>4, <1>9, <1>10, <1>17 DEF Inv

(* A revision of consent is spent by its next one. *)
LEMMA SpendMoves ==
  ASSUME Inv, NEW g \in Goals, goal[g] # Gone, goal[g].consent \in Nat,
         goal'[g].consent = goal[g].consent + 1, \A h \in Goals : h # g => goal'[h] = goal[h],
         NEW x0, x0.goal = g, x0.consent = goal[g].consent, spent' = spent \cup {x0}
  PROVE  /\ \A x \in spent' : goal'[x.goal] # Gone => x.consent < goal'[x.goal].consent
         /\ RevisionsAreSpentOnce'
         /\ \A x \in spent' : x.goal = g /\ x.consent = goal'[g].consent - 1 => x = x0
<1>0. /\ SpentOK /\ RevisionsAreSpentOnce
      /\ \A x \in spent : x.goal \in Goals /\ x.consent \in Nat
  BY DEF Inv, SpentOK, TypeOK
<1>1. \A x \in spent : x.goal = g => x.consent < goal[g].consent
  BY <1>0 DEF SpentOK
<1>2. \A x \in spent : goal'[x.goal] # Gone => x.consent < goal'[x.goal].consent
  <2> TAKE x \in spent
  <2>1. CASE x.goal = g
    BY <1>0, <1>1, <2>1
  <2>2. CASE x.goal # g
    BY <1>0, <2>2 DEF SpentOK
  <2> QED
    BY <2>1, <2>2
<1>3. \A x \in spent' : goal'[x.goal] # Gone => x.consent < goal'[x.goal].consent
  BY <1>2
<1>4. \A x \in spent' : x.goal = g /\ x.consent = goal[g].consent => x = x0
  BY <1>0, <1>1
<1>5. RevisionsAreSpentOnce'
  BY <1>0, <1>4 DEF RevisionsAreSpentOnce
<1> QED
  BY <1>3, <1>4, <1>5

LEMMA WithdrawKeeps ==
  ASSUME Inv, NEW r \in Reqs, WithdrawCommit(r), ~Refuse(r)
  PROVE  Inv'
<1> DEFINE u == req[r].user
           g == req[r].goal
           x0 == [goal |-> g, consent |-> goal[g].consent, by |-> "withdraw", ticket |-> 0]
<1>0. TypeOK /\ now \in Int /\ joins \in Int /\ Held(r)
  BY Typed DEF Inv, WithdrawCommit, Holds, Held
<1>1. /\ req[r] \in Requests /\ u \in Users /\ g \in Goals /\ goal[g] \in Rows /\ goal[g] # Gone
      /\ OwnerOf[g] = u /\ PartSeen(r) /\ seen[r].at \in Int /\ seen[r].at <= now
      /\ seen[r].part # Nobody => seen[r].part \in Participations
  BY <1>0, HeldFacts
<1>2. /\ Consent(g) /\ Spend(g, goal[g].consent, "withdraw", 0) /\ Answer(r) /\ joins' = joins
      /\ ~(seen[r].part # Nobody /\ seen[r].part.goal = g /\ seen[r].part.id # req[r].ticket)
      /\ IF part[u] # Nobody /\ part[u].goal = g /\ part[u].id = req[r].ticket
         THEN part' = [part EXCEPT ![u] = Nobody] /\ DropDerived({g})
         ELSE UNCHANGED derived
  BY DEF WithdrawCommit
<1>3. /\ goal' \in [Goals -> Rows \cup {Gone}] /\ goal[g].consent \in Nat
      /\ goal'[g].consent = goal[g].consent + 1
      /\ \A h \in Goals : h # g => goal'[h] = goal[h]
      /\ RecsStand
  BY <1>0, <1>1, <1>2, ConsentMoves
<1>4. /\ \A v \in Users : part'[v] \in {part[v], Nobody}
      /\ \A v \in Users : v # u => part'[v] = part[v]
      /\ part' \in [Users -> Participations \cup {Nobody}]
      /\ forecasts' \subseteq Forecasts /\ artifact' \in [Goals -> Artifacts \cup {None}]
      /\ ForecastsStand /\ ArtifactsStand
      /\ \A h \in Goals : artifact'[h] # None => artifact'[h] = artifact[h] /\ Same(OwnerOf[h])
      /\ \A h \in Goals : h # g => artifact'[h] = artifact[h] /\ EpisodesKept(h)
  <2>1. CASE part[u] # Nobody /\ part[u].goal = g /\ part[u].id = req[r].ticket
    <3>1. part' = [part EXCEPT ![u] = Nobody] /\ DropDerived({g})
      BY <1>2, <2>1
    <3>2. part' \in [Users -> Participations \cup {Nobody}] /\ part'[u] = Nobody
          /\ \A v \in Users : v # u => part'[v] = part[v]
      BY <1>0, <1>1, <3>1 DEF TypeOK
    <3>3. \A v \in Users : part[v] # Nobody /\ part[v].goal \notin {g} => part'[v] = part[v]
      BY <2>1, <3>2
    <3> QED
      BY <3>1, <3>2, <3>3, DropKeeps
  <2>2. CASE ~(part[u] # Nobody /\ part[u].goal = g /\ part[u].id = req[r].ticket)
    <3>1. part' = part /\ forecasts' = forecasts /\ artifact' = artifact
      BY <1>2, <2>2 DEF derived
    <3>2. ForecastsStand
      BY <1>0, <3>1, Derived, SameIfEqual DEF ForecastsStand
    <3>3. \A h \in Goals : artifact'[h] # None => artifact'[h] = artifact[h] /\ Same(OwnerOf[h])
      BY <1>0, <3>1, Derived, SameIfEqual
    <3> QED
      BY <1>0, <3>1, <3>2, <3>3 DEF TypeOK, ArtifactsStand, EpisodesKept
  <2> QED
    BY <2>1, <2>2
<1>5. TypeOK'
  BY <1>0, <1>1, <1>2, <1>3, <1>4, SpentType, AnswerType DEF TypeOK
<1>6. now' = now /\ now <= now' /\ joins <= joins' /\ OldPart
  BY <1>0, <1>2, <1>4, SameIfEqual DEF OldPart, Answer
<1>7. FitsStand /\ Onward /\ OwnOnly(r)
  <2>1. spent' = spent \cup {x0}
    BY <1>2 DEF Spend
  <2>2. \A x \in spent' : x.goal # g => x \in spent
    BY <2>1
  <2>3. \A h \in Goals : OwnerOf[h] # u => h # g
    BY <1>1
  <2> QED
    BY <1>0, <1>2, <1>3, <1>4, <1>6, <2>2, <2>3, AnswerSlots, OldIsOnward DEF OwnOnly
<1>8. PartOK' /\ GenOK' /\ CoverOK'
  BY <1>3, <1>4, <1>5, <1>6, <1>7, PartKept, GenKept, CoverKept
<1>9. SlotsOK' /\ OneHolder'
  BY <1>0, <1>2, <1>3, <1>5, <1>7, AnswerKeeps
<1>10. spent' = spent \cup {x0} /\ x0.goal = g /\ x0.consent = goal[g].consent
  BY <1>2 DEF Spend
<1> HIDE DEF x0
<1>11. /\ \A x \in spent' : goal'[x.goal] # Gone => x.consent < goal'[x.goal].consent
       /\ RevisionsAreSpentOnce'
  BY <1>1, <1>3, <1>10, SpendMoves
<1>12. ASSUME NEW v \in Users, part'[v] # Nobody, Live(part'[v], now'), goal'[part'[v].goal] # Gone,
              NEW x \in spent', x.goal = part'[v].goal,
              x.consent = goal'[part'[v].goal].consent - 1
       PROVE  x.by = "join" /\ x.ticket = part'[v].id
  <2>1. part'[v] = part[v] /\ OwnerOf[part[v].goal] = v /\ part[v] \in Participations
    BY <1>0, <1>4, <1>12, Typed DEF Inv, PartOK
  <2>2. part[v].goal \in Goals /\ part[v].expires \in Int /\ part[v].joined \in Int /\ Retention \in Int
    BY <2>1, PartFields, MilestoneAssumption
  <2>3. CASE part[v].goal # g
    BY <1>3, <1>6, <1>10, <1>12, <2>1, <2>2, <2>3 DEF Inv, SpentOK, Live
  <2>4. CASE part[v].goal = g
    <3>1. v = u /\ part[u] # Nobody
      BY <1>1, <1>12, <2>1, <2>4
    <3>2. Live(part[u], seen[r].at)
      BY <1>0, <1>1, <1>6, <1>12, <2>1, <2>2, <3>1 DEF Live
    <3>3. part[u] = seen[r].part
      BY <1>1, <3>1, <3>2 DEF PartSeen
    <3>4. part[u].id = req[r].ticket
      BY <1>2, <2>4, <3>1, <3>3
    <3>5. part'[u] = Nobody
      BY <1>0, <1>1, <1>2, <2>4, <3>1, <3>4 DEF TypeOK
    <3> QED
      BY <1>12, <3>1, <3>5
  <2> QED
    BY <2>3, <2>4
<1>13. SpentOK'
  BY <1>11, <1>12 DEF SpentOK
<1> QED
  BY <1>5, <1>8, <1>9, <1>13 DEF Inv

(* A new participation drops what its user had and spends the revision its *)
(* user agreed to.                                                          *)
LEMMA NewPartKeeps ==
  ASSUME Inv, NEW r \in Reqs, Holds(r, "join"), seen[r].part = Nobody, ConsentIsCurrent(r),
         joins < MaxJoins, Consent(req[r].goal),
         part' = [part EXCEPT ![req[r].user] =
                    [id |-> joins + 1, goal |-> req[r].goal, joined |-> seen[r].at,
                     expires |-> seen[r].at + Retention, gen |-> 0]],
         DropDerived(GoalOf(req[r].user)), joins' = joins + 1,
         Spend(req[r].goal, req[r].consent, "join", joins + 1), Answer(r)
  PROVE  Inv'
<1> DEFINE u == req[r].user
           g == req[r].goal
           p == [id |-> joins + 1, goal |-> g, joined |-> seen[r].at,
                 expires |-> seen[r].at + Retention, gen |-> 0]
           x0 == [goal |-> g, consent |-> req[r].consent, by |-> "join", ticket |-> joins + 1]
<1>0. TypeOK /\ now \in Int /\ joins \in Int /\ Held(r)
  BY Typed DEF Inv, Holds, Held
<1>1. /\ req[r] \in Requests /\ u \in Users /\ g \in Goals /\ goal[g] \in Rows /\ goal[g] # Gone
      /\ OwnerOf[g] = u /\ seen[r].at \in Instants /\ seen[r].at \in Nat /\ seen[r].at <= now
  BY <1>0, HeldFacts, InstantType
<1>2. joins + 1 \in Tickets /\ joins' \in 0 .. MaxJoins /\ joins + 1 \in Nat
  BY <1>0, MilestoneAssumption DEF TypeOK, Tickets
<1>3. /\ p \in Participations /\ p.id = joins + 1 /\ p.goal = g /\ p.joined = seen[r].at
      /\ p.expires = seen[r].at + Retention
  BY <1>1, <1>2, MilestoneAssumption DEF Participations
<1> HIDE DEF p
<1>4. /\ part' = [part EXCEPT ![u] = p] /\ part'[u] = p
      /\ \A v \in Users : v # u => part'[v] = part[v]
      /\ part' \in [Users -> Participations \cup {Nobody}]
  <2>1. part' = [part EXCEPT ![u] = p]
    BY DEF p
  <2> QED
    BY <1>0, <1>1, <1>3, <2>1 DEF TypeOK
<1>5. /\ goal' \in [Goals -> Rows \cup {Gone}] /\ goal[g].consent \in Nat
      /\ goal'[g].consent = goal[g].consent + 1
      /\ \A h \in Goals : h # g => goal'[h] = goal[h]
      /\ RecsStand
  BY <1>0, <1>1, ConsentMoves
<1>6. \A v \in Users : part[v] # Nobody /\ part[v].goal \notin GoalOf(u) => part'[v] = part[v]
  BY <1>4 DEF GoalOf
<1>7. /\ forecasts' \subseteq Forecasts /\ artifact' \in [Goals -> Artifacts \cup {None}]
      /\ ForecastsStand /\ ArtifactsStand
      /\ \A h \in Goals : artifact'[h] # None => artifact'[h] = artifact[h] /\ Same(OwnerOf[h])
      /\ \A h \in Goals : h \notin GoalOf(u) => artifact'[h] = artifact[h] /\ EpisodesKept(h)
  BY <1>6, DropKeeps
<1>8. req[r].consent = goal[g].consent
  BY DEF ConsentIsCurrent
<1>9. TypeOK'
  BY <1>0, <1>1, <1>2, <1>4, <1>5, <1>7, <1>8, SpentType, AnswerType
<1>10. now' = now /\ now <= now' /\ joins <= joins'
  BY <1>0 DEF Answer
<1>11. \A v \in Users : part'[v] # Nobody => IF v = u THEN part'[v].id > joins ELSE Same(v)
  BY <1>0, <1>3, <1>4, SameIfEqual
<1>12. Onward /\ FitsStand
  BY <1>0, <1>10, <1>11, AnswerSlots DEF Onward
<1>13. spent' = spent \cup {x0} /\ x0.goal = g /\ x0.consent = goal[g].consent
  BY <1>8 DEF Spend
<1>14. x0.by = "join" /\ x0.ticket = joins + 1
  OBVIOUS
<1> HIDE DEF x0
<1>15. OwnOnly(r)
  <2>1. \A h \in GoalOf(u) : OwnerOf[h] = u
    BY <1>1 DEF GoalOf, Inv, PartOK
  <2>2. \A h \in Goals : OwnerOf[h] # u => artifact'[h] = artifact[h] /\ EpisodesKept(h)
    BY <1>7, <2>1
  <2> QED
    BY <1>4, <1>5, <1>13, <2>2 DEF OwnOnly
<1>16. SlotsOK' /\ OneHolder'
  BY <1>0, <1>5, <1>9, <1>12, <1>15, AnswerKeeps
<1>17. GenOK' /\ CoverOK'
  BY <1>5, <1>7, <1>9, <1>10, <1>12, GenKept, CoverKept
<1>18. PartOK'
  <2>1. \A v \in Users : part[v] # Nobody => part[v].id \in Int /\ part[v].id <= joins
    BY <1>0, Typed, PartFields DEF Inv, PartOK
  <2>2. \A v \in Users : part'[v] # Nobody =>
          /\ OwnerOf[part'[v].goal] = v
          /\ part'[v].id <= joins' /\ part'[v].joined <= now'
          /\ part'[v].expires = part'[v].joined + Retention
    <3> TAKE v \in Users
    <3> HAVE part'[v] # Nobody
    <3>1. CASE v = u
      BY <1>0, <1>1, <1>3, <1>4, <1>10, <3>1
    <3>2. CASE v # u
      BY <1>0, <1>4, <1>10, <2>1, <3>2 DEF Inv, PartOK
    <3> QED
      BY <3>1, <3>2
  <2>3. \A v, w \in Users :
          part'[v] # Nobody /\ part'[w] # Nobody /\ part'[v].id = part'[w].id => v = w
    <3> TAKE v, w \in Users
    <3> HAVE part'[v] # Nobody /\ part'[w] # Nobody /\ part'[v].id = part'[w].id
    <3>1. CASE v # u /\ w # u
      BY <1>4, <3>1 DEF Inv, PartOK
    <3>2. CASE v = u /\ w # u
      BY <1>0, <1>3, <1>4, <2>1, <3>2
    <3>3. CASE v # u /\ w = u
      BY <1>0, <1>3, <1>4, <2>1, <3>3
    <3> QED
      BY <3>1, <3>2, <3>3
  <2> QED
    BY <2>2, <2>3 DEF PartOK
<1>19. /\ \A x \in spent' : goal'[x.goal] # Gone => x.consent < goal'[x.goal].consent
       /\ RevisionsAreSpentOnce'
       /\ \A x \in spent' : x.goal = g /\ x.consent = goal'[g].consent - 1 => x = x0
  BY <1>1, <1>5, <1>13, SpendMoves
<1>20. ASSUME NEW v \in Users, part'[v] # Nobody, Live(part'[v], now'), goal'[part'[v].goal] # Gone,
              NEW x \in spent', x.goal = part'[v].goal,
              x.consent = goal'[part'[v].goal].consent - 1
       PROVE  x.by = "join" /\ x.ticket = part'[v].id
  <2>1. CASE v = u
    BY <1>3, <1>4, <1>14, <1>19, <1>20, <2>1
  <2>2. CASE v # u
    <3>1. /\ part'[v] = part[v] /\ OwnerOf[part[v].goal] = v /\ part[v].goal \in Goals
      BY <1>0, <1>4, <1>20, <2>2, Typed, PartFields DEF Inv, PartOK
    <3>2. part[v].goal # g
      BY <1>1, <2>2, <3>1
    <3> QED
      BY <1>5, <1>10, <1>13, <1>20, <3>1, <3>2 DEF Inv, SpentOK, Live
  <2> QED
    BY <2>1, <2>2
<1>21. SpentOK'
  BY <1>19, <1>20 DEF SpentOK
<1> QED
  BY <1>9, <1>16, <1>17, <1>18, <1>21 DEF Inv

LEMMA JoinKeeps ==
  ASSUME Inv, NEW r \in Reqs, JoinCommit(r)
  PROVE  Inv'
<1>1. CASE Refuse(r)
  BY <1>1, RefuseKeeps
<1>2. CASE ~Refuse(r) /\ seen[r].part # Nobody
  BY <1>2, ResendKeeps DEF JoinCommit
<1>3. CASE ~Refuse(r) /\ seen[r].part = Nobody
  <2>1. /\ Holds(r, "join") /\ ConsentIsCurrent(r) /\ joins < MaxJoins /\ Consent(req[r].goal)
        /\ part' = [part EXCEPT ![req[r].user] =
                     [id |-> joins + 1, goal |-> req[r].goal, joined |-> seen[r].at,
                      expires |-> seen[r].at + Retention, gen |-> 0]]
        /\ DropDerived(GoalOf(req[r].user)) /\ joins' = joins + 1
        /\ Spend(req[r].goal, req[r].consent, "join", joins + 1) /\ Answer(r)
    BY <1>3 DEF JoinCommit
  <2> QED
    BY <1>3, <2>1, NewPartKeeps
<1> QED
  BY <1>1, <1>2, <1>3

-----------------------------------------------------------------------------
(* Episodes. *)

(* What the slot that is ready knows of the participation. *)
LEMMA ReadyFacts ==
  ASSUME Inv, NEW r \in Reqs, Held(r), Ready(r)
  PROVE  /\ seen[r].part \in Participations /\ seen[r].part # Nobody
         /\ seen[r].part.goal = req[r].goal /\ seen[r].part.id = req[r].ticket
         /\ Live(seen[r].part, seen[r].at)
         /\ seen[r].part.id <= joins /\ seen[r].part.joined <= seen[r].at
         /\ part[req[r].user] \in {seen[r].part, Nobody}
         /\ \A u \in Users :
              part[u] # Nobody /\ part[u].id = req[r].ticket =>
                u = req[r].user /\ part[u] = seen[r].part
         /\ part[req[r].user] # Nobody => artifact[req[r].goal] = seen[r].art
         /\ SameContext(req[r], goal[req[r].goal])
<1>1. PartSeen(r) /\ GoalSeen(r) /\ seen[r].part # Nobody => seen[r].part \in Participations
  BY HeldFacts
<1>2. /\ seen[r].part # Nobody /\ seen[r].part.goal = req[r].goal
      /\ seen[r].part.id = req[r].ticket /\ SameContext(req[r], goal[req[r].goal])
  BY DEF Ready, SameTicket
<1>3. PartSeen(r) /\ GoalSeen(r)
  BY HeldFacts
<1> QED
  BY <1>1, <1>2, <1>3 DEF PartSeen, GoalSeen

(* The first transaction of a capture or a fit ends. *)
LEMMA ComputeKeeps ==
  ASSUME Inv, TypeOK', NEW r \in Reqs, Held(r), Ready(r),
         NEW kind, NEW kept \in Memos, Compute(r, kind, kept),
         \/ kind = "store" /\ req[r].kind = "capture"
         \/ kind = "fitted" /\ req[r].kind = "fit",
         kept.at = seen[r].at,
         kind = "store" => Capturable(kept.recs, DayOf[kept.at]),
         kind = "fitted" => Trained(kept.receipts, goal[req[r].goal], now),
         \A u \in Users : u # req[r].user => part'[u] = part[u],
         \A u \in Users : IF part[u] = Nobody THEN part'[u] = Nobody ELSE Same(u)
  PROVE  /\ SlotsOK' /\ OneHolder' /\ Onward /\ RecsStand /\ OldPart
         /\ PartOK' /\ SpentOK' /\ CoverOK'
<1>0. TypeOK /\ now \in Int /\ joins \in Int
  BY Typed DEF Inv
<1>1. /\ req[r] \in Requests /\ req[r].user \in Users /\ req[r].goal \in Goals
      /\ OwnerOf[req[r].goal] = req[r].user /\ seen[r].at \in Int /\ seen[r].at <= now
  BY HeldFacts
<1>2. /\ memo'[r] = kept /\ pc'[r] = "computing" /\ req'[r] = [req[r] EXCEPT !.kind = kind]
      /\ UNCHANGED <<now, goal, forecasts, artifact, joins, edits, spent>>
      /\ \A s \in Reqs \ {r} : /\ pc'[s] = pc[s] /\ req'[s] = req[s]
                               /\ seen'[s] = seen[s] /\ memo'[s] = memo[s]
  BY <1>0 DEF Compute, bounds, TypeOK
<1>3. /\ req'[r].kind = kind /\ req'[r].user = req[r].user /\ req'[r].goal = req[r].goal
      /\ req'[r].ticket = req[r].ticket /\ req'[r] \in Requests
  BY <1>1, <1>2 DEF Requests
<1>4. /\ now <= now' /\ joins <= joins' /\ OldPart /\ RecsStand /\ ConsentStands /\ spent' = spent
      /\ OwnOnly(r)
  BY <1>0, <1>2 DEF OldPart, Same, RecsStand, ConsentStands, OwnOnly, EpisodesKept
<1>5. Onward
  BY <1>4, OldIsOnward
<1>6. /\ ForecastsStand
      /\ \A g \in Goals : artifact'[g] # None => artifact'[g] = artifact[g] /\ Same(OwnerOf[g])
  BY <1>2, Derived DEF ForecastsStand
<1>7. \A s \in Reqs \ {r} : Still(s)
  BY <1>2, <1>4, OthersStill
<1>8. SlotOK(r)' /\ SeenOK(r)'
  <2>1. req[r].ticket <= joins
    BY ReadyFacts
  <2> QED
    BY <1>1, <1>2, <1>3, <2>1 DEF SlotOK, SeenOK, Held
<1>9. MemoOK(r)'
  <2>1. \A u \in Users : part'[u] # Nobody /\ part'[u].id = req[r].ticket =>
          part'[u].joined <= seen[r].at
    <3> TAKE u \in Users
    <3> HAVE part'[u] # Nobody /\ part'[u].id = req[r].ticket
    <3>1. Same(u)
      BY DEF Same
    <3>2. part[u] = seen[r].part
      BY <3>1, ReadyFacts DEF Same
    <3> QED
      BY <3>1, <3>2, ReadyFacts DEF Same
  <2>2. ~Held(r)'
    BY <1>2 DEF Held
  <2> QED
    BY <1>1, <1>2, <1>3, <2>1, <2>2 DEF MemoOK, Busy
<1>10. SlotsOK'
  BY <1>4, <1>5, <1>7, <1>8, <1>9, StillKeeps DEF SlotsOK
<1>11. OneHolder'
  <2>1. \A s \in Reqs : Held(s)' => Held(s) /\ req'[s] = req[s]
    BY <1>2 DEF Held
  <2> QED
    BY <2>1 DEF OneHolder, Inv
<1> QED
  BY <1>4, <1>5, <1>6, <1>10, <1>11, PartKept, SpentKept, CoverKept

LEMMA CapturePrepareKeeps ==
  ASSUME Inv, NEW r \in Reqs, CapturePrepare(r)
  PROVE  Inv'
<1>1. CASE Refuse(r)
  BY <1>1, RefuseKeeps
<1>2. CASE ~Refuse(r)
  <2> DEFINE kept == [at |-> seen[r].at, recs |-> goal[req[r].goal].recs,
                      latest |-> {}, receipts |-> {}]
  <2>0. TypeOK /\ Held(r) /\ req[r].kind = "capture"
    BY DEF Inv, CapturePrepare, Holds, Held
  <2>1. /\ Ready(r) /\ Capturable(goal[req[r].goal].recs, DayOf[seen[r].at])
        /\ Compute(r, "store", kept) /\ part' = part
    BY <1>2 DEF CapturePrepare
  <2>2. /\ req[r] \in Requests /\ goal[req[r].goal] \in Rows /\ seen[r].at \in Instants
    BY <2>0, HeldFacts
  <2>3. kept \in Memos
    BY <2>2 DEF Memos, Rows
  <2>4. kept.at = seen[r].at /\ Capturable(kept.recs, DayOf[kept.at])
    BY <2>1
  <2> HIDE DEF kept
  <2>5. [req[r] EXCEPT !.kind = "store"] \in Requests
    BY <2>0, <2>2 DEF Requests
  <2>6. TypeOK'
    BY <2>0, <2>1, <2>3, <2>5 DEF Compute, TypeOK, bounds
  <2>7. /\ \A u \in Users : u # req[r].user => part'[u] = part[u]
        /\ \A u \in Users : IF part[u] = Nobody THEN part'[u] = Nobody ELSE Same(u)
    BY <2>0, <2>1, SameIfEqual
  <2>8. /\ SlotsOK' /\ OneHolder' /\ Onward /\ RecsStand /\ OldPart
        /\ PartOK' /\ SpentOK' /\ CoverOK'
    BY <2>0, <2>1, <2>3, <2>4, <2>6, <2>7, ComputeKeeps
  <2>9. FitsStand
    BY <2>0, <2>1, <2>2 DEF FitsStand, Busy, Compute, TypeOK
  <2>10. GenOK'
    BY <2>1, <2>6, <2>8, <2>9, GenKept DEF Compute, ArtifactsStand
  <2> QED
    BY <2>6, <2>8, <2>10 DEF Inv
<1> QED
  BY <1>1, <1>2

(* The episode that is about to be stored. *)
LEMMA NewForecastFits ==
  ASSUME Inv, NEW r \in Reqs, Held(r), req[r].kind = "store", Ready(r),
         PartOf(req[r].user, req[r].goal)
  PROVE  LET e == NewForecast(r)  p == part[req[r].user] IN
         /\ e \in Forecasts /\ e.goal = req[r].goal /\ OwnerOf[e.goal] = req[r].user
         /\ e.origin = DayOf[memo[r].at] /\ e.rev = req[r].rev /\ e.arev = req[r].arev
         /\ e.prefix = Prefix(memo[r].recs, e.origin) /\ e.art = req[r].art
         /\ p # Nobody /\ p = seen[r].part /\ p.goal = e.goal /\ p.id = e.ticket
         /\ p.joined <= e.issued /\ p.expires = e.expires
<1>1. /\ req[r] \in Requests /\ req[r].user \in Users /\ req[r].goal \in Goals
      /\ OwnerOf[req[r].goal] = req[r].user /\ MemoOK(r)
      /\ seen[r].at \in Int /\ seen[r].at <= now
  BY HeldFacts
<1>2. /\ req[r].rev \in Nat /\ req[r].arev \in Nat /\ req[r].art \in Names \cup {None}
  BY <1>1, RequestFields
<1>3. Busy(r, {"store", "fitted"})
  BY DEF Busy, Held
<1>4. /\ memo[r] \in Memos /\ memo[r].at <= seen[r].at
      /\ \A u \in Users : part[u] # Nobody /\ part[u].id = req[r].ticket =>
           part[u].joined <= memo[r].at
  BY <1>1, <1>3 DEF MemoOK
<1>5. memo[r].at \in Instants /\ memo[r].at \in Nat /\ memo[r].recs \in Records
  BY <1>4, InstantType DEF Memos
<1>6. /\ part[req[r].user] = seen[r].part /\ part[req[r].user] # Nobody
      /\ part[req[r].user].id = req[r].ticket /\ part[req[r].user].goal = req[r].goal
      /\ Live(part[req[r].user], seen[r].at) /\ part[req[r].user] \in Participations
  BY ReadyFacts DEF PartOf
<1> DEFINE p == part[req[r].user]
<1>7. /\ p.id \in Tickets /\ p.joined \in Int /\ p.expires \in Nat /\ p.joined <= memo[r].at
      /\ p.expires = p.joined + Retention /\ Retention \in Nat /\ Retention > 0
  BY <1>1, <1>4, <1>6, PartFields, MilestoneAssumption DEF Inv, PartOK
<1>8. p.expires > seen[r].at
  BY <1>6 DEF Live
<1>9. Least(memo[r].at + Retention, p.expires) = p.expires /\ p.expires > memo[r].at
  BY <1>1, <1>4, <1>5, <1>7, <1>8 DEF Least
<1>10. DayOf[memo[r].at] \in Days
  BY <1>5, MilestoneAssumption
<1>11. Prefix(memo[r].recs, DayOf[memo[r].at]) \in Records
  BY <1>5 DEF Prefix, Records, Statuses
<1> HIDE DEF p
<1>12. NewForecast(r) =
         [goal |-> req[r].goal, ticket |-> p.id, origin |-> DayOf[memo[r].at],
          issued |-> memo[r].at, expires |-> p.expires, rev |-> req[r].rev, arev |-> req[r].arev,
          prefix |-> Prefix(memo[r].recs, DayOf[memo[r].at]), art |-> req[r].art]
  BY <1>6, <1>9 DEF NewForecast, p
<1>13. NewForecast(r) \in Forecasts
  BY <1>1, <1>2, <1>5, <1>7, <1>9, <1>10, <1>11, <1>12 DEF Forecasts
<1> QED
  BY <1>1, <1>6, <1>7, <1>12, <1>13 DEF p

LEMMA CaptureStoreKeeps ==
  ASSUME Inv, NEW r \in Reqs, CaptureStore(r)
  PROVE  Inv'
<1>1. CASE Refuse(r)
  BY <1>1, RefuseKeeps
<1>2. CASE ~Refuse(r)
  <2> DEFINE e0 == NewForecast(r)
  <2>0. TypeOK /\ Held(r) /\ req[r].kind = "store" /\ now \in Int /\ joins \in Int
    BY Typed DEF Inv, CaptureStore, Holds, Held
  <2>1. /\ Ready(r) /\ PartOf(req[r].user, req[r].goal)
        /\ forecasts' = Kept(req[r].goal, seen[r].at) \cup {e0}
        /\ Answer(r) /\ UNCHANGED <<goal, part, artifact, joins, spent>>
    BY <1>2 DEF CaptureStore, Storable
  <2>2. /\ e0 \in Forecasts /\ EpisodeCovered(e0)
    BY <2>0, <2>1, NewForecastFits DEF EpisodeCovered
  <2> HIDE DEF e0
  <2>3. forecasts' \subseteq forecasts \cup {e0}
    BY <2>1 DEF Kept
  <2>4. TypeOK'
    BY <2>0, <2>1, <2>2, <2>3, AnswerType DEF TypeOK
  <2>5. now' = now /\ now <= now' /\ joins <= joins' /\ OldPart
    BY <2>0, <2>1, SameIfEqual DEF OldPart, Answer
  <2>5a. \A h \in Goals : OwnerOf[h] # req[r].user => EpisodesKept(h)
    <3>1. OwnerOf[req[r].goal] = req[r].user
      BY <2>0, HeldFacts
    <3> QED
      BY <2>1, <3>1 DEF EpisodesKept, Kept
  <2>6. /\ Onward /\ RecsStand /\ ConsentStands /\ FitsStand /\ ArtifactsStand /\ OwnOnly(r)
        /\ spent' = spent
    BY <2>0, <2>1, <2>5, <2>5a, OldIsOnward, AnswerSlots
       DEF RecsStand, ConsentStands, ArtifactsStand, OwnOnly
  <2>7. SlotsOK' /\ OneHolder' /\ PartOK' /\ GenOK' /\ SpentOK'
    BY <2>0, <2>1, <2>4, <2>5, <2>6, AnswerKeeps, PartKept, GenKept, SpentKept
  <2>8. \A e \in forecasts' : EpisodeCovered(e)'
    BY <2>1, <2>2, <2>3 DEF EpisodeCovered, Inv, CoverOK
  <2>9. \A g \in Goals : FitCovered(g)'
    BY <2>0, <2>1, <2>4, <2>5, <2>6, Derived, SameIfEqual, FitStands
  <2> QED
    BY <2>4, <2>7, <2>8, <2>9 DEF Inv, CoverOK
<1> QED
  BY <1>1, <1>2

-----------------------------------------------------------------------------
(* Fits. *)

LEMMA LatestIn == \A S, n : Latest(S, n) \subseteq S
BY DEF Latest

(* The receipts a fit is made from. *)
LEMMA ReceiptsLearned ==
  ASSUME Inv, NEW r \in Reqs, Held(r)
  PROVE  LET R == {ReceiptOf(e, goal[req[r].goal], seen[r].at) :
                     e \in Latest(seen[r].forecasts, Episodes)} IN
         R \in SUBSET Receipts /\ Trained(R, goal[req[r].goal], now)
<1> DEFINE row == goal[req[r].goal]
           at == seen[r].at
           R == {ReceiptOf(e, row, at) : e \in Latest(seen[r].forecasts, Episodes)}
<1>1. /\ row \in Rows /\ row # Gone /\ seen[r] \in Views /\ at \in Instants /\ at <= now
      /\ ForecastsSeen(r) /\ now \in Instants
  BY HeldFacts, Typed DEF Inv
<1>2. \A e \in Latest(seen[r].forecasts, Episodes) : e \in Forecasts /\ e.expires > at
  <2>1. seen[r].forecasts \in SUBSET Forecasts
    BY <1>1 DEF Views
  <2>2. \A e \in Latest(seen[r].forecasts, Episodes) : e \in seen[r].forecasts
    BY LatestIn
  <2> QED
    BY <1>1, <2>1, <2>2 DEF ForecastsSeen
<1> HIDE DEF row, at
<1>3. \A e \in Latest(seen[r].forecasts, Episodes) :
        /\ ReceiptOf(e, row, at) \in Receipts
        /\ Mature(ReceiptOf(e, row, at), at) /\ Learned(ReceiptOf(e, row, at), row.recs)
  BY <1>1, <1>2, ReceiptLearned
<1>4. R \in SUBSET Receipts /\ Trained(R, row, at)
  BY <1>3 DEF Trained
<1> HIDE DEF R
<1>5. Trained(R, row, now)
  BY <1>1, <1>4, TrainedStands
<1> QED
  BY <1>4, <1>5 DEF R, row, at

(* The generation that is reserved is new. *)
LEMMA FitReserveKeeps ==
  ASSUME Inv, NEW r \in Reqs, FitReserve(r)
  PROVE  Inv'
<1>1. CASE Refuse(r)
  BY <1>1, RefuseKeeps
<1>2. CASE ~Refuse(r)
  <2> DEFINE u == req[r].user
             g == req[r].goal
             latest == Latest(seen[r].forecasts, Episodes)
             R == {ReceiptOf(e, goal[g], seen[r].at) : e \in latest}
             kept == [at |-> seen[r].at, recs |-> goal[g].recs, latest |-> latest, receipts |-> R]
  <2>0. TypeOK /\ Held(r) /\ req[r].kind = "fit" /\ now \in Int /\ joins \in Int
    BY Typed DEF Inv, FitReserve, Holds, Held
  <2>1. /\ Ready(r) /\ seen[r].part.gen = req[r].gen
        /\ part' = IF PartOf(u, g) THEN [part EXCEPT ![u].gen = part[u].gen + 1] ELSE part
        /\ Compute(r, "fitted", kept)
    <3>1. Ready(r) /\ seen[r].part.gen = req[r].gen
      BY <1>2 DEF FitReserve
    <3>2. part' = IF PartOf(u, g) THEN [part EXCEPT ![u].gen = part[u].gen + 1] ELSE part
      BY <1>2 DEF FitReserve
    <3>3. Compute(r, "fitted", kept)
      BY <1>2, Zenon DEF FitReserve
    <3> QED
      BY <3>1, <3>2, <3>3
  <2>2. /\ req[r] \in Requests /\ u \in Users /\ g \in Goals /\ goal[g] \in Rows
        /\ seen[r] \in Views /\ seen[r].at \in Instants /\ OwnerOf[g] = u
    BY <2>0, HeldFacts
  <2>3. R \in SUBSET Receipts /\ Trained(R, goal[g], now)
    BY <2>0, ReceiptsLearned
  <2>4. latest \in SUBSET Forecasts
    <3>1. seen[r].forecasts \in SUBSET Forecasts
      BY <2>2 DEF Views
    <3> QED
      BY <3>1, LatestIn
  <2> HIDE DEF R, latest
  <2>5. kept \in Memos /\ kept.at = seen[r].at /\ kept.receipts = R
    BY <2>2, <2>3, <2>4 DEF Memos, Rows
  <2> HIDE DEF kept
  <2>6. [req[r] EXCEPT !.kind = "fitted"] \in Requests /\ req[r].gen \in Nat
    BY <2>0, <2>2, RequestFields DEF Requests
  <2>7. /\ \A v \in Users : v # u => part'[v] = part[v]
        /\ part[u] = Nobody => part'[u] = Nobody
        /\ part[u] # Nobody =>
             /\ part[u] = seen[r].part /\ part[u].id = req[r].ticket /\ part[u].gen = req[r].gen
             /\ part'[u] \in Participations /\ part'[u].gen = part[u].gen + 1
             /\ Same(u)
        /\ part' \in [Users -> Participations \cup {Nobody}]
    <3>1. CASE part[u] = Nobody
      BY <2>0, <2>1, <2>2, <3>1 DEF PartOf, TypeOK
    <3>2. CASE part[u] # Nobody
      <4> DEFINE q == [part[u] EXCEPT !.gen = part[u].gen + 1]
      <4>1. part[u] = seen[r].part /\ part[u].id = req[r].ticket /\ part[u].goal = g
        BY <2>0, <2>1, <2>2, <3>2, ReadyFacts
      <4>2. part[u] \in Participations /\ part[u].gen \in Nat
        BY <2>0, <2>2, <3>2, Typed, PartFields
      <4>3. /\ q \in Participations /\ q.gen = part[u].gen + 1 /\ q.id = part[u].id
            /\ q.goal = part[u].goal /\ q.joined = part[u].joined /\ q.expires = part[u].expires
        BY <4>2 DEF Participations
      <4> HIDE DEF q
      <4>4. part' = [part EXCEPT ![u] = q]
        BY <2>1, <3>2, <4>1 DEF PartOf, q
      <4>5. /\ part'[u] = q /\ \A v \in Users : v # u => part'[v] = part[v]
            /\ part' \in [Users -> Participations \cup {Nobody}]
        BY <2>0, <2>2, <4>3, <4>4 DEF TypeOK
      <4>6. Same(u)
        BY <3>2, <4>2, <4>3, <4>5, NobodyAssumption DEF Same
      <4> QED
        BY <2>1, <3>2, <4>1, <4>3, <4>5, <4>6
    <3> QED
      BY <3>1, <3>2
  <2>8. TypeOK'
    BY <2>0, <2>1, <2>5, <2>6, <2>7 DEF Compute, TypeOK, bounds
  <2>9. \A v \in Users : IF part[v] = Nobody THEN part'[v] = Nobody ELSE Same(v)
    BY <2>0, <2>7, SameIfEqual
  <2>10. /\ SlotsOK' /\ OneHolder' /\ Onward /\ RecsStand /\ OldPart
         /\ PartOK' /\ SpentOK' /\ CoverOK'
    BY <2>0, <2>1, <2>3, <2>5, <2>7, <2>8, <2>9, ComputeKeeps
  <2>11. GenOK'
    <3>1. /\ req'[r].gen = req[r].gen /\ req'[r].ticket = req[r].ticket /\ artifact' = artifact
          /\ \A s \in Reqs \ {r} : pc'[s] = pc[s] /\ req'[s] = req[s]
      BY <2>0, <2>1, <2>6 DEF Compute, TypeOK, Requests
    <3> SUFFICES ASSUME NEW v \in Users, part'[v] # Nobody
                 PROVE  /\ \A s \in FitsOf(v)' : req'[s].gen < part'[v].gen
                        /\ \A s, t \in FitsOf(v)' : req'[s].gen = req'[t].gen => s = t
                        /\ \A s \in FitsOf(v)', h \in Goals :
                             artifact'[h] # None /\ artifact'[h].name.ticket = part'[v].id =>
                               artifact'[h].name.gen # req'[s].gen + 1
      BY DEF GenOK
    <3>2. part[v] # Nobody /\ Same(v)
      BY <2>9
    <3>3. \A s \in FitsOf(v)' \ {r} : s \in FitsOf(v) /\ req'[s] = req[s] /\ req[s].gen \in Nat
      <4> TAKE s \in FitsOf(v)' \ {r}
      <4>1. s \in Reqs /\ s \in FitsOf(v) /\ req'[s] = req[s]
        BY <3>1, <3>2 DEF FitsOf, Busy, Same
      <4>2. req[s] \in Requests /\ req[s].kind = "fitted"
        BY <4>1 DEF FitsOf, Busy, Inv, SlotsOK, SlotOK
      <4> QED
        BY <4>1, <4>2, RequestFields
    <3>4. part[v].gen \in Nat /\ part'[v].gen \in Nat /\ part[v].gen <= part'[v].gen
      BY <2>0, <2>8, <3>2, Typed, TypedNext, PartFields DEF Same
    <3>5. /\ \A s \in FitsOf(v) : req[s].gen < part[v].gen
          /\ \A s, t \in FitsOf(v) : req[s].gen = req[t].gen => s = t
          /\ \A s \in FitsOf(v), h \in Goals :
               artifact[h] # None /\ artifact[h].name.ticket = part[v].id =>
                 artifact[h].name.gen # req[s].gen + 1
      BY <3>2 DEF Inv, GenOK
    <3>6. CASE r \notin FitsOf(v)'
      <4>1. \A s \in FitsOf(v)' : req'[s].gen < part'[v].gen
        BY <3>3, <3>4, <3>5, <3>6
      <4> QED
        BY <3>1, <3>2, <3>3, <3>5, <3>6, <4>1 DEF Same
    <3>7. CASE r \in FitsOf(v)'
      <4>1. part[v].id = req[r].ticket
        BY <3>1, <3>2, <3>7 DEF FitsOf, Same
      <4>2. v = u /\ part[u] # Nobody
        BY <2>0, <2>1, <3>2, <4>1, ReadyFacts
      <4>3. /\ part[v].gen = req[r].gen /\ part'[v].gen = req[r].gen + 1 /\ req'[r].gen = req[r].gen
            /\ part'[v].id = part[v].id
        BY <2>7, <3>1, <3>2, <4>2 DEF Same
      <4>4. \A s \in FitsOf(v)' \ {r} : req'[s].gen \in Nat /\ req'[s].gen < req'[r].gen
        BY <3>3, <3>5, <4>3
      <4>5. \A s \in FitsOf(v)' : req'[s].gen < part'[v].gen
        BY <2>6, <4>3, <4>4
      <4>6. \A s, t \in FitsOf(v)' : req'[s].gen = req'[t].gen => s = t
        <5> TAKE s, t \in FitsOf(v)'
        <5>1. CASE s # r /\ t # r
          BY <3>3, <3>5, <5>1
        <5>2. CASE s = r \/ t = r
          BY <2>6, <4>3, <4>4, <5>2
        <5> QED
          BY <5>1, <5>2
      <4>7. \A h \in Goals : artifact[h] # None /\ artifact[h].name.ticket = part[v].id =>
              artifact[h].name.gen # req[r].gen + 1
        <5> TAKE h \in Goals
        <5> HAVE artifact[h] # None /\ artifact[h].name.ticket = part[v].id
        <5>1. /\ OwnerOf[h] \in Users /\ part[OwnerOf[h]] # Nobody
              /\ part[OwnerOf[h]].id = artifact[h].name.ticket
              /\ artifact[h].name.gen <= part[OwnerOf[h]].gen
          BY Derived DEF Inv, CoverOK, FitCovered
        <5>2. OwnerOf[h] = v
          BY <3>2, <5>1 DEF Inv, PartOK
        <5>3. artifact[h].name.gen \in Nat
          <6>1. artifact[h] \in Artifacts
            BY <2>0, Typed
          <6> QED
            BY <6>1 DEF Artifacts, Names
        <5> QED
          BY <2>6, <4>3, <5>1, <5>2, <5>3
      <4>8. \A s \in FitsOf(v)', h \in Goals :
              artifact'[h] # None /\ artifact'[h].name.ticket = part'[v].id =>
                artifact'[h].name.gen # req'[s].gen + 1
        BY <3>1, <3>3, <3>5, <4>3, <4>7
      <4> QED
        BY <4>5, <4>6, <4>8
    <3> QED
      BY <3>6, <3>7
  <2> QED
    BY <2>8, <2>10, <2>11 DEF Inv
<1> QED
  BY <1>1, <1>2

LEMMA FitStoreKeeps ==
  ASSUME Inv, NEW r \in Reqs, FitStore(r)
  PROVE  Inv'
<1>1. CASE Refuse(r)
  BY <1>1, RefuseKeeps
<1>2. CASE ~Refuse(r)
  <2> DEFINE u == req[r].user
             g == req[r].goal
             a0 == NewArtifact(r)
             p == part[u]
  <2>0. TypeOK /\ Held(r) /\ req[r].kind = "fitted" /\ now \in Int /\ joins \in Int
    BY Typed DEF Inv, FitStore, Holds, Held
  <2>1. /\ Ready(r) /\ LatestGeneration(r) /\ SameTraining(r) /\ PartOf(u, g)
        /\ artifact' = [artifact EXCEPT ![g] = a0]
        /\ Answer(r) /\ UNCHANGED <<goal, part, forecasts, joins, spent>>
    BY <1>2 DEF FitStore
  <2>2. /\ req[r] \in Requests /\ u \in Users /\ g \in Goals /\ OwnerOf[g] = u
        /\ seen[r].at \in Int /\ seen[r].at <= now /\ MemoOK(r) /\ ForecastsSeen(r)
    BY <2>0, HeldFacts
  <2>3. req[r].gen \in Nat /\ req[r].rev \in Nat /\ req[r].arev \in Nat
    BY <2>0, <2>2, RequestFields
  <2>4. Busy(r, {"fitted"}) /\ Busy(r, {"store", "fitted"})
    BY <2>0 DEF Busy, Held
  <2>5. /\ memo[r] \in Memos /\ memo[r].at <= seen[r].at
        /\ \A v \in Users : part[v] # Nobody /\ part[v].id = req[r].ticket =>
             part[v].joined <= memo[r].at
        /\ Trained(memo[r].receipts, goal[g], now)
    BY <2>0, <2>2, <2>4 DEF MemoOK
  <2>6. memo[r].at \in Instants /\ memo[r].at \in Nat /\ memo[r].receipts \in SUBSET Receipts
    BY <2>5, InstantType DEF Memos
  <2>7. /\ p = seen[r].part /\ p # Nobody /\ p.id = req[r].ticket /\ p.goal = g
        /\ Live(p, seen[r].at) /\ p \in Participations
    BY <2>0, <2>1, <2>2, ReadyFacts DEF PartOf
  <2>8. /\ p.id \in Tickets /\ p.joined \in Int /\ p.expires \in Nat /\ p.joined <= memo[r].at
        /\ p.gen = req[r].gen + 1
    BY <2>1, <2>2, <2>5, <2>7, PartFields DEF LatestGeneration, Generation
  <2>9. p.expires > memo[r].at
    <3>1. p.expires > seen[r].at
      BY <2>7 DEF Live
    <3> QED
      BY <2>2, <2>5, <2>6, <2>8, <3>1
  <2>10. Earliest({p.expires} \cup {e.expires : e \in memo[r].latest}) = p.expires
    <3>1. memo[r].latest \subseteq seen[r].forecasts
      BY <2>1, LatestIn DEF SameTraining
    <3>2. \A e \in memo[r].latest : e.expires = p.expires
      BY <2>2, <2>7, <3>1 DEF ForecastsSeen
    <3>3. {p.expires} \cup {e.expires : e \in memo[r].latest} = {p.expires}
      BY <3>2
    <3> QED
      BY <2>8, <3>3 DEF Earliest
  <2>11. DayOf[memo[r].at] \in Days /\ FitOf(r) \in {"COMPUTED", "IDENTITY"}
    BY <2>6, MilestoneAssumption DEF FitOf
  <2> HIDE DEF p
  <2>12. a0 = [goal |-> g, name |-> [ticket |-> p.id, gen |-> req[r].gen + 1],
               created |-> memo[r].at, expires |-> p.expires, rev |-> req[r].rev,
               arev |-> req[r].arev, cutoff |-> DayOf[memo[r].at], fit |-> FitOf(r),
               receipts |-> memo[r].receipts]
    BY <2>7, <2>10 DEF NewArtifact, Generation
  <2> HIDE DEF a0
  <2>13. [ticket |-> p.id, gen |-> req[r].gen + 1] \in Names
    BY <2>3, <2>8 DEF Names
  <2>14. a0 \in Artifacts
    BY <2>2, <2>3, <2>6, <2>8, <2>9, <2>11, <2>12, <2>13 DEF Artifacts
  <2>15. artifact' \in [Goals -> Artifacts \cup {None}] /\ artifact'[g] = a0
         /\ \A h \in Goals : h # g => artifact'[h] = artifact[h]
    BY <2>0, <2>1, <2>2, <2>14 DEF TypeOK
  <2>16. TypeOK'
    BY <2>0, <2>1, <2>15, AnswerType DEF TypeOK
  <2>17. now' = now /\ now <= now' /\ joins <= joins' /\ OldPart
    BY <2>0, <2>1, SameIfEqual DEF OldPart, Answer
  <2>18. \A h \in Goals : OwnerOf[h] # u => artifact'[h] = artifact[h] /\ EpisodesKept(h)
    BY <2>1, <2>2, <2>15 DEF EpisodesKept
  <2>19. /\ Onward /\ RecsStand /\ ConsentStands /\ FitsStand /\ OwnOnly(r) /\ spent' = spent
         /\ ForecastsStand
    BY <2>0, <2>1, <2>17, <2>18, OldIsOnward, AnswerSlots, Derived, SameIfEqual
       DEF RecsStand, ConsentStands, OwnOnly, ForecastsStand
  <2>20. SlotsOK' /\ OneHolder' /\ PartOK' /\ SpentOK'
    BY <2>0, <2>1, <2>16, <2>17, <2>19, AnswerKeeps, PartKept, SpentKept
  <2>21. \A e \in forecasts' : EpisodeCovered(e)'
    BY <2>19, EpisodeStands DEF Inv, ForecastsStand
  <2>22. \A h \in Goals : FitCovered(h)'
    <3> TAKE h \in Goals
    <3>1. CASE h # g
      BY <2>0, <2>1, <2>15, <2>16, <2>17, <2>19, <3>1, Derived, SameIfEqual, FitStands
    <3>2. CASE h = g
      <4>1. part'[OwnerOf[h]] = p /\ artifact'[h] = a0 /\ goal' = goal
        BY <2>1, <2>2, <2>15, <3>2 DEF p
      <4>2. /\ p # Nobody /\ p.goal = h /\ p.id = a0.name.ticket
            /\ p.joined <= a0.created /\ p.expires = a0.expires /\ a0.name.gen <= p.gen
            /\ a0.receipts = memo[r].receipts
        BY <2>3, <2>7, <2>8, <2>12, <3>2
      <4> QED
        BY <2>5, <2>17, <3>2, <4>1, <4>2 DEF FitCovered
    <3> QED
      BY <3>1, <3>2
  <2>23. GenOK'
    <3> SUFFICES ASSUME NEW v \in Users, part'[v] # Nobody
                 PROVE  /\ \A s \in FitsOf(v)' : req'[s].gen < part'[v].gen
                        /\ \A s, t \in FitsOf(v)' : req'[s].gen = req'[t].gen => s = t
                        /\ \A s \in FitsOf(v)', h \in Goals :
                             artifact'[h] # None /\ artifact'[h].name.ticket = part'[v].id =>
                               artifact'[h].name.gen # req'[s].gen + 1
      BY DEF GenOK
    <3>1. part' = part /\ pc'[r] = "idle"
      BY <2>0, <2>1, AnswerSlots
    <3>2. \A s \in FitsOf(v)' : s \in FitsOf(v) /\ s # r /\ req'[s] = req[s]
      BY <2>19, <3>1 DEF FitsOf, FitsStand, Busy
    <3>3. /\ \A s \in FitsOf(v) : req[s].gen < part[v].gen
          /\ \A s, t \in FitsOf(v) : req[s].gen = req[t].gen => s = t
          /\ \A s \in FitsOf(v), h \in Goals :
               artifact[h] # None /\ artifact[h].name.ticket = part[v].id =>
                 artifact[h].name.gen # req[s].gen + 1
      BY <3>1 DEF Inv, GenOK
    <3>4. ASSUME NEW s \in FitsOf(v)', a0.name.ticket = part[v].id
          PROVE  a0.name.gen # req[s].gen + 1
      <4>1. v = u /\ part[v].id = req[r].ticket
        BY <2>2, <2>7, <2>12, <3>1, <3>4 DEF Inv, PartOK, p
      <4>2. r \in FitsOf(v)
        BY <2>4, <4>1 DEF FitsOf
      <4>3. req[s].gen # req[r].gen
        BY <3>2, <3>3, <3>4, <4>2
      <4>4. req[s].gen \in Nat
        <5>1. req[s] \in Requests /\ req[s].kind = "fitted"
          BY <3>2, <3>4 DEF FitsOf, Busy, Inv, SlotsOK, SlotOK
        <5> QED
          BY <5>1, RequestFields
      <4> QED
        BY <2>3, <2>12, <4>3, <4>4
    <3>5. \A s \in FitsOf(v)', h \in Goals :
            artifact'[h] # None /\ artifact'[h].name.ticket = part'[v].id =>
              artifact'[h].name.gen # req'[s].gen + 1
      <4> TAKE s \in FitsOf(v)', h \in Goals
      <4>1. CASE h = g
        BY <2>15, <3>1, <3>2, <3>4, <4>1
      <4>2. CASE h # g
        BY <2>15, <3>1, <3>2, <3>3, <4>2
      <4> QED
        BY <4>1, <4>2
    <3> QED
      BY <3>1, <3>2, <3>3, <3>5
  <2> QED
    BY <2>16, <2>20, <2>21, <2>22, <2>23 DEF Inv, CoverOK
<1> QED
  BY <1>1, <1>2

-----------------------------------------------------------------------------
(* The invariant. *)

LEMMA InitHolds ==
  ASSUME Init
  PROVE  Inv
<1>1. NoRecords \in Records
  BY DEF NoRecords, Records, Statuses
<1> DEFINE row == [rev |-> 0, arev |-> 0, consent |-> 0, recs |-> NoRecords]
<1>2. row \in Rows
  BY <1>1 DEF Rows
<1> HIDE DEF row
<1>3. goal = [g \in Goals |-> row]
  BY DEF Init, row
<1>4. TypeOK
  BY <1>2, <1>3, MilestoneAssumption DEF Init, TypeOK, Instants
<1>5. \A s \in Reqs : pc[s] = "idle"
  BY DEF Init
<1>6. SlotsOK /\ OneHolder
  BY <1>5 DEF SlotsOK, SlotOK, SeenOK, MemoOK, OneHolder, Held, Busy
<1>7. PartOK /\ GenOK /\ SpentOK
  BY DEF Init, PartOK, GenOK, SpentOK, RevisionsAreSpentOnce
<1>8. CoverOK
  BY DEF Init, CoverOK, FitCovered
<1> QED
  BY <1>4, <1>6, <1>7, <1>8 DEF Inv

LEMMA StepKeeps ==
  ASSUME Inv, [Next]_vars
  PROVE  Inv'
<1>1. CASE Tick \/ Purge
  BY <1>1, TickKeeps, PurgeKeeps
<1>2. ASSUME NEW g \in Goals, Record(g) \/ Edit(g) \/ Delete(g)
      PROVE  Inv'
  BY <1>2, RecordKeeps, EditKeeps, DeleteKeeps
<1>3. ASSUME NEW r \in Reqs, Join(r) \/ Withdraw(r) \/ Capture(r) \/ Fit(r) \/ Abort(r)
      PROVE  Inv'
  BY <1>3, EnterKeeps, RefuseKeeps DEF Abort
<1>4. ASSUME NEW r \in Reqs, Work(r)
      PROVE  Inv'
  BY <1>4, RefuseKeeps, ReenterKeeps, JoinKeeps, WithdrawKeeps, CapturePrepareKeeps, CaptureStoreKeeps,
     FitReserveKeeps, FitStoreKeeps DEF Work
<1>5. CASE UNCHANGED vars
  <2>1. TypeOK'
    BY <1>5 DEF Inv, TypeOK, vars
  <2>2. Quiet /\ FitsStand
    BY <1>5, Typed DEF Inv, Quiet, FitsStand, Busy, vars
  <2>3. \A s \in Reqs : Still(s)
    BY <1>5, <2>2, QuietStill DEF vars
  <2>4. Onward /\ RecsStand /\ PartOK' /\ GenOK' /\ SpentOK' /\ CoverOK'
    BY <2>1, <2>2, QuietKeeps
  <2>5. SlotsOK' /\ OneHolder'
    BY <2>1, <2>3, <2>4, StillAll
  <2> QED
    BY <2>1, <2>4, <2>5 DEF Inv
<1> QED
  BY <1>1, <1>2, <1>3, <1>4, <1>5 DEF Next

LEMMA InvHolds == Spec => []Inv
<1>1. Init => Inv
  BY InitHolds
<1>2. Inv /\ [Next]_vars => Inv'
  BY StepKeeps
<1> QED
  BY <1>1, <1>2, PTL DEF Spec

(* Every state has the types of the tables, and a purge or an answer never  *)
(* leaves a row that the schema would refuse.                               *)
THEOREM MilestoneTypes == Spec => []TypeOK
<1>1. Inv => TypeOK
  BY DEF Inv
<1> QED
  BY <1>1, InvHolds, PTL

(* What is derived from the records hangs on the consent it was made under, *)
(* and a revision of consent is used once: for any number of accounts,      *)
(* goals and requests, whatever runs out, is purged or is sent again.       *)
THEOREM DerivedHangsOnConsent == Spec => []DerivedOnlyByConsent
<1>1. Inv => DerivedOnlyByConsent
  <2> SUFFICES ASSUME Inv PROVE ConsentCoversDerived /\ RevisionsAreSpentOnce
    BY DEF DerivedOnlyByConsent
  <2>1. RevisionsAreSpentOnce
    BY DEF Inv, SpentOK
  <2>2. \A u \in Users : part[u] # Nobody => part[u].expires \in Int
    BY Typed, PartFields DEF Inv
  <2>3. \A e \in forecasts : OwnerOf[e.goal] \in Users
    BY Derived
  <2>4. \A g \in Goals : OwnerOf[g] \in Users
    BY MilestoneAssumption
  <2> QED
    BY <2>1, <2>2, <2>3, <2>4 DEF ConsentCoversDerived, Inv, CoverOK, EpisodeCovered, FitCovered
<1> QED
  BY <1>1, InvHolds, PTL

(* A coefficient was learned from days that nothing can change any more:    *)
(* its receipts can be assessed again and say the same as long as their     *)
(* sources stand, for any calendar and any length of an observation.        *)
THEOREM CoefficientsStaySound == Spec => []TrainingIsSound
<1>1. Inv => TrainingIsSound
  <2> SUFFICES ASSUME Inv, NEW g \in Goals, artifact[g] # None
               PROVE  CutoffsHaveMatured(g) /\ (goal[g] # Gone => TrainingStands(g))
    BY DEF TrainingIsSound
  <2>1. Trained(artifact[g].receipts, goal[g], now)
    BY DEF Inv, CoverOK, FitCovered
  <2>2. artifact[g].receipts \in SUBSET Receipts
    BY Typed DEF Inv, Artifacts
  <2>3. CutoffsHaveMatured(g)
    BY <2>1 DEF CutoffsHaveMatured, Trained, Mature
  <2>4. ASSUME goal[g] # Gone,
               NEW c \in artifact[g].receipts,
               c.from \in forecasts, Visible(c.from, now), SameContext(c.from, goal[g]),
               Prefix(goal[g].recs, c.from.origin) = c.from.prefix,
               c.label.state # "INVALID"
        PROVE  Assess(c.from, goal[g], now, c.through) = c.label
    <3>1. Learned(c, goal[g].recs)
      BY <2>1, <2>4 DEF Trained
    <3>2. ~(c.from.expires <= now)
      <4>1. c.from.expires \in Nat /\ now \in Int
        BY <2>4, Typed DEF Inv, TypeOK, Forecasts
      <4> QED
        BY <2>4, <4>1 DEF Visible
    <3> QED
      BY <2>4, <3>1, <3>2 DEF Assess, Learned
  <2>5. goal[g] # Gone => TrainingStands(g)
    BY <2>4 DEF TrainingStands, ReceiptsMatch
  <2> QED
    BY <2>3, <2>5
<1> QED
  BY <1>1, InvHolds, PTL

(* The prefix of records that can be captured can be captured. *)
LEMMA PrefixCapturable ==
  ASSUME NEW recs \in Records, NEW d \in Days, Capturable(recs, d)
  PROVE  Capturable(Prefix(recs, d), d)
<1> DEFINE S == {n \in Days : recs[n] = "DONE"}
           T == {n \in Days : Prefix(recs, d)[n] = "DONE"}
<1>1. d \in Int /\ LastDay \in Nat
  BY MilestoneAssumption DEF Days
<1>2. Prefix(recs, d)[d] = recs[d]
  BY <1>1 DEF Prefix
<1>3. T \in SUBSET S /\ S \in SUBSET Days
  BY DEF Prefix
<1>4. IsFiniteSet(Days)
  BY <1>1, FS_Interval DEF Days
<1> HIDE DEF S, T
<1>5. IsFiniteSet(S) /\ IsFiniteSet(T) /\ Cardinality(T) <= Cardinality(S)
  BY <1>3, <1>4, FS_Subset
<1>6. Cardinality(S) \in Nat /\ Cardinality(T) \in Nat /\ Required \in Int /\ Step \in Int
  BY <1>5, FS_CardinalityType, MilestoneAssumption
<1>7. Required - Cardinality(S) >= Step
  BY DEF Capturable, Done, S
<1>8. Required - Cardinality(T) >= Step
  BY <1>5, <1>6, <1>7
<1> QED
  BY <1>2, <1>8 DEF Capturable, Done, T

(* Rows of the derived tables are only taken away. *)
Sheds ==
  /\ forecasts' \subseteq forecasts
  /\ \A g \in Goals : artifact'[g] # None => artifact'[g] = artifact[g]

(* Only two steps write a derived row. *)
LEMMA StepSheds ==
  ASSUME Inv, [Next]_vars
  PROVE  \/ Sheds
         \/ \E r \in Reqs : CaptureStore(r) /\ ~Refuse(r) /\ artifact' = artifact
         \/ \E r \in Reqs : FitStore(r) /\ ~Refuse(r) /\ forecasts' = forecasts
<1>1. CASE Tick \/ UNCHANGED vars
  BY <1>1 DEF Tick, vars, derived, Sheds
<1>2. CASE Purge
  BY <1>2 DEF Purge, Sheds
<1>3. ASSUME NEW g \in Goals, Record(g) \/ Edit(g) \/ Delete(g)
      PROVE  Sheds
  BY <1>3 DEF Record, Edit, Change, Delete, DropDerived, derived, Sheds
<1>4. ASSUME NEW r \in Reqs, Refuse(r)
      PROVE  Sheds
  BY <1>4 DEF Refuse, derived, Sheds
<1>5. ASSUME NEW r \in Reqs, NEW u, NEW g, Read(r, u, g)
      PROVE  Sheds
  BY <1>5 DEF Read, derived, Sheds
<1>6. ASSUME NEW r \in Reqs, Join(r) \/ Withdraw(r) \/ Capture(r) \/ Fit(r) \/ Reenter(r) \/ Abort(r)
      PROVE  Sheds
  BY <1>4, <1>5, <1>6 DEF Join, Withdraw, Capture, Fit, Enter, Reenter, Abort
<1>7. ASSUME NEW r \in Reqs, JoinCommit(r) \/ WithdrawCommit(r)
      PROVE  Sheds
  BY <1>4, <1>7 DEF JoinCommit, WithdrawCommit, DropDerived, derived, Sheds
<1>8. ASSUME NEW r \in Reqs, CapturePrepare(r) \/ FitReserve(r)
      PROVE  Sheds
  BY <1>4, <1>8 DEF CapturePrepare, FitReserve, Compute, Sheds
<1>9. ASSUME NEW r \in Reqs, CaptureStore(r), ~Refuse(r)
      PROVE  artifact' = artifact
  BY <1>9 DEF CaptureStore
<1>10. ASSUME NEW r \in Reqs, FitStore(r), ~Refuse(r)
       PROVE  forecasts' = forecasts
  BY <1>10 DEF FitStore
<1> QED
  BY <1>1, <1>2, <1>3, <1>4, <1>6, <1>7, <1>8, <1>9, <1>10 DEF Next, Work

LEMMA NewEpisode ==
  ASSUME Inv, [Next]_vars, NEW e \in forecasts' \ forecasts
  PROVE  \E r \in Reqs : CaptureStore(r) /\ ~Refuse(r)
BY StepSheds DEF Sheds

LEMMA NewFit ==
  ASSUME Inv, [Next]_vars, NEW g \in Goals, artifact'[g] # None, artifact'[g] # artifact[g]
  PROVE  \E r \in Reqs : FitStore(r) /\ ~Refuse(r)
BY StepSheds DEF Sheds

(* An episode that is stored describes the goal as it is at that moment,    *)
(* and compares with the newest coefficient there is, every source of which *)
(* is there and says what it said.                                          *)
THEOREM EpisodesStandWhenStored == Spec => EpisodesDescribeTheGoal
<1> DEFINE Fits(e) ==
      LET row == goal[e.goal]  a == artifact[e.goal] IN
      /\ row # Gone /\ SameContext(e, row)
      /\ e.prefix = Prefix(row.recs, e.origin) /\ Capturable(e.prefix, e.origin)
      /\ e.art # None =>
           /\ a # None /\ a.name = e.art
           /\ a.name.gen = part[OwnerOf[e.goal]].gen
           /\ SameContext(a, row)
           /\ \E at \in e.issued .. now : ReceiptsMatch(a.receipts, forecasts, row, at)
<1>1. ASSUME Inv, [Next]_vars, NEW e \in forecasts' \ forecasts
      PROVE  Fits(e)
  <2>1. PICK r \in Reqs : CaptureStore(r) /\ ~Refuse(r)
    BY <1>1, NewEpisode
  <2>2. /\ Held(r) /\ req[r].kind = "store" /\ Ready(r) /\ SameInput(r)
        /\ req[r].art = None \/ CandidateIs(r)
        /\ PartOf(req[r].user, req[r].goal)
        /\ forecasts' = Kept(req[r].goal, seen[r].at) \cup {NewForecast(r)}
    BY <2>1 DEF CaptureStore, Storable, Holds, Held
  <2>3. e = NewForecast(r)
    BY <1>1, <2>2 DEF Kept
  <2>4. /\ e.goal = req[r].goal /\ OwnerOf[e.goal] = req[r].user
        /\ e.origin = DayOf[memo[r].at] /\ e.rev = req[r].rev /\ e.arev = req[r].arev
        /\ e.prefix = Prefix(memo[r].recs, e.origin) /\ e.art = req[r].art
        /\ part[req[r].user] # Nobody /\ part[req[r].user] = seen[r].part
    BY <1>1, <2>2, <2>3, NewForecastFits
  <2>5. /\ goal[req[r].goal] # Gone /\ goal[req[r].goal] \in Rows /\ MemoOK(r)
        /\ SameContext(req[r], goal[req[r].goal]) /\ artifact[req[r].goal] = seen[r].art
    BY <1>1, <2>2, <2>4, HeldFacts, ReadyFacts
  <2>6. goal[req[r].goal].recs = memo[r].recs
    BY <2>2 DEF SameInput
  <2>7. memo[r].recs \in Records /\ Capturable(memo[r].recs, DayOf[memo[r].at])
        /\ memo[r].at \in Instants
    BY <2>2, <2>5 DEF MemoOK, Busy, Held, Memos
  <2>8. Capturable(e.prefix, e.origin)
    BY <2>4, <2>7, PrefixCapturable, MilestoneAssumption
  <2>9. e.art # None =>
          /\ seen[r].art # None /\ seen[r].art.name = e.art
          /\ seen[r].art.name.gen = part[req[r].user].gen
          /\ SameContext(seen[r].art, goal[req[r].goal])
          /\ ReceiptsMatch(seen[r].art.receipts, seen[r].forecasts, goal[req[r].goal], seen[r].at)
    BY <2>2, <2>4 DEF CandidateIs, Candidate
  <2>10. SameContext(e, goal[req[r].goal])
    BY <2>4, <2>5 DEF SameContext
  <2>11. seen[r].at \in e.issued .. now
    <3>1. seen[r].at \in Int /\ seen[r].at <= now /\ now \in Int /\ memo[r].at \in Int
      BY <1>1, <2>2, <2>7, HeldFacts, Typed, InstantType DEF Inv
    <3>2. memo[r].at <= seen[r].at
      BY <2>2, <2>5 DEF MemoOK, Busy, Held
    <3>3. e.issued = memo[r].at
      BY <2>3 DEF NewForecast
    <3> QED
      BY <3>1, <3>2, <3>3
  <2>12. seen[r].forecasts \subseteq forecasts
    BY <1>1, <2>2, <2>4, HeldFacts DEF ForecastsSeen
  <2>13. e.art # None =>
           \E at \in e.issued .. now :
             ReceiptsMatch(seen[r].art.receipts, forecasts, goal[req[r].goal], at)
    BY <2>9, <2>11, <2>12 DEF ReceiptsMatch
  <2> QED
    BY <2>4, <2>5, <2>6, <2>8, <2>9, <2>10, <2>13
<1>2. Inv /\ [Next]_vars => [\A e \in forecasts' \ forecasts : Fits(e)]_vars
  BY <1>1
<1> QED
  BY <1>2, InvHolds, PTL DEF EpisodesDescribeTheGoal, Spec

(* A fit that is answered late never replaces a newer one.                  *)
THEOREM NewerFitsStay == Spec => FitsNeverGoBack
<1>1. ASSUME Inv, [Next]_vars, NEW g \in Goals,
             artifact[g] # None, artifact'[g] # None, artifact'[g] # artifact[g]
      PROVE  \/ artifact'[g].name.ticket # artifact[g].name.ticket
             \/ artifact'[g].name.gen > artifact[g].name.gen
  <2>1. PICK r \in Reqs : FitStore(r) /\ ~Refuse(r)
    BY <1>1, NewFit
  <2>2. /\ Held(r) /\ req[r].kind = "fitted" /\ Ready(r) /\ LatestGeneration(r)
        /\ PartOf(req[r].user, req[r].goal)
        /\ artifact' = [artifact EXCEPT ![req[r].goal] = NewArtifact(r)]
    BY <2>1 DEF FitStore, Holds, Held
  <2>3. g = req[r].goal /\ artifact'[g] = NewArtifact(r)
    BY <1>1, <2>2 DEF Inv, TypeOK
  <2> DEFINE p == part[req[r].user]
             a == artifact[g]
  <2>4. /\ req[r] \in Requests /\ OwnerOf[g] = req[r].user /\ req[r].user \in Users
    BY <1>1, <2>2, <2>3, HeldFacts
  <2>5. p = seen[r].part /\ p # Nobody /\ p.id = req[r].ticket
    BY <1>1, <2>2, <2>4, ReadyFacts DEF PartOf
  <2>6. p.id = a.name.ticket /\ a.name.gen <= p.gen
    BY <1>1, <2>4 DEF Inv, CoverOK, FitCovered
  <2>7. a.name.gen \in Nat /\ req[r].gen \in Nat
    <3>1. a \in Artifacts
      BY <1>1, Typed DEF Inv
    <3> QED
      BY <2>2, <2>4, <3>1, RequestFields DEF Artifacts, Names
  <2>8. p.gen = req[r].gen + 1
    BY <2>2, <2>5 DEF LatestGeneration, Generation
  <2>9. artifact'[g].name.gen = req[r].gen + 1
    BY <2>3 DEF NewArtifact, Generation
  <2>10. a.name.gen # req[r].gen + 1
    <3>1. r \in FitsOf(req[r].user)
      BY <2>2, <2>5 DEF FitsOf, Busy, Held
    <3> QED
      BY <1>1, <2>4, <2>5, <2>6, <3>1 DEF Inv, GenOK
  <2> QED
    BY <2>6, <2>7, <2>8, <2>9, <2>10
<1>2. Inv /\ [Next]_vars =>
        [\A g \in Goals :
           artifact[g] # None /\ artifact'[g] # None /\ artifact'[g] # artifact[g] =>
             \/ artifact'[g].name.ticket # artifact[g].name.ticket
             \/ artifact'[g].name.gen > artifact[g].name.gen]_vars
  BY <1>1
<1> QED
  BY <1>2, InvHolds, PTL DEF FitsNeverGoBack, Spec
=============================================================================
