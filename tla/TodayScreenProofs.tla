-------------------------- MODULE TodayScreenProofs -------------------------
(***************************************************************************)
(* Proofs about TodayScreen for any accounts and any number of midnights,  *)
(* edits and upsets.                                                       *)
(*                                                                         *)
(* Whatever may bring somebody else to the tab changes the generation of   *)
(* continuity, and with it the key of the screen: nothing that was typed   *)
(* or pressed crosses (SessionStep).  A revision stands for one unit       *)
(* wherever the tab has met it (MetOK), so that a save under the server's  *)
(* revision is in the server's unit.                                       *)
(***************************************************************************)
EXTENDS TodayScreen, TLAPS

Caches == [Queries -> [data : Goals \union {None}, failed : {"no", "error", "denied"},
                       by : {Owner, Nobody, None}]]

Puts == [op : Operations, by : Owners, sitting : Nat, live : BOOLEAN, unit : Units \union {None},
         pc : {"sent", "signedout", "failed", "settings", "date", "saved", "refreshing"}]

SessionTyped ==
  /\ cookie \in Owners
  /\ atom \in [owner : Owners, busy : BOOLEAN, error : BOOLEAN]
  /\ continuity \in [owner : Owners \union {Unknown}, gen : Nat]

(* Who has been typing is who the atom names: continuity follows at once.  *)
SessionOK ==
  SessionTyped /\ continuity.owner = IF atom.owner = Nobody /\ atom.busy THEN Unknown ELSE atom.owner

(* Settings that the tab or the server has, or that a save was made under. *)
IsRow(g, n, u) == g # None /\ g.rev = n /\ g.unit = u

IsMade(op, n, u) == op # None /\ op.rev = n /\ op.meant = u

Meets(n, u) ==
  \/ IsRow(server, n, u)
  \/ \E q \in Queries : IsRow(query[q].data, n, u)
  \/ screen # None /\ \/ \E g \in {screen.goal, screen.shown, screen.latest, screen.typed} : IsRow(g, n, u)
                      \/ IsMade(screen.op, n, u)
  \/ \E p \in puts : IsMade(p.op, n, u)

(* A revision stands for one unit, and the server's is the newest. *)
MetOK ==
  \A n \in Nat, u, v \in Units : Meets(n, u) => n <= server.rev /\ (Meets(n, v) => u = v)

CacheOK(qs) ==
  /\ qs \in Caches
  /\ \A q \in Queries, n \in Nat, u \in Units : IsRow(qs[q].data, n, u) => Meets(n, u)

(* What a screen holds was typed and pressed in this sitting.              *)
ScreenOK(s, gen, now) ==
  /\ s \in Screens /\ s.gen = gen
  /\ s.typed # None => s.typed.sitting = now
  /\ s.op # None => s.op.sitting = now /\ s.op.unit = s.op.meant
  /\ s.saver # "free" => s.op # None
  /\ \A n \in Nat, u \in Units :
       /\ \A g \in {s.goal, s.shown, s.latest, s.typed} : IsRow(g, n, u) => Meets(n, u)
       /\ IsMade(s.op, n, u) => Meets(n, u)

(* A save: of who has pressed it, in the unit that was meant.  The screen   *)
(* hears of the one it waits for.                                          *)
PutOK(p, s) ==
  /\ p \in Puts /\ p.sitting = p.op.sitting
  /\ p.live => s # None /\ s.saver = "sent" /\ s.op = p.op
  /\ p.pc \in {"saved", "refreshing"} => p.unit = p.op.meant
  /\ \A n \in Nat, u \in Units : IsMade(p.op, n, u) => Meets(n, u)

PutsOK(ps, s) ==
  /\ \A p \in ps : PutOK(p, s)
  /\ \A p, q \in ps : p.op.date = q.op.date => p = q

Inv ==
  /\ SessionOK /\ server \in Goals /\ sitting \in Nat
  /\ CacheOK(query)
  /\ screen # None => ScreenOK(screen, continuity.gen, sitting)
  /\ PutsOK(puts, screen)
  /\ MetOK

-----------------------------------------------------------------------------
(* The session. *)

LEMMA AtomStep ==
  ASSUME SessionOK, NEW next \in [owner : Owners, busy : BOOLEAN, error : BOOLEAN],
         AtomBecomes(next)
  PROVE  /\ continuity' \in [owner : Owners \union {Unknown}, gen : Nat]
         /\ continuity'.owner = IF next.owner = Nobody /\ next.busy THEN Unknown ELSE next.owner
         /\ continuity' = continuity \/ continuity'.gen # continuity.gen
         /\ ~next.busy /\ (next.owner # atom.owner \/ (next.error /\ ~atom.error)) =>
              continuity'.gen # continuity.gen
BY TodayAssumption DEF AtomBecomes, Observe, Invalidate, SessionOK, SessionTyped

(* News of somebody else changes the generation. *)
LEMMA SessionStep ==
  ASSUME SessionOK, SessionNext
  PROVE  SessionOK' /\ (News => continuity'.gen # continuity.gen)
<1> USE DEF SessionOK, SessionTyped
<1> DEFINE Atoms == [owner : Owners, busy : BOOLEAN, error : BOOLEAN]
<1>1. ASSUME NEW o \in Owners, CookieChanges(o)
      PROVE  SessionOK' /\ ~News
  <2>1. UNCHANGED <<atom, continuity>> /\ cookie' = o /\ (notice' = "sent" \/ notice' = notice)
    BY <1>1 DEF CookieChanges
  <2> QED
    BY <2>1 DEF News
<1>2. CASE NoticeIsHeard
  BY <1>2 DEF NoticeIsHeard, Invalidate
<1>3. CASE CheckBegins \/ CheckAnswers \/ CheckFails
  <2>1. PICK next \in Atoms :
          /\ AtomBecomes(next) /\ atom' = next /\ UNCHANGED cookie
          /\ ~(notice' = "heard" /\ notice = "sent")
    <3>1. /\ [owner |-> atom.owner, busy |-> TRUE, error |-> FALSE] \in Atoms
          /\ [owner |-> cookie, busy |-> FALSE, error |-> FALSE] \in Atoms
          /\ [owner |-> Nobody, busy |-> FALSE, error |-> TRUE] \in Atoms
      BY DEF Owners
    <3> QED
      BY <1>3, <3>1 DEF CheckBegins, CheckAnswers, CheckFails, AtomBecomes
  <2> QED
    BY <2>1, AtomStep DEF News
<1>4. CASE GuardCloses \/ GuardOpens
  <2>1. UNCHANGED <<cookie, atom, continuity, notice>>
    BY <1>4 DEF GuardCloses, GuardOpens
  <2> QED
    BY <2>1 DEF News
<1>5. ASSUME NEW o \in Owners, CancelSettles(o)
      PROVE  SessionOK' /\ ~News
  <2>1. UNCHANGED <<cookie, atom, continuity, notice>>
    BY <1>5 DEF CancelSettles
  <2> QED
    BY <2>1 DEF News
<1> QED
  BY <1>1, <1>2, <1>3, <1>4, <1>5 DEF SessionNext

LEMMA SessionRests ==
  ASSUME SessionOK, UNCHANGED sessionVars
  PROVE  SessionOK' /\ UNCHANGED <<cookie, atom, continuity>>
BY DEF SessionOK, SessionTyped, sessionVars, boundaryVars

-----------------------------------------------------------------------------
(* What the tab holds. *)

(* A step that shows and sends only what has been met. *)
LEMMA TabStep ==
  ASSUME Inv, SessionOK', server' = server, sitting' \in Nat, CacheOK(query'),
         screen' # None => ScreenOK(screen', continuity'.gen, sitting'),
         PutsOK(puts', screen')
  PROVE  Inv'
<1>1. ASSUME NEW n \in Nat, NEW u \in Units, Meets(n, u)' PROVE Meets(n, u)
  <2>1. CASE IsRow(server', n, u)
    BY <2>1 DEF Meets
  <2>2. ASSUME NEW q \in Queries, IsRow(query'[q].data, n, u) PROVE Meets(n, u)
    BY <2>2 DEF CacheOK
  <2>3. ASSUME screen' # None,
               (\E g \in {screen'.goal, screen'.shown, screen'.latest, screen'.typed} : IsRow(g, n, u))
                 \/ IsMade(screen'.op, n, u)
        PROVE  Meets(n, u)
    BY <2>3 DEF ScreenOK
  <2>4. ASSUME NEW p \in puts', IsMade(p.op, n, u) PROVE Meets(n, u)
    BY <2>4 DEF PutsOK, PutOK
  <2> QED
    BY <1>1, <2>1, <2>2, <2>3, <2>4 DEF Meets
<1>2. MetOK'
  BY <1>1 DEF Inv, MetOK
<1>3. CacheOK(query)'
  BY DEF CacheOK, Meets
<1>4. (screen # None => ScreenOK(screen, continuity.gen, sitting))'
  <2>1. ASSUME screen' # None, NEW n \in Nat, NEW u \in Units
        PROVE  /\ \A g \in {screen'.goal, screen'.shown, screen'.latest, screen'.typed} :
                    IsRow(g, n, u) => Meets(n, u)'
               /\ IsMade(screen'.op, n, u) => Meets(n, u)'
    BY <2>1 DEF Meets
  <2> QED
    BY <2>1 DEF ScreenOK
<1>5. PutsOK(puts, screen)'
  <2>1. ASSUME NEW p \in puts' PROVE PutOK(p, screen)'
    <3>1. ASSUME NEW n \in Nat, NEW u \in Units, IsMade(p.op, n, u) PROVE Meets(n, u)'
      BY <3>1 DEF Meets
    <3> QED
      BY <3>1 DEF PutsOK, PutOK
  <2> QED
    BY <2>1 DEF PutsOK
<1> QED
  BY <1>2, <1>3, <1>4, <1>5 DEF Inv

LEMMA NowOK ==
  ASSUME Inv
  PROVE  /\ CacheOK(query) /\ PutsOK(puts, screen)
         /\ \A n \in Nat, u \in Units : IsRow(server, n, u) => Meets(n, u)
         /\ screen # None => ScreenOK(screen, continuity.gen, sitting) /\ screen \in Screens
BY DEF Inv, Meets, ScreenOK

(* The render. *)
LEMMA AdoptedScreen ==
  ASSUME NEW s, NEW gen, NEW now, NEW qs, ScreenOK(s, gen, now), CacheOK(qs)
  PROVE  /\ ScreenOK(Adopted(s, qs), gen, now)
         /\ Adopted(s, qs).saver = s.saver /\ Adopted(s, qs).op = s.op
         /\ Adopted(s, qs) # None
<1> DEFINE goal == qs["goal"].data
           a == Adopted(s, qs)
<1>1. s \in Screens /\ goal \in Goals \union {None}
  BY DEF ScreenOK, CacheOK, Caches, Queries
<1>2. \A n \in Nat, u \in Units : IsRow(goal, n, u) => Meets(n, u)
  BY DEF CacheOK, Queries
<1>3. /\ a \in Screens /\ a.gen = s.gen /\ a.typed = s.typed /\ a.op = s.op /\ a.saver = s.saver
      /\ a.latest = s.latest /\ a.goal \in {goal, s.goal} /\ a.shown \in {goal, s.shown}
  BY <1>1 DEF Adopted, Screens
<1> HIDE DEF a, goal
<1>4. ScreenOK(a, gen, now)
  BY <1>2, <1>3 DEF ScreenOK
<1>5. a # None
  BY <1>3, TodayAssumption
<1> QED
  BY <1>3, <1>4, <1>5 DEF a

(* The saves stay what they are, for a screen that waits for what it did.   *)
LEMMA PutsStay ==
  ASSUME Inv, NEW s,
         screen # None => s # None /\ s.saver = screen.saver /\ s.op = screen.op
  PROVE  PutsOK(puts, s)
BY DEF Inv, PutsOK, PutOK

LEMMA PutsUnheard ==
  ASSUME Inv, screen # None => screen.saver # "sent", NEW s
  PROVE  PutsOK(puts, s) /\ \A p \in puts : ~p.live
BY DEF Inv, PutsOK, PutOK

LEMMA PutsDetached ==
  ASSUME Inv, NEW s
  PROVE  PutsOK(Detached, s)
<1> DEFINE U(p) == [p EXCEPT !.live = FALSE]
<1>1. ASSUME NEW p \in puts
      PROVE  /\ U(p) \in Puts /\ U(p).op = p.op /\ U(p).sitting = p.sitting /\ U(p).pc = p.pc
             /\ U(p).unit = p.unit /\ ~U(p).live
  BY DEF Inv, PutsOK, PutOK, Puts
<1>2. Detached = {U(p) : p \in puts}
  BY DEF Detached
<1> HIDE DEF U
<1>3. \A p \in puts : PutOK(U(p), s)
  BY <1>1 DEF Inv, PutsOK, PutOK
<1> QED
  BY <1>1, <1>2, <1>3 DEF Inv, PutsOK

(* A step of the tab within its session, for a screen that stays. *)
LEMMA ScreenStep ==
  ASSUME Inv, UNCHANGED <<sessionVars, server, sitting, puts>>, CacheOK(query'),
         screen # None, ScreenOK(screen', continuity.gen, sitting),
         \/ screen'.saver = screen.saver /\ screen'.op = screen.op
         \/ screen.saver # "sent"
  PROVE  Inv'
<1>1. SessionOK' /\ continuity' = continuity
  BY SessionRests DEF Inv
<1>2. screen' # None
  BY TodayAssumption DEF ScreenOK
<1>3. PutsOK(puts, screen')
  BY <1>2, PutsStay, PutsUnheard
<1> QED
  BY <1>1, <1>3, TabStep DEF Inv

LEMMA AskedCache ==
  ASSUME NEW qs, CacheOK(qs)
  PROVE  CacheOK(Asked(qs)) /\ CacheOK(Cancelled(qs))
<1>1. qs \in Caches /\ Asker \in {Owner, Nobody}
  BY DEF CacheOK, Asker
<1>2. /\ Asked(qs) \in Caches /\ \A q \in Queries : Asked(qs)[q].data = qs[q].data
      /\ Cancelled(qs) \in Caches /\ \A q \in Queries : Cancelled(qs)[q].data = qs[q].data
  BY <1>1 DEF Asked, Cancelled, Caches
<1> QED
  BY <1>2 DEF CacheOK

LEMMA EmptyCache == CacheOK([q \in Queries |-> Idle])
<1>1. [q \in Queries |-> Idle] \in Caches
  BY DEF Caches, Idle
<1> QED
  BY <1>1 DEF CacheOK, Idle, IsRow

LEMMA BlankScreen ==
  ASSUME NEW owner \in Users, NEW gen \in Nat, NEW now
  PROVE  ScreenOK(Blank(owner, gen), gen, now)
<1> DEFINE b == Blank(owner, gen)
<1>1. /\ b \in Screens /\ b.gen = gen /\ b.typed = None /\ b.op = None /\ b.saver = "free"
      /\ b.goal = None /\ b.shown = None /\ b.latest = None
  BY DEF Blank, Screens
<1> HIDE DEF b
<1>2. ScreenOK(b, gen, now)
  BY <1>1 DEF ScreenOK, IsRow, IsMade
<1> QED
  BY <1>2 DEF b

(* The session's step and the render that follows: what is held goes on     *)
(* only under the same key, and then in the same sitting.                  *)
LEMMA BoundaryStep ==
  ASSUME Inv, Boundary
  PROVE  Inv'
<1> DEFINE gone == ShownOwner = None
           base == IF Opened THEN [q \in Queries |-> Idle]
                   ELSE IF Cancels THEN Cancelled(query) ELSE query
           cache == IF gone THEN Cancelled(base)
                    ELSE IF Opened \/ ~SameKey THEN Asked(base) ELSE base
           next == IF gone THEN None
                   ELSE IF ~SameKey THEN Blank(ShownOwner, continuity'.gen)
                   ELSE IF Ready' THEN screen
                   ELSE [screen EXCEPT !.latest = None, !.reload = None]
<1>1. /\ query' = cache
      /\ screen' = IF next # None /\ Ready' THEN Adopted(next, cache) ELSE next
      /\ puts' = IF SameKey THEN puts ELSE Detached
      /\ sitting' = IF News THEN sitting + 1 ELSE sitting
      /\ server' = server
  BY DEF Boundary, Rerender
<1>2. SessionOK' /\ (News => continuity'.gen # continuity.gen)
  BY SessionStep DEF Inv, Boundary
<1>3. /\ sitting' \in Nat
      /\ continuity'.gen \in Nat
  BY <1>1, <1>2 DEF Inv, SessionOK, SessionTyped
<1>4. CacheOK(query) /\ CacheOK(base)
  BY NowOK, AskedCache, EmptyCache
<1>5. CacheOK(cache)
  <2> HIDE DEF base
  <2> QED
    BY <1>4, AskedCache
<1>6. screen # None => screen \in Screens /\ screen.owner \in Users
                       /\ ScreenOK(screen, continuity.gen, sitting)
  BY NowOK DEF Screens
<1>7. ShownOwner \in Users \union {None}
  BY <1>6 DEF ShownOwner, Ready
<1>8. SameKey => screen # None /\ ~gone /\ continuity'.gen = screen.gen
  BY <1>6, TodayAssumption DEF SameKey
<1> HIDE DEF cache, gone
<1>9. next # None =>
        /\ ScreenOK(next, continuity'.gen, sitting')
        /\ SameKey => next.saver = screen.saver /\ next.op = screen.op
  <2>1. CASE gone
    BY <2>1
  <2>2. CASE ~gone /\ ~SameKey
    BY <1>3, <1>7, <2>2, BlankScreen DEF gone
  <2>3. CASE ~gone /\ SameKey
    <3>1. continuity'.gen = continuity.gen /\ sitting' = sitting
      BY <1>1, <1>2, <1>6, <1>8, <2>3 DEF ScreenOK
    <3>2. CASE Ready'
      BY <1>6, <1>8, <2>3, <3>1, <3>2
    <3>3. CASE ~Ready'
      <4> DEFINE s == [screen EXCEPT !.latest = None, !.reload = None]
      <4>1. /\ s \in Screens /\ s.gen = screen.gen /\ s.typed = screen.typed /\ s.op = screen.op
            /\ s.saver = screen.saver /\ s.goal = screen.goal /\ s.shown = screen.shown
            /\ s.latest = None
        BY <1>6, <1>8, <2>3 DEF Screens
      <4>2. next = s
        BY <2>3, <3>3
      <4> HIDE DEF s, next
      <4>3. ScreenOK(s, continuity.gen, sitting)
        BY <1>6, <1>8, <2>3, <4>1 DEF ScreenOK, IsRow
      <4> QED
        BY <3>1, <4>1, <4>2, <4>3
    <3> QED
      BY <3>2, <3>3
  <2> QED
    BY <2>1, <2>2, <2>3
<1>10. SameKey => next # None
  <2>1. SameKey => [screen EXCEPT !.latest = None, !.reload = None] \in Screens
    BY <1>6, <1>8 DEF Screens
  <2> QED
    BY <1>8, <2>1, TodayAssumption
<1> HIDE DEF next
<1>11. /\ screen' # None => ScreenOK(screen', continuity'.gen, sitting')
       /\ SameKey => screen' # None /\ screen'.saver = screen.saver /\ screen'.op = screen.op
  BY <1>1, <1>5, <1>9, <1>10, AdoptedScreen
<1>12. PutsOK(puts', screen')
  BY <1>1, <1>11, PutsStay, PutsDetached
<1> QED
  BY <1>1, <1>2, <1>3, <1>5, <1>11, <1>12, TabStep

-----------------------------------------------------------------------------
(* The server and the queries. *)

LEMMA ServerStep ==
  ASSUME Inv, Midnight \/ Edit
  PROVE  Inv'
<1>1. /\ UNCHANGED <<sessionVars, query, screen, puts, sitting>>
      /\ server \in Goals
  BY DEF Inv, Midnight, Edit, pageVars
<1>2. /\ server' \in Goals
      /\ \/ server'.rev = server.rev /\ server'.unit = server.unit
         \/ server'.rev > server.rev
  <2>1. CASE Midnight
    BY <1>1, <2>1 DEF Midnight, Goals
  <2>2. CASE Edit
    <3>1. PICK u \in Units : server' = [server EXCEPT !.rev = server.rev + 1, !.unit = u]
      BY <2>2 DEF Edit
    <3> DEFINE n == server.rev + 1
    <3>2. server.rev \in Nat /\ n \in Nat /\ n > server.rev
      BY <1>1 DEF Goals
    <3> HIDE DEF n
    <3>3. [server EXCEPT !.rev = n, !.unit = u] \in Goals
      BY <1>1, <3>2 DEF Goals
    <3>4. [server EXCEPT !.rev = n, !.unit = u].rev = n
      BY <1>1 DEF Goals
    <3>5. server' = [server EXCEPT !.rev = n, !.unit = u]
      BY <3>1 DEF n
    <3> QED
      BY <3>2, <3>3, <3>4, <3>5
  <2> QED
    BY <2>1, <2>2
<1>3. SessionOK' /\ continuity' = continuity
  BY <1>1, SessionRests DEF Inv
<1>4. ASSUME NEW n \in Nat, NEW u \in Units, Meets(n, u)'
      PROVE  Meets(n, u) \/ (n = server'.rev /\ u = server'.unit /\ server'.rev > server.rev)
  BY <1>1, <1>2, <1>4, TodayAssumption DEF Meets, IsRow
<1>5. ASSUME NEW n \in Nat, NEW u \in Units, Meets(n, u)
      PROVE  Meets(n, u)' \/ (n = server.rev /\ u = server.unit)
  BY <1>1, <1>5 DEF Meets, IsRow
<1>6. MetOK'
  <2>1. server.rev \in Nat /\ server'.rev \in Nat
    BY <1>1, <1>2 DEF Goals
  <2> QED
    BY <1>2, <1>4, <2>1 DEF Inv, MetOK
<1>7. CacheOK(query)'
  BY <1>1 DEF Inv, CacheOK, Meets
<1>8. (screen # None => ScreenOK(screen, continuity.gen, sitting))'
  <2>1. ASSUME screen # None, NEW n \in Nat, NEW u \in Units
        PROVE  /\ \A g \in {screen.goal, screen.shown, screen.latest, screen.typed} :
                    IsRow(g, n, u) => Meets(n, u)'
               /\ IsMade(screen.op, n, u) => Meets(n, u)'
    BY <1>1, <2>1 DEF Meets
  <2> QED
    BY <1>1, <1>3, <2>1 DEF Inv, ScreenOK
<1>9. PutsOK(puts, screen)'
  <2>1. ASSUME NEW p \in puts PROVE PutOK(p, screen)'
    <3>1. ASSUME NEW n \in Nat, NEW u \in Units, IsMade(p.op, n, u) PROVE Meets(n, u)'
      BY <1>1, <3>1 DEF Meets
    <3> QED
      BY <1>1, <3>1 DEF Inv, PutsOK, PutOK
  <2> QED
    BY <1>1, <2>1 DEF Inv, PutsOK
<1> QED
  BY <1>1, <1>2, <1>3, <1>6, <1>7, <1>8, <1>9 DEF Inv

(* The cache and the screen over it. *)
LEMMA CacheStep ==
  ASSUME Inv, UNCHANGED <<sessionVars, server, sitting, puts>>, NEW qs, NEW s,
         CacheOK(qs), CacheBecomes(qs, s),
         screen = None => s = None,
         screen # None =>
           s # None /\ ScreenOK(s, continuity.gen, sitting) /\ s.saver = screen.saver /\ s.op = screen.op
  PROVE  Inv'
<1>1. /\ query' = qs
      /\ screen' = IF s # None /\ Ready THEN Adopted(s, qs) ELSE s
  BY DEF CacheBecomes
<1>2. CASE screen # None
  <2>1. /\ ScreenOK(screen', continuity.gen, sitting)
        /\ screen'.saver = screen.saver /\ screen'.op = screen.op
    BY <1>1, <1>2, AdoptedScreen
  <2> QED
    BY <1>1, <1>2, <2>1, ScreenStep
<1>3. CASE screen = None
  <2>1. SessionOK' /\ screen' = None /\ PutsOK(puts', screen') /\ sitting' \in Nat
    BY <1>1, <1>3, SessionRests, NowOK DEF Inv
  <2> QED
    BY <1>1, <2>1, TabStep
<1> QED
  BY <1>2, <1>3

LEMMA QueryAnswersStep ==
  ASSUME Inv, NEW q \in Queries, QueryAnswers(q)
  PROVE  Inv'
<1> DEFINE answer == IF query[q].by = Owner
                     THEN [data |-> server, failed |-> "no", by |-> None]
                     ELSE [query[q] EXCEPT !.failed = "denied", !.by = None]
           qs == [query EXCEPT ![q] = answer]
           s == IF query[q].by = Owner \/ screen = None THEN screen
                ELSE [screen EXCEPT !.typed = None]
<1>1. CacheBecomes(qs, s) /\ UNCHANGED <<sessionVars, server, puts, sitting>>
  BY DEF QueryAnswers
<1>2. query \in Caches /\ server \in Goals
  BY DEF Inv, CacheOK
<1>3. /\ answer \in [data : Goals \union {None}, failed : {"no", "error", "denied"},
                     by : {Owner, Nobody, None}]
      /\ answer.data \in {server, query[q].data}
  BY <1>2 DEF Caches
<1> HIDE DEF answer
<1>4. qs \in Caches /\ \A t \in Queries : qs[t].data \in {server, query[t].data}
  BY <1>2, <1>3 DEF Caches
<1> HIDE DEF qs
<1>5. CacheOK(qs)
  BY <1>4, NowOK DEF CacheOK
<1>6. screen # None =>
        /\ s # None /\ ScreenOK(s, continuity.gen, sitting)
        /\ s.saver = screen.saver /\ s.op = screen.op
  <2>1. ASSUME screen # None
        PROVE  /\ s \in Screens /\ s.gen = screen.gen /\ s.typed \in {None, screen.typed}
               /\ s.op = screen.op /\ s.saver = screen.saver /\ s.goal = screen.goal
               /\ s.shown = screen.shown /\ s.latest = screen.latest
    BY <2>1, NowOK DEF Screens
  <2> HIDE DEF s
  <2> QED
    BY <2>1, NowOK, TodayAssumption DEF ScreenOK, IsRow
<1>7. screen = None => s = None
  OBVIOUS
<1> HIDE DEF s
<1> QED
  BY <1>1, <1>5, <1>6, <1>7, CacheStep

LEMMA QueryFailsStep ==
  ASSUME Inv, NEW q \in Queries, QueryFails(q)
  PROVE  Inv'
<1> DEFINE qs == [query EXCEPT ![q].by = None,
                               ![q].failed = IF q = "today" THEN "error" ELSE @]
<1>1. CacheBecomes(qs, screen) /\ UNCHANGED <<sessionVars, server, puts, sitting>>
  BY DEF QueryFails
<1>2. query \in Caches
  BY DEF Inv, CacheOK
<1>3. qs \in Caches /\ \A t \in Queries : qs[t].data = query[t].data
  BY <1>2 DEF Caches
<1> HIDE DEF qs
<1>4. CacheOK(qs)
  BY <1>3, NowOK DEF CacheOK
<1> QED
  BY <1>1, <1>4, NowOK, CacheStep

LEMMA RefreshStep ==
  ASSUME Inv, Refresh
  PROVE  Inv'
BY NowOK, AskedCache, ScreenStep DEF Refresh, pageVars

-----------------------------------------------------------------------------
(* The record. *)

(* A screen that holds no more than it did. *)
LEMMA SmallerScreen ==
  ASSUME NEW s, NEW gen, NEW now, ScreenOK(s, gen, now), NEW t \in Screens,
         t.gen = s.gen, t.goal = s.goal, t.shown = s.shown,
         t.typed \in {None, s.typed}, t.latest \in {None, s.latest}, t.op \in {None, s.op},
         t.saver # "free" => t.op # None
  PROVE  ScreenOK(t, gen, now)
BY DEF ScreenOK, IsRow, IsMade

(* What is pressed, held or tried again may be sent. *)
MayGo(op) ==
  /\ op \in Operations /\ op.sitting = sitting /\ op.unit = op.meant
  /\ \A n \in Nat, u \in Units : IsMade(op, n, u) => Meets(n, u)

LEMMA HeldMayGo ==
  ASSUME Inv, screen # None, screen.op # None
  PROVE  MayGo(screen.op)
BY NowOK DEF ScreenOK, Screens, MayGo

(* The screen after mutate, or with a save that is held. *)
LEMMA BusyScreen ==
  ASSUME Inv, screen # None, NEW op, MayGo(op), NEW kind \in {"held", "sent"}
  PROVE  LET s == [screen EXCEPT !.saver = kind, !.op = op]
         IN ScreenOK(s, continuity.gen, sitting) /\ s.saver = kind /\ s.op = op /\ s # None
<1> DEFINE s == [screen EXCEPT !.saver = kind, !.op = op]
<1>1. screen \in Screens /\ ScreenOK(screen, continuity.gen, sitting) /\ op \in Operations
  BY NowOK DEF MayGo
<1>2. s \in Screens
  BY <1>1 DEF Screens
<1>3. /\ s.gen = screen.gen /\ s.typed = screen.typed /\ s.op = op /\ s.saver = kind
      /\ s.goal = screen.goal /\ s.shown = screen.shown /\ s.latest = screen.latest
  BY <1>1 DEF Screens
<1> HIDE DEF s
<1>4. op # None /\ s # None
  BY <1>1, <1>2, TodayAssumption
<1>5. ScreenOK(s, continuity.gen, sitting)
  BY <1>1, <1>2, <1>3, <1>4 DEF ScreenOK, MayGo
<1> QED
  BY <1>3, <1>4, <1>5 DEF s

LEMMA SentStep ==
  ASSUME Inv, UNCHANGED <<sessionVars, server, query, sitting>>,
         screen # None, screen.saver # "sent", NEW op, MayGo(op), ~Pending(op.date), Sent(op)
  PROVE  Inv'
<1> DEFINE new == [op |-> op, by |-> cookie, sitting |-> sitting, live |-> TRUE,
                   pc |-> "sent", unit |-> None]
<1>1. screen' = [screen EXCEPT !.saver = "sent", !.op = op] /\ puts' = puts \union {new}
  BY DEF Sent
<1>2. /\ ScreenOK(screen', continuity.gen, sitting)
      /\ screen'.saver = "sent" /\ screen'.op = op /\ screen' # None
  BY <1>1, BusyScreen
<1>3. cookie \in Owners /\ sitting \in Nat /\ op \in Operations
  BY DEF Inv, SessionOK, SessionTyped, MayGo
<1>4. /\ new \in Puts /\ new.op = op /\ new.sitting = sitting /\ new.pc = "sent"
  BY <1>3 DEF Puts
<1> HIDE DEF new
<1>5. PutOK(new, screen')
  BY <1>2, <1>4 DEF PutOK, MayGo
<1>6. PutsOK(puts, screen')
  BY PutsUnheard
<1>7. PutsOK(puts', screen')
  BY <1>1, <1>4, <1>5, <1>6 DEF PutsOK, Pending
<1>8. SessionOK' /\ continuity' = continuity
  BY SessionRests DEF Inv
<1> QED
  BY <1>2, <1>3, <1>7, <1>8, NowOK, TabStep

LEMMA SubmittedStep ==
  ASSUME Inv, UNCHANGED <<sessionVars, server, query, sitting>>,
         screen # None, screen.saver # "sent", NEW op, MayGo(op), ~Pending(op.date), Submitted(op)
  PROVE  Inv'
<1>1. ScreenOK(screen, continuity.gen, sitting) /\ CacheOK(query)
  BY NowOK
<1>2. CASE Sent(op)
  BY <1>2, SentStep
<1>3. CASE screen' = [screen EXCEPT !.saver = "held", !.op = op] /\ puts' = puts
  <2>1. ScreenOK(screen', continuity.gen, sitting)
    BY <1>3, BusyScreen
  <2> QED
    BY <1>1, <1>3, <2>1, ScreenStep
<1>4. CASE UNCHANGED <<screen, puts>>
  BY <1>1, <1>4, ScreenStep
<1> QED
  BY <1>2, <1>3, <1>4 DEF Submitted

LEMMA TypingStep ==
  ASSUME Inv, TypeBegins \/ TypeEnds
  PROVE  Inv'
<1>1. /\ screen # None /\ screen \in Screens /\ ScreenOK(screen, continuity.gen, sitting)
      /\ UNCHANGED <<sessionVars, server, query, puts, sitting>> /\ CacheOK(query)
      /\ sitting \in Nat
  BY NowOK DEF TypeBegins, TypeEnds, BarOpen, dataVars, Inv
<1>2. CASE TypeBegins
  <2> DEFINE typed == [day |-> Shown.day, rev |-> Shown.rev, unit |-> Shown.unit, sitting |-> sitting]
  <2>1. screen' = [screen EXCEPT !.typed = typed]
    BY <1>2 DEF TypeBegins
  <2>2. Shown \in Goals /\ Shown \in {screen.shown, screen.goal}
    BY <1>1, <1>2 DEF TypeBegins, BarOpen, Shown, Screens
  <2> HIDE DEF Shown
  <2>3. /\ typed \in Typings /\ typed.sitting = sitting /\ typed.rev = Shown.rev
        /\ typed.unit = Shown.unit
    BY <1>1, <2>2 DEF Goals, Typings
  <2> HIDE DEF typed
  <2>4. /\ screen' \in Screens /\ screen'.gen = screen.gen /\ screen'.typed = typed
        /\ screen'.op = screen.op /\ screen'.saver = screen.saver /\ screen'.goal = screen.goal
        /\ screen'.shown = screen.shown /\ screen'.latest = screen.latest
    BY <1>1, <2>1, <2>3 DEF Screens
  <2>5. \A n \in Nat, u \in Units : IsRow(typed, n, u) => Meets(n, u)
    BY <1>1, <2>2, <2>3, TodayAssumption DEF ScreenOK, IsRow
  <2>6. ScreenOK(screen', continuity.gen, sitting)
    BY <1>1, <2>3, <2>4, <2>5 DEF ScreenOK
  <2> QED
    BY <1>1, <2>4, <2>6, ScreenStep
<1>3. CASE TypeEnds
  <2>1. screen' = [screen EXCEPT !.typed = None]
    BY <1>3 DEF TypeEnds
  <2>2. /\ screen' \in Screens /\ screen'.gen = screen.gen /\ screen'.typed = None
        /\ screen'.op = screen.op /\ screen'.saver = screen.saver /\ screen'.goal = screen.goal
        /\ screen'.shown = screen.shown /\ screen'.latest = screen.latest
    BY <1>1, <2>1 DEF Screens
  <2>3. screen.saver # "free" => screen.op # None
    BY <1>1 DEF ScreenOK
  <2>4. ScreenOK(screen', continuity.gen, sitting)
    BY <1>1, <2>2, <2>3, SmallerScreen
  <2> QED
    BY <1>1, <2>2, <2>4, ScreenStep
<1> QED
  BY <1>2, <1>3

(* The amount is of the unit that goes with the revision it is sent under.  *)
LEMMA PressStep ==
  ASSUME Inv, Press
  PROVE  Inv'
<1> DEFINE op == [date |-> RecordDate, rev |-> Shown.rev, unit |-> Shown.unit,
                  meant |-> IF screen.typed # None THEN screen.typed.unit ELSE Shown.unit,
                  sitting |-> sitting]
<1>1. /\ BarOpen /\ SettingsUnchanged /\ Submitted(op)
      /\ UNCHANGED <<sessionVars, server, query, sitting>>
  BY DEF Press, dataVars
<1>2. /\ screen # None /\ screen \in Screens /\ ScreenOK(screen, continuity.gen, sitting)
      /\ screen.saver = "free" /\ sitting \in Nat /\ MetOK
  BY <1>1, NowOK DEF BarOpen, Inv
<1>3. Shown \in Goals /\ Shown \in {screen.shown, screen.goal}
  BY <1>1, <1>2 DEF BarOpen, Shown, Screens
<1>4. screen.typed # None => screen.typed \in Typings
  BY <1>2 DEF Screens
<1> HIDE DEF Shown
<1>5. RecordDate \in Nat
  BY <1>3, <1>4 DEF RecordDate, Goals, Typings
<1>6. Meets(Shown.rev, Shown.unit) /\ Shown.rev \in Nat /\ Shown.unit \in Units
  BY <1>2, <1>3, TodayAssumption DEF ScreenOK, IsRow, Goals
<1>7. screen.typed # None => screen.typed.unit = Shown.unit
  <2>1. SUFFICES ASSUME screen.typed # None PROVE screen.typed.unit = Shown.unit
    OBVIOUS
  <2>2. screen.typed.rev = Shown.rev /\ screen.typed.unit \in Units
    BY <1>1, <1>4, <2>1 DEF SettingsUnchanged, Typings
  <2>3. Meets(Shown.rev, screen.typed.unit)
    BY <1>2, <1>6, <2>1, <2>2 DEF ScreenOK, IsRow
  <2> QED
    BY <1>2, <1>6, <2>2, <2>3 DEF MetOK
<1>8. /\ op \in Operations /\ op.date = RecordDate /\ op.rev = Shown.rev /\ op.sitting = sitting
      /\ op.unit = Shown.unit /\ op.meant = Shown.unit
  BY <1>2, <1>5, <1>6, <1>7 DEF Operations
<1> HIDE DEF op
<1>9. MayGo(op)
  BY <1>6, <1>8 DEF MayGo, IsMade
<1>10. ~Pending(op.date)
  BY <1>1, <1>8 DEF BarOpen
<1> QED
  BY <1>1, <1>2, <1>9, <1>10, SubmittedStep

LEMMA HeldStep ==
  ASSUME Inv, HeldIsSettled
  PROVE  Inv'
<1>1. /\ screen # None /\ screen \in Screens /\ ScreenOK(screen, continuity.gen, sitting)
      /\ screen.saver = "held" /\ screen.op # None /\ CacheOK(query)
      /\ UNCHANGED <<sessionVars, server, query, sitting>>
  BY NowOK DEF HeldIsSettled, ScreenOK, dataVars
<1>2. MayGo(screen.op)
  BY <1>1, HeldMayGo
<1>3. CASE Sent(screen.op) /\ ~Pending(screen.op.date)
  BY <1>1, <1>2, <1>3, SentStep
<1>4. CASE screen' = [screen EXCEPT !.saver = "free", !.op = None] /\ puts' = puts
  <2>1. /\ screen' \in Screens /\ screen'.gen = screen.gen /\ screen'.typed = screen.typed
        /\ screen'.op = None /\ screen'.saver = "free" /\ screen'.goal = screen.goal
        /\ screen'.shown = screen.shown /\ screen'.latest = screen.latest
    BY <1>1, <1>4 DEF Screens
  <2>2. ScreenOK(screen', continuity.gen, sitting)
    BY <1>1, <2>1, SmallerScreen
  <2> QED
    BY <1>1, <1>4, <2>2, ScreenStep
<1> QED
  BY <1>3, <1>4 DEF HeldIsSettled

-----------------------------------------------------------------------------
(* The saves that are under way. *)

(* A save goes on, and the screen waits as before. *)
LEMMA PutChanges ==
  ASSUME Inv, UNCHANGED <<sessionVars, server, screen, sitting>>, CacheOK(query'),
         NEW p \in puts, NEW t \in Puts, t.op = p.op, t.sitting = p.sitting, t.live = p.live,
         t.pc \in {"saved", "refreshing"} => t.unit = p.op.meant,
         puts' = (puts \ {p}) \union {t}
  PROVE  Inv'
<1>1. PutsOK(puts, screen)
  BY NowOK
<1>2. PutOK(t, screen)
  BY <1>1 DEF PutsOK, PutOK
<1>3. PutsOK(puts', screen)
  BY <1>1, <1>2 DEF PutsOK
<1>4. SessionOK' /\ continuity' = continuity
  BY SessionRests DEF Inv
<1> QED
  BY <1>3, <1>4, NowOK, TabStep DEF Inv

(* A save is over; only the screen that waits for it is told. *)
LEMMA PutEnds ==
  ASSUME Inv, UNCHANGED <<sessionVars, server, query, sitting>>,
         NEW p \in puts, puts' = puts \ {p},
         ~p.live => screen' = screen,
         p.live => screen' # None /\ ScreenOK(screen', continuity.gen, sitting)
  PROVE  Inv'
<1>1. PutsOK(puts, screen)
  BY NowOK
<1>2. ASSUME NEW q \in puts \ {p} PROVE PutOK(q, screen')
  <2>1. q.live => ~p.live
    BY <1>1, <1>2 DEF PutsOK, PutOK
  <2> QED
    BY <1>1, <1>2, <2>1 DEF PutsOK, PutOK
<1>3. PutsOK(puts', screen')
  BY <1>1, <1>2 DEF PutsOK
<1>4. SessionOK' /\ continuity' = continuity
  BY SessionRests DEF Inv
<1>5. sitting \in Nat
  BY DEF Inv
<1> QED
  BY <1>3, <1>4, <1>5, NowOK, TabStep

(* The server takes a save under its own revision: its unit is the one that *)
(* was meant. *)
LEMMA ServeStep ==
  ASSUME Inv, NEW p \in puts, Serve(p)
  PROVE  Inv'
<1> DEFINE t == [p EXCEPT !.pc = Verdict(p), !.unit = server.unit]
<1>1. /\ puts' = (puts \ {p}) \union {t}
      /\ UNCHANGED <<sessionVars, server, query, screen, sitting>>
  BY DEF Serve, dataVars
<1>2. p \in Puts /\ p.op \in Operations /\ server \in Goals /\ PutOK(p, screen)
  BY DEF Inv, PutsOK, PutOK, Puts
<1>3. /\ Verdict(p) \in {"signedout", "failed", "settings", "date", "saved"}
      /\ Verdict(p) = "saved" => p.op.rev = server.rev
  BY DEF Verdict
<1> HIDE DEF Verdict
<1>4. /\ t \in Puts /\ t.op = p.op /\ t.sitting = p.sitting /\ t.live = p.live
      /\ t.pc = Verdict(p) /\ t.unit = server.unit
  BY <1>2, <1>3 DEF Puts, Goals
<1> HIDE DEF t
<1>5. t.pc \in {"saved", "refreshing"} => t.unit = p.op.meant
  <2>1. SUFFICES ASSUME p.op.rev = server.rev PROVE server.unit = p.op.meant
    BY <1>3, <1>4
  <2>2. server.rev \in Nat /\ server.unit \in Units /\ p.op.meant \in Units
    BY <1>2 DEF Goals, Operations
  <2>3. Meets(server.rev, p.op.meant)
    BY <1>2, <2>1, <2>2, TodayAssumption DEF PutOK, IsMade
  <2>4. Meets(server.rev, server.unit)
    BY <1>2, <2>2, NowOK, TodayAssumption DEF IsRow
  <2> QED
    BY <2>2, <2>3, <2>4 DEF Inv, MetOK
<1> QED
  BY <1>1, <1>4, <1>5, NowOK, PutChanges

LEMMA SucceedsStep ==
  ASSUME Inv, NEW p \in puts, SaveSucceeds(p)
  PROVE  Inv'
<1> DEFINE t == [p EXCEPT !.pc = "refreshing"]
<1>1. /\ puts' = (puts \ {p}) \union {t} /\ p.pc = "saved"
      /\ UNCHANGED <<sessionVars, server, screen, sitting>>
      /\ query' \in {query, Asked(query)}
  BY DEF SaveSucceeds
<1>2. p \in Puts /\ PutOK(p, screen)
  BY DEF Inv, PutsOK, PutOK
<1>3. /\ t \in Puts /\ t.op = p.op /\ t.sitting = p.sitting /\ t.live = p.live
      /\ t.unit = p.unit
  BY <1>2 DEF Puts
<1> HIDE DEF t
<1>4. p.unit = p.op.meant
  BY <1>1, <1>2 DEF PutOK
<1>5. CacheOK(query')
  BY <1>1, NowOK, AskedCache
<1> QED
  BY <1>1, <1>3, <1>4, <1>5, PutChanges

LEMMA RefreshedStep ==
  ASSUME Inv, NEW p \in puts, Refreshed(p)
  PROVE  Inv'
<1>1. /\ puts' = puts \ {p} /\ UNCHANGED <<sessionVars, server, query, sitting>>
      /\ ~p.live => screen' = screen
      /\ p.live => screen' = [screen EXCEPT !.saver = "free", !.op = None, !.typed = None]
  BY DEF Refreshed, dataVars
<1>2. p.live => screen # None
  BY DEF Inv, PutsOK, PutOK
<1>3. ASSUME p.live PROVE screen' # None /\ ScreenOK(screen', continuity.gen, sitting)
  <2>1. screen \in Screens /\ ScreenOK(screen, continuity.gen, sitting)
    BY <1>2, <1>3, NowOK
  <2>2. /\ screen' \in Screens /\ screen'.gen = screen.gen /\ screen'.typed = None
        /\ screen'.op = None /\ screen'.saver = "free" /\ screen'.goal = screen.goal
        /\ screen'.shown = screen.shown /\ screen'.latest = screen.latest
    BY <1>1, <1>3, <2>1 DEF Screens
  <2> QED
    BY <2>1, <2>2, SmallerScreen, TodayAssumption
<1> QED
  BY <1>1, <1>3, PutEnds

LEMMA FailsStep ==
  ASSUME Inv, NEW p \in puts, NEW kind \in {"signedout", "failed", "settings", "date"},
         Fails(p, kind)
  PROVE  Inv'
<1>1. /\ puts' = puts \ {p} /\ UNCHANGED <<sessionVars, server, query, sitting>>
      /\ ~p.live => screen' = screen
      /\ p.live => screen' = [screen EXCEPT !.saver = kind, !.latest = None]
  BY DEF Fails, dataVars
<1>2. p.live => screen # None /\ screen.saver = "sent"
  BY DEF Inv, PutsOK, PutOK
<1>3. ASSUME p.live PROVE screen' # None /\ ScreenOK(screen', continuity.gen, sitting)
  <2>1. screen \in Screens /\ ScreenOK(screen, continuity.gen, sitting) /\ screen.op # None
    BY <1>2, <1>3, NowOK DEF ScreenOK
  <2>2. /\ screen' \in Screens /\ screen'.gen = screen.gen /\ screen'.typed = screen.typed
        /\ screen'.op = screen.op /\ screen'.goal = screen.goal
        /\ screen'.shown = screen.shown /\ screen'.latest = None
    BY <1>1, <1>3, <2>1 DEF Screens
  <2> QED
    BY <2>1, <2>2, SmallerScreen, TodayAssumption
<1> QED
  BY <1>1, <1>3, PutEnds

-----------------------------------------------------------------------------
(* After a failure. *)

LEMMA ResubmitStep ==
  ASSUME Inv, screen # None, screen.saver # "sent", NEW op, MayGo(op), Resubmit(op)
  PROVE  Inv'
BY SubmittedStep DEF Resubmit, dataVars

LEMMA RetryStep ==
  ASSUME Inv, Retry
  PROVE  Inv'
<1>1. screen # None /\ screen.saver = "failed" /\ Resubmit(screen.op)
  BY DEF Retry, FailureShown
<1>2. MayGo(screen.op)
  BY <1>1, NowOK, HeldMayGo DEF ScreenOK
<1> QED
  BY <1>1, <1>2, ResubmitStep

(* The settings that were read again have the unit of the save. *)
LEMMA RetryRebasedStep ==
  ASSUME Inv, RetryRebased
  PROVE  Inv'
<1> DEFINE op == [screen.op EXCEPT !.rev = screen.latest.rev]
<1>1. /\ screen # None /\ screen.saver = "settings" /\ Resubmit(op)
      /\ screen.latest # None /\ screen.latest.unit = screen.op.unit
  BY DEF RetryRebased, FailureShown, SameMeaning
<1>2. screen \in Screens /\ ScreenOK(screen, continuity.gen, sitting) /\ MayGo(screen.op)
  BY <1>1, NowOK, HeldMayGo DEF ScreenOK
<1>3. screen.op \in Operations /\ screen.latest \in Goals
  BY <1>1, <1>2 DEF MayGo, Screens
<1>4. /\ op \in Operations /\ op.rev = screen.latest.rev /\ op.unit = screen.op.unit
      /\ op.meant = screen.op.meant /\ op.sitting = screen.op.sitting
  BY <1>3 DEF Operations, Goals
<1> HIDE DEF op
<1>5. op.unit = op.meant /\ op.meant = screen.latest.unit
  BY <1>1, <1>2, <1>4 DEF MayGo
<1>6. MayGo(op)
  BY <1>1, <1>2, <1>4, <1>5 DEF MayGo, ScreenOK, IsRow, IsMade
<1> QED
  BY <1>1, <1>6, ResubmitStep

LEMMA ReloadStep ==
  ASSUME Inv, ReloadSettings \/ SettingsFail
  PROVE  Inv'
<1>1. /\ UNCHANGED <<sessionVars, server, query, puts, sitting>>
      /\ screen # None /\ screen \in Screens /\ ScreenOK(screen, continuity.gen, sitting)
      /\ CacheOK(query)
  BY NowOK DEF ReloadSettings, SettingsFail, FailureShown, dataVars
<1>2. /\ screen' \in Screens /\ screen'.gen = screen.gen /\ screen'.typed = screen.typed
      /\ screen'.op = screen.op /\ screen'.saver = screen.saver /\ screen'.goal = screen.goal
      /\ screen'.shown = screen.shown /\ screen'.latest \in {None, screen.latest}
  BY <1>1 DEF ReloadSettings, SettingsFail, Screens, Asker
<1>3. screen.saver # "free" => screen.op # None
  BY <1>1 DEF ScreenOK
<1>4. ScreenOK(screen', continuity.gen, sitting)
  BY <1>1, <1>2, <1>3, SmallerScreen
<1> QED
  BY <1>1, <1>2, <1>4, ScreenStep

LEMMA SettingsArriveStep ==
  ASSUME Inv, SettingsArrive
  PROVE  Inv'
<1> DEFINE read == [query EXCEPT !["goal"].data = server]
           s == [screen EXCEPT !.reload = None, !.latest = server]
<1>1. /\ screen # None /\ CacheBecomes(Asked(read), s)
      /\ UNCHANGED <<sessionVars, server, puts, sitting>>
  BY DEF SettingsArrive
<1>2. /\ server \in Goals /\ query \in Caches /\ CacheOK(query)
      /\ screen \in Screens /\ ScreenOK(screen, continuity.gen, sitting)
      /\ \A n \in Nat, u \in Units : IsRow(server, n, u) => Meets(n, u)
  BY <1>1, NowOK DEF Inv, CacheOK
<1>3. read \in Caches /\ \A q \in Queries : read[q].data \in {server, query[q].data}
  BY <1>2 DEF Caches, Queries
<1>4. /\ s \in Screens /\ s.gen = screen.gen /\ s.typed = screen.typed
      /\ s.op = screen.op /\ s.saver = screen.saver /\ s.goal = screen.goal
      /\ s.shown = screen.shown /\ s.latest = server
  BY <1>2 DEF Screens
<1> HIDE DEF read, s
<1>5. CacheOK(Asked(read))
  BY <1>2, <1>3, AskedCache DEF CacheOK
<1>6. ScreenOK(s, continuity.gen, sitting) /\ s # None
  BY <1>2, <1>4, TodayAssumption DEF ScreenOK
<1> QED
  BY <1>1, <1>4, <1>5, <1>6, CacheStep

LEMMA ResetScreen ==
  ASSUME NEW s, NEW gen, NEW now, ScreenOK(s, gen, now)
  PROVE  ScreenOK(Reset(s), gen, now) /\ ScreenOK([Reset(s) EXCEPT !.typed = None], gen, now)
<1> DEFINE r == Reset(s)
           t == [r EXCEPT !.typed = None]
<1>1. s \in Screens /\ (s.saver # "free" => s.op # None)
  BY DEF ScreenOK
<1>2. /\ r \in Screens /\ r.gen = s.gen /\ r.goal = s.goal /\ r.shown = s.shown
      /\ r.typed = s.typed /\ r.latest \in {None, s.latest} /\ r.op \in {None, s.op}
      /\ r.saver # "free" => r.op # None
  BY <1>1 DEF Reset, Screens
<1> HIDE DEF r
<1>3. /\ t \in Screens /\ t.gen = r.gen /\ t.goal = r.goal /\ t.shown = r.shown
      /\ t.typed = None /\ t.latest = r.latest /\ t.op = r.op /\ t.saver = r.saver
  BY <1>2 DEF Screens
<1> HIDE DEF t
<1>4. ScreenOK(r, gen, now) /\ ScreenOK(t, gen, now)
  BY <1>2, <1>3, SmallerScreen
<1> QED
  BY <1>4 DEF r, t

LEMMA LetGoStep ==
  ASSUME Inv, Reselect \/ StartAnew
  PROVE  Inv'
<1>1. /\ UNCHANGED <<sessionVars, server, puts, sitting>> /\ query' \in {query, Asked(query)}
      /\ screen # None /\ screen.saver # "sent"
      /\ screen' \in {Reset(screen), [Reset(screen) EXCEPT !.typed = None]}
  BY DEF Reselect, StartAnew, FailureShown, dataVars
<1>2. CacheOK(query')
  BY <1>1, NowOK, AskedCache
<1>3. ScreenOK(screen', continuity.gen, sitting)
  <2>1. ScreenOK(screen, continuity.gen, sitting)
    BY <1>1, NowOK
  <2>2. /\ ScreenOK(Reset(screen), continuity.gen, sitting)
        /\ ScreenOK([Reset(screen) EXCEPT !.typed = None], continuity.gen, sitting)
    BY <2>1, ResetScreen
  <2> QED
    BY <1>1, <2>2
<1> QED
  BY <1>1, <1>2, <1>3, ScreenStep

-----------------------------------------------------------------------------

LEMMA InitInv ==
  ASSUME Init
  PROVE  Inv
<1>1. /\ cookie = Owner /\ Owner \in Owners /\ screen = None /\ puts = {} /\ sitting = 0
      /\ server = [day |-> 1, rev |-> 0, unit |-> "minutes"]
      /\ query = [q \in Queries |-> Idle] /\ SessionInit
  <2>1. Owner \in Users /\ Owner \in Owners
    BY DEF Init, SessionInit, Owners
  <2> QED
    BY <2>1 DEF Init
<1>2. SessionOK
  BY <1>1 DEF SessionInit, SessionOK, SessionTyped, Owners
<1>3. server \in Goals /\ server # None /\ server.rev = 0 /\ server.unit = "minutes"
  BY <1>1, TodayAssumption DEF Goals, Units
<1>4. CacheOK(query)
  BY <1>1, EmptyCache
<1>5. \A n \in Nat, u \in Units : Meets(n, u) => n = 0 /\ u = "minutes"
  BY <1>1, <1>3 DEF Meets, IsRow, Idle
<1>6. MetOK
  BY <1>3, <1>5 DEF MetOK
<1>7. PutsOK(puts, screen)
  BY <1>1 DEF PutsOK
<1> QED
  BY <1>1, <1>2, <1>3, <1>4, <1>6, <1>7 DEF Inv

LEMMA SaveNextInv ==
  ASSUME Inv, SaveNext
  PROVE  Inv'
<1>1. CASE TypeBegins \/ TypeEnds
  BY <1>1, TypingStep
<1>2. CASE Press \/ HeldIsSettled
  BY <1>2, PressStep, HeldStep
<1>3. ASSUME NEW p \in puts, Serve(p) \/ SaveSucceeds(p) \/ Refreshed(p) PROVE Inv'
  BY <1>3, ServeStep, SucceedsStep, RefreshedStep
<1>4. ASSUME NEW p \in puts, SaveFails(p) \/ SaveIsLost(p) PROVE Inv'
  BY <1>4, FailsStep DEF SaveFails, SaveIsLost
<1>5. CASE Retry \/ RetryRebased
  BY <1>5, RetryStep, RetryRebasedStep
<1>6. CASE ReloadSettings \/ SettingsFail \/ SettingsArrive
  BY <1>6, ReloadStep, SettingsArriveStep
<1>7. CASE Reselect \/ StartAnew
  BY <1>7, LetGoStep
<1> QED
  BY <1>1, <1>2, <1>3, <1>4, <1>5, <1>6, <1>7 DEF SaveNext

LEMMA NextInv ==
  ASSUME Inv, [Next]_vars
  PROVE  Inv'
<1>1. CASE Boundary
  BY <1>1, BoundaryStep
<1>2. CASE Midnight \/ Edit
  BY <1>2, ServerStep
<1>3. ASSUME NEW q \in Queries, QueryAnswers(q) \/ QueryFails(q) PROVE Inv'
  BY <1>3, QueryAnswersStep, QueryFailsStep
<1>4. CASE Refresh
  BY <1>4, RefreshStep
<1>5. CASE SaveNext
  BY <1>5, SaveNextInv
<1>6. CASE UNCHANGED vars
  <2>1. UNCHANGED <<sessionVars, server, query, screen, puts, sitting>>
    BY <1>6 DEF vars, dataVars, pageVars
  <2>2. SessionOK' /\ continuity' = continuity
    BY <2>1, SessionRests DEF Inv
  <2> QED
    BY <2>1, <2>2, NowOK, TabStep DEF Inv
<1> QED
  BY <1>1, <1>2, <1>3, <1>4, <1>5, <1>6 DEF Next

(* The invariant of the screen, its saves and the cache they are made from  *)
(* (TodayPage, useTodayData, useSaveLog). *)
THEOREM TodayInvariant == Spec => []Inv
<1>1. Init => Inv
  BY InitInv
<1>2. Inv /\ [Next]_vars => Inv'
  BY NextInv
<1> QED
  BY <1>1, <1>2, PTL DEF Spec

(* What was typed or pressed in one sitting is never seen, taken over or    *)
(* sent in another, whoever has signed in or out in between (useSaveLog.ts, *)
(* TodayPage.tsx). *)
THEOREM OfTheSitterOnly == Spec => []OnlyTheSitterActs
<1>1. Inv => OnlyTheSitterActs
  BY DEF Inv, ScreenOK, PutsOK, PutOK, OnlyTheSitterActs
<1> QED
  BY <1>1, TodayInvariant, PTL

(* A saved amount is in the unit in which it was typed or pressed, and no   *)
(* day has two saves under way (useSaveLog.ts). *)
THEOREM SavedAsPressed == Spec => []SavesStandAsPressed
<1>1. Inv => SavesStandAsPressed
  BY DEF Inv, PutsOK, PutOK, SavesStandAsPressed
<1> QED
  BY <1>1, TodayInvariant, PTL
=============================================================================
