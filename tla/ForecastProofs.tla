--------------------------- MODULE ForecastProofs ---------------------------
(***************************************************************************)
(* Proofs about Forecast and the Engine it calls, for every calendar,      *)
(* goal, record, prior, draw and limit of the arithmetic.                  *)
(*                                                                         *)
(* The engine's loops are recursive functions here.  That each is what its *)
(* equation says is shown for every number of rounds from LeastNumber: a   *)
(* set of natural numbers that holds 0 and with every number the next one  *)
(* holds all of them (SetInduction).  From the equations follow sums,      *)
(* searches by halving, the number of a day in the calendar, rising        *)
(* factorials and reduced fractions.                                       *)
(*                                                                         *)
(* The invariant, ForecastInv, keeps the records on days of the calendar   *)
(* that have come, and an answer with the records it was computed from.    *)
(* What the answer says is then compared with a definition that knows      *)
(* nothing of the loops.  The days of the completion (paths against the    *)
(* closed form) are left to the model checker.                             *)
(***************************************************************************)
EXTENDS Forecast, FiniteSetTheorems, WellFoundedInduction, TLAPS

(* Induction over the natural numbers, for a set.                          *)
LEMMA SetInduction ==
  ASSUME NEW T, 0 \in T, \A n \in Nat : n \in T => n + 1 \in T
  PROVE  Nat \subseteq T
<1> DEFINE Out == {n \in Nat : n \notin T}
           R == OpToRel(<, Nat)
<1>1. \A x, y \in Nat : <<x, y>> \in R <=> x < y
  BY DEF OpToRel
<1>2. ASSUME Out # {} PROVE FALSE
  <2>1. IsWellFoundedOn(R, Nat)
    BY NatLessThanWellFounded
  <2> HIDE DEF R
  <2>2. Out \subseteq Nat
    OBVIOUS
  <2> HIDE DEF Out
  <2>3. PICK x \in Out : \A y \in Out : <<y, x>> \notin R
    BY <1>2, <2>1, <2>2, WFMin
  <2>4. x \in Nat /\ x \notin T
    BY <2>2, <2>3 DEF Out
  <2>5. x # 0 /\ x - 1 \in Nat
    BY <2>4
  <2>9. <<x - 1, x>> \in R
    <3>1. x - 1 < x
      BY <2>4
    <3> QED
      BY <1>1, <2>4, <2>5, <3>1
  <2>6. x - 1 \notin Out
    BY <2>3, <2>9
  <2>7. x - 1 \in T
    BY <2>5, <2>6 DEF Out
  <2>8. (x - 1) + 1 \in T
    BY <2>5, <2>7
  <2> QED
    BY <2>4, <2>8
<1> QED
  BY <1>2

(* A set of natural numbers has a least element.                           *)
LEMMA LeastNumber ==
  ASSUME NEW S, S \subseteq Nat, S # {}
  PROVE  \E x \in S : \A y \in S : x <= y
<1> DEFINE R == OpToRel(<, Nat)
<1>1. \A x, y \in Nat : <<x, y>> \in R <=> x < y
  BY DEF OpToRel
<1>2. IsWellFoundedOn(R, Nat)
  BY NatLessThanWellFounded
<1> HIDE DEF R
<1>3. PICK x \in S : \A y \in S : <<y, x>> \notin R
  BY <1>2, WFMin
<1>4. ASSUME NEW y \in S PROVE x <= y
  <2>1. x \in Nat /\ y \in Nat
    OBVIOUS
  <2>2. ~(y < x)
    BY <1>1, <1>3, <2>1
  <2> QED
    BY <2>1, <2>2
<1> QED
  BY <1>4

-----------------------------------------------------------------------------
(* Sums.                                                                   *)
IsSums(s, f, n) == s = [k \in 0 .. n |-> IF k = 0 THEN 0 ELSE s[k - 1] + f[k]]

(* The recursive sum is a function that exists.                            *)
LEMMA SumsExist == ASSUME NEW f PROVE \A n \in Nat : \E s : IsSums(s, f, n)
<1> DEFINE T == {n \in Nat : \E s : IsSums(s, f, n)}
<1>1. 0 \in T
  <2>1. IsSums([k \in 0 .. 0 |-> 0], f, 0)
    BY DEF IsSums
  <2> QED
    BY <2>1
<1>2. ASSUME NEW n \in Nat, n \in T PROVE n + 1 \in T
  <2>1. PICK s : IsSums(s, f, n)
    BY <1>2
  <2> DEFINE t == [k \in 0 .. n + 1 |-> IF k \in 0 .. n THEN s[k] ELSE s[n] + f[n + 1]]
  <2>2. DOMAIN s = 0 .. n /\ \A k \in 0 .. n : s[k] = IF k = 0 THEN 0 ELSE s[k - 1] + f[k]
    BY <2>1 DEF IsSums
  <2>3. \A k \in 0 .. n + 1 : t[k] = IF k = 0 THEN 0 ELSE t[k - 1] + f[k]
    <3> TAKE k \in 0 .. n + 1
    <3>1. CASE k = 0
      BY <2>2, <3>1
    <3>2. CASE k \in 1 .. n
      BY <2>2, <3>2
    <3>3. CASE k = n + 1
      BY <3>3
    <3> QED
      BY <3>1, <3>2, <3>3
  <2>4. t = [k \in 0 .. n + 1 |-> IF k = 0 THEN 0 ELSE t[k - 1] + f[k]]
    BY <2>3
  <2> HIDE DEF t
  <2>5. IsSums(t, f, n + 1)
    BY <2>4 DEF IsSums
  <2> QED
    BY <2>5
<1> HIDE DEF T
<1>3. Nat \subseteq T
  BY <1>1, <1>2, SetInduction
<1> QED
  BY <1>3 DEF T

(* Two sums of the same numbers agree as far as both go.                   *)
LEMMA SumsAgree ==
  ASSUME NEW f, NEW m \in Nat, NEW n \in Nat, NEW s, IsSums(s, f, m), NEW t, IsSums(t, f, n)
  PROVE  \A k \in Nat : k <= m /\ k <= n => s[k] = t[k]
<1> DEFINE T == {k \in Nat : k <= m /\ k <= n => s[k] = t[k]}
<1>1. /\ \A k \in 0 .. m : s[k] = IF k = 0 THEN 0 ELSE s[k - 1] + f[k]
      /\ \A k \in 0 .. n : t[k] = IF k = 0 THEN 0 ELSE t[k - 1] + f[k]
  BY DEF IsSums
<1>2. 0 \in T
  BY <1>1
<1>3. ASSUME NEW k \in Nat, k \in T PROVE k + 1 \in T
  <2>1. CASE k + 1 <= m /\ k + 1 <= n
    <3>1. s[k] = t[k]
      BY <1>3, <2>1
    <3>2. s[k + 1] = s[k] + f[k + 1] /\ t[k + 1] = t[k] + f[k + 1]
      BY <1>1, <2>1
    <3> QED
      BY <3>1, <3>2
  <2> QED
    BY <2>1
<1> HIDE DEF T
<1>4. Nat \subseteq T
  BY <1>2, <1>3, SetInduction
<1> QED
  BY <1>4 DEF T

(* SumTo, one number at a time.                                            *)
LEMMA SumSteps ==
  ASSUME NEW f
  PROVE  /\ SumTo(f, 0) = 0
         /\ \A n \in Nat : SumTo(f, n + 1) = SumTo(f, n) + f[n + 1]
<1> DEFINE S(n) == CHOOSE s : IsSums(s, f, n)
<1>1. \A n \in Nat : SumTo(f, n) = S(n)[n] /\ IsSums(S(n), f, n)
  <2> TAKE n \in Nat
  <2>1. SumTo(f, n) = S(n)[n]
    BY DEF SumTo, IsSums
  <2>2. \E s : IsSums(s, f, n)
    BY SumsExist
  <2> QED
    BY <2>1, <2>2
<1> HIDE DEF S
<1>2. SumTo(f, 0) = 0
  <2>1. S(0)[0] = 0
    BY <1>1 DEF IsSums
  <2> QED
    BY <1>1, <2>1
<1>3. ASSUME NEW n \in Nat PROVE SumTo(f, n + 1) = SumTo(f, n) + f[n + 1]
  <2>1. n + 1 \in Nat /\ n <= n + 1
    OBVIOUS
  <2>2. IsSums(S(n), f, n) /\ IsSums(S(n + 1), f, n + 1)
    BY <1>1, <2>1
  <2>3. S(n)[n] = S(n + 1)[n]
    BY <2>1, <2>2, SumsAgree
  <2>4. S(n + 1)[n + 1] = S(n + 1)[n] + f[n + 1]
    BY <2>2 DEF IsSums
  <2> QED
    BY <1>1, <2>1, <2>3, <2>4
<1> QED
  BY <1>2, <1>3

(* A sum of natural numbers is one.                                        *)
LEMMA SumTyped ==
  ASSUME NEW f, NEW n \in Nat, \A i \in 1 .. n : f[i] \in Nat
  PROVE  SumTo(f, n) \in Nat
<1> DEFINE T == {k \in Nat : k <= n => SumTo(f, k) \in Nat}
<1>1. 0 \in T
  BY SumSteps
<1>2. ASSUME NEW k \in Nat, k \in T PROVE k + 1 \in T
  <2>1. ASSUME k + 1 <= n PROVE SumTo(f, k + 1) \in Nat
    <3>1. SumTo(f, k) \in Nat /\ f[k + 1] \in Nat
      BY <1>2, <2>1
    <3>2. SumTo(f, k + 1) = SumTo(f, k) + f[k + 1]
      BY SumSteps
    <3> QED
      BY <3>1, <3>2
  <2> QED
    BY <2>1
<1> HIDE DEF T
<1>3. n \in T
  BY <1>1, <1>2, SetInduction
<1> QED
  BY <1>3 DEF T

(* A larger number at every place, a larger sum.                           *)
LEMMA SumMonotone ==
  ASSUME NEW f, NEW g, NEW n \in Nat,
         \A i \in 1 .. n : f[i] \in Nat /\ g[i] \in Nat /\ f[i] <= g[i]
  PROVE  SumTo(f, n) \in Nat /\ SumTo(g, n) \in Nat /\ SumTo(f, n) <= SumTo(g, n)
<1> DEFINE T == {k \in Nat : k <= n => SumTo(f, k) \in Nat /\ SumTo(g, k) \in Nat
                                       /\ SumTo(f, k) <= SumTo(g, k)}
<1>1. 0 \in T
  BY SumSteps
<1>2. ASSUME NEW k \in Nat, k \in T PROVE k + 1 \in T
  <2>1. ASSUME k + 1 <= n
        PROVE  SumTo(f, k + 1) \in Nat /\ SumTo(g, k + 1) \in Nat /\ SumTo(f, k + 1) <= SumTo(g, k + 1)
    <3>1. /\ SumTo(f, k) \in Nat /\ SumTo(g, k) \in Nat /\ SumTo(f, k) <= SumTo(g, k)
          /\ f[k + 1] \in Nat /\ g[k + 1] \in Nat /\ f[k + 1] <= g[k + 1]
      BY <1>2, <2>1
    <3>2. SumTo(f, k + 1) = SumTo(f, k) + f[k + 1] /\ SumTo(g, k + 1) = SumTo(g, k) + g[k + 1]
      BY SumSteps
    <3> QED
      BY <3>1, <3>2
  <2> QED
    BY <2>1
<1> HIDE DEF T
<1>3. n \in T
  BY <1>1, <1>2, SetInduction
<1> QED
  BY <1>3 DEF T

(* Equal numbers, equal sums.                                              *)
LEMMA SumSame ==
  ASSUME NEW f, NEW g, NEW n \in Nat, \A i \in 1 .. n : f[i] = g[i]
  PROVE  SumTo(f, n) = SumTo(g, n)
<1> DEFINE T == {k \in Nat : k <= n => SumTo(f, k) = SumTo(g, k)}
<1>1. 0 \in T
  BY SumSteps
<1>2. ASSUME NEW k \in Nat, k \in T PROVE k + 1 \in T
  <2>1. ASSUME k + 1 <= n PROVE SumTo(f, k + 1) = SumTo(g, k + 1)
    <3>1. SumTo(f, k) = SumTo(g, k) /\ f[k + 1] = g[k + 1]
      BY <1>2, <2>1
    <3>2. SumTo(f, k + 1) = SumTo(f, k) + f[k + 1] /\ SumTo(g, k + 1) = SumTo(g, k) + g[k + 1]
      BY SumSteps
    <3> QED
      BY <3>1, <3>2
  <2> QED
    BY <2>1
<1> HIDE DEF T
<1>3. n \in T
  BY <1>1, <1>2, SetInduction
<1> QED
  BY <1>3 DEF T

-----------------------------------------------------------------------------
(* Searches by halving.                                                    *)
Halved(reached, s) ==
  LET middle == (s.low + s.high) \div 2
      t == [s EXCEPT !.asked = @ \cup {middle}]
  IN  IF s.low < s.high
      THEN IF reached[middle] THEN [t EXCEPT !.high = middle] ELSE [t EXCEPT !.low = middle + 1]
      ELSE s

(* A search, step by step.                                                 *)
IsSearch(f, low, high, reached, n) ==
  f = [k \in 0 .. n |-> IF k = 0 THEN [low |-> low, high |-> high, asked |-> {}]
                        ELSE Halved(reached, f[k - 1])]

(* The search exists.                                                      *)
LEMMA SearchesExist ==
  ASSUME NEW low, NEW high, NEW reached
  PROVE  \A n \in Nat : \E f : IsSearch(f, low, high, reached, n)
<1> DEFINE T == {n \in Nat : \E f : IsSearch(f, low, high, reached, n)}
           first == [low |-> low, high |-> high, asked |-> {}]
           Step(s) == Halved(reached, s)
<1>0. \A f, n : IsSearch(f, low, high, reached, n) <=>
                   f = [k \in 0 .. n |-> IF k = 0 THEN first ELSE Step(f[k - 1])]
  BY DEF IsSearch
<1> HIDE DEF first, Step
<1>1. 0 \in T
  <2> DEFINE f == [k \in 0 .. 0 |-> first]
  <2>1. f = [k \in 0 .. 0 |-> IF k = 0 THEN first ELSE Step(f[k - 1])]
    OBVIOUS
  <2> QED
    BY <1>0, <2>1
<1>2. ASSUME NEW n \in Nat, n \in T PROVE n + 1 \in T
  <2>1. PICK f : IsSearch(f, low, high, reached, n)
    BY <1>2
  <2>2. DOMAIN f = 0 .. n /\ \A k \in 0 .. n : f[k] = IF k = 0 THEN first ELSE Step(f[k - 1])
    BY <1>0, <2>1
  <2> DEFINE g == [k \in 0 .. n + 1 |-> IF k \in 0 .. n THEN f[k] ELSE Step(f[n])]
  <2>3. \A k \in 0 .. n + 1 : g[k] = IF k = 0 THEN first ELSE Step(g[k - 1])
    <3> TAKE k \in 0 .. n + 1
    <3>1. CASE k = 0
      BY <2>2, <3>1
    <3>2. CASE k \in 1 .. n
      <4>1. g[k] = f[k] /\ g[k - 1] = f[k - 1] /\ f[k] = Step(f[k - 1]) /\ k # 0
        BY <2>2, <3>2
      <4> QED
        BY <4>1
    <3>3. CASE k = n + 1
      <4>1. g[k] = Step(f[n]) /\ g[k - 1] = f[n] /\ k # 0
        BY <3>3
      <4> QED
        BY <4>1
    <3> QED
      BY <3>1, <3>2, <3>3
  <2>4. g = [k \in 0 .. n + 1 |-> IF k = 0 THEN first ELSE Step(g[k - 1])]
    BY <2>3
  <2> HIDE DEF g
  <2> QED
    BY <1>0, <2>4
<1> HIDE DEF T
<1>3. Nat \subseteq T
  BY <1>1, <1>2, SetInduction
<1> QED
  BY <1>3 DEF T

(* One halving keeps what a search knows, and closes in by a day at least. *)
Within(low, high) == [low : low .. high, high : low .. high, asked : SUBSET Int]

LEMMA HalvedResult ==
  ASSUME NEW low \in Nat, NEW high \in Nat, NEW reached, NEW s \in Within(low, high),
         s.low < s.high
  PROVE  LET middle == (s.low + s.high) \div 2
         IN  /\ middle \in low .. high /\ s.low <= middle /\ middle < s.high
             /\ Halved(reached, s) \in Within(low, high)
             /\ reached[middle] => Halved(reached, s).low = s.low /\ Halved(reached, s).high = middle
             /\ ~reached[middle] => Halved(reached, s).low = middle + 1 /\ Halved(reached, s).high = s.high
<1> DEFINE middle == (s.low + s.high) \div 2
           c == [s EXCEPT !.asked = @ \cup {middle}]
           a == [c EXCEPT !.high = middle]
           b == [c EXCEPT !.low = middle + 1]
<1>1. s.low \in low .. high /\ s.high \in low .. high /\ s.asked \in SUBSET Int
  BY DEF Within
<1>2. middle \in low .. high /\ s.low <= middle /\ middle < s.high
  BY <1>1
<1>3. Halved(reached, s) = IF reached[middle] THEN a ELSE b
  BY DEF Halved
<1>4. s = [low |-> s.low, high |-> s.high, asked |-> s.asked]
  BY DEF Within
<1> HIDE DEF middle
<1>12. PICK x, y, z : s = [low |-> x, high |-> y, asked |-> z]
  BY <1>4
<1>13. s.low = x /\ s.high = y /\ s.asked = z
  BY <1>12
<1> DEFINE asked == s.asked \cup {middle}
<1>14. c = [s EXCEPT !.asked = asked]
  OBVIOUS
<1> HIDE DEF c, asked
<1>11. c = [low |-> x, high |-> y, asked |-> asked]
  BY <1>12, <1>14
<1> USE DEF asked
<1>5. a = [low |-> s.low, high |-> middle, asked |-> s.asked \cup {middle}]
  <2> HIDE DEF asked
  <2>1. a = [low |-> x, high |-> middle, asked |-> asked]
    BY <1>11
  <2> QED
    BY <2>1, <1>13 DEF asked
<1>6. b = [low |-> middle + 1, high |-> s.high, asked |-> s.asked \cup {middle}]
  <2> HIDE DEF asked
  <2>1. b = [low |-> middle + 1, high |-> y, asked |-> asked]
    BY <1>11
  <2> QED
    BY <2>1, <1>13 DEF asked
<1> HIDE DEF a, b
<1>7. middle + 1 \in low .. high /\ s.asked \cup {middle} \in SUBSET Int
  BY <1>1, <1>2
<1>8. a \in Within(low, high) /\ a.low = s.low /\ a.high = middle
  BY <1>1, <1>2, <1>5, <1>7 DEF Within
<1>9. b \in Within(low, high) /\ b.low = middle + 1 /\ b.high = s.high
  BY <1>1, <1>2, <1>6, <1>7 DEF Within
<1>10. /\ middle \in low .. high /\ s.low <= middle /\ middle < s.high
       /\ Halved(reached, s) \in Within(low, high)
       /\ reached[middle] => Halved(reached, s).low = s.low /\ Halved(reached, s).high = middle
       /\ ~reached[middle] => Halved(reached, s).low = middle + 1 /\ Halved(reached, s).high = s.high
  BY <1>2, <1>3, <1>8, <1>9
<1> QED
  BY <1>10 DEF middle

(* What a search finds, whatever is reached: a day within the limits that  *)
(* is reached when the last one is, and the day before it is not.          *)
LEMMA SearchFinds ==
  ASSUME NEW low \in Nat, NEW high \in Nat, low <= high, NEW reached
  PROVE  LET found == Bisect(low, high, reached).low
         IN  /\ found \in low .. high
             /\ reached[high] => reached[found]
             /\ found > low => ~reached[found - 1]
<1> DEFINE f == CHOOSE f : IsSearch(f, low, high, reached, high)
           first == [low |-> low, high |-> high, asked |-> {}]
           Step(s) == Halved(reached, s)
<1>1. Bisect(low, high, reached) = f[high]
  BY DEF Bisect, IsSearch, Halved
<1>2. IsSearch(f, low, high, reached, high)
  BY SearchesExist
<1> HIDE DEF f
<1>7. f = [k \in 0 .. high |-> IF k = 0 THEN first ELSE Step(f[k - 1])]
  BY <1>2 DEF IsSearch
<1>8. first \in Within(low, high) /\ first.low = low /\ first.high = high
  BY DEF Within
<1> HIDE DEF first, Step
<1>9. f[0] = first /\ \A k \in Nat : k + 1 <= high => f[k + 1] = Step(f[k])
  <2>1. 0 \in 0 .. high
    OBVIOUS
  <2>2. \A k \in Nat : k + 1 <= high => k + 1 \in 0 .. high /\ (k + 1) - 1 = k /\ k + 1 # 0
    OBVIOUS
  <2> QED
    BY <1>7, <2>1, <2>2
<1> DEFINE Good(s, k) ==
             /\ s.low <= s.high
             /\ s.high - s.low <= high - k \/ s.low = s.high
             /\ reached[high] => reached[s.high]
             /\ s.low > low => ~reached[s.low - 1]
           T == {k \in Nat : k <= high => f[k] \in Within(low, high) /\ Good(f[k], k)}
<1>3. 0 \in T
  BY <1>8, <1>9
<1>4. ASSUME NEW k \in Nat, k \in T PROVE k + 1 \in T
  <2> SUFFICES ASSUME k + 1 <= high PROVE f[k + 1] \in Within(low, high) /\ Good(f[k + 1], k + 1)
    OBVIOUS
  <2> DEFINE s == f[k]  t == f[k + 1]  middle == (s.low + s.high) \div 2
  <2>1. t = Step(s)
    BY <1>9
  <2>2. s \in Within(low, high) /\ Good(s, k)
    BY <1>4
  <2> HIDE DEF s, t
  <2>5. s.low \in low .. high /\ s.high \in low .. high
    BY <2>2 DEF Within
  <2>3. CASE ~(s.low < s.high)
    <3>1. t = s
      BY <2>1, <2>3 DEF Step, Halved
    <3>2. s.low = s.high
      BY <2>2, <2>3, <2>5
    <3>3. t \in Within(low, high) /\ Good(t, k + 1)
      BY <2>2, <3>1, <3>2
    <3> QED
      BY <3>3 DEF t
  <2>4. CASE s.low < s.high
    <3>1. /\ middle \in low .. high /\ s.low <= middle /\ middle < s.high
          /\ t \in Within(low, high)
          /\ reached[middle] => t.low = s.low /\ t.high = middle
          /\ ~reached[middle] => t.low = middle + 1 /\ t.high = s.high
      BY <2>1, <2>2, <2>4, HalvedResult DEF Step
    <3> HIDE DEF middle
    <3>4. Good(t, k + 1)
      <4>1. CASE reached[middle]
        <5>1. t.low = s.low /\ t.high = middle
          BY <3>1, <4>1
        <5>2. t.low <= t.high /\ t.high - t.low <= high - (k + 1)
          BY <2>2, <2>5, <3>1, <5>1, <2>4
        <5>3. (reached[high] => reached[t.high]) /\ (t.low > low => ~reached[t.low - 1])
          BY <2>2, <4>1, <5>1
        <5> QED
          BY <5>2, <5>3
      <4>2. CASE ~reached[middle]
        <5>1. t.low = middle + 1 /\ t.high = s.high /\ t.low - 1 = middle
          BY <3>1, <4>2
        <5>2. t.low <= t.high /\ t.high - t.low <= high - (k + 1)
          BY <2>2, <2>5, <3>1, <5>1, <2>4
        <5>3. (reached[high] => reached[t.high]) /\ (t.low > low => ~reached[t.low - 1])
          BY <2>2, <4>2, <5>1
        <5> QED
          BY <5>2, <5>3
      <4> QED
        BY <4>1, <4>2
    <3> QED
      BY <3>1, <3>4 DEF t
  <2> QED
    BY <2>3, <2>4
<1> HIDE DEF T
<1>5. high \in T
  BY <1>3, <1>4, SetInduction
<1>6. f[high].low \in low .. high /\ f[high].high = f[high].low
      /\ (reached[high] => reached[f[high].high]) /\ (f[high].low > low => ~reached[f[high].low - 1])
  <2>1. f[high] \in Within(low, high) /\ Good(f[high], high)
    BY <1>5 DEF T
  <2>2. f[high].low \in low .. high /\ f[high].high \in low .. high
    BY <2>1 DEF Within
  <2> QED
    BY <2>1, <2>2
<1> QED
  BY <1>1, <1>6

-----------------------------------------------------------------------------
(* A quantile: no day, or one.                                             *)
Quantiles == {{}} \cup {{d} : d \in Nat}

LEMMA MinOfOne == ASSUME NEW d \in Int PROVE Max({d}) = d
BY DEF Max

(* The least of a set of days.                                             *)
LEMMA LeastOf ==
  ASSUME NEW S, S \subseteq Nat, S # {}
  PROVE  Min(S) \in S /\ \A y \in S : Min(S) <= y
BY LeastNumber DEF Min

(* The closed form names one day or none.                                  *)
LEMMA IntegratedDays ==
  ASSUME NEW posterior, NEW start, NEW n \in 0 .. Horizon, NEW noise,
         NEW found \in IntegratedQuantiles(posterior, start, n, noise)
  PROVE  found.p50 \in Quantiles /\ found.p80 \in Quantiles
<1>1. Horizon \in Nat
  BY EngineAssumption
<1>2. ASSUME NEW reached PROVE Quantile(reached, Bisect(n, Horizon, reached)) \in Quantiles
  <2> DEFINE day == Bisect(n, Horizon, reached).low
  <2>1. day \in n .. Horizon
    BY <1>1, SearchFinds
  <2>2. day \in Nat
    BY <1>1, <2>1
  <2> QED
    BY <2>2 DEF Quantile, Quantiles
<1>3. ASSUME NEW cdf, NEW half, NEW most, NEW told \in Compared(n, cdf, half, most)
      PROVE  told.p50 \in Quantiles /\ told.p80 \in Quantiles
  <2> DEFINE x == Quantile(half, Bisect(n, Horizon, half))
             y == Quantile(most, Bisect(n, Horizon, most))
  <2>1. \E asked : told \in Checked(n, cdf, half, most, x, y, asked)
    BY DEF Compared, Searched
  <2>2. x \in Quantiles /\ y \in Quantiles
    BY <1>2
  <2> HIDE DEF x, y
  <2>3. told = [p50 |-> x, p80 |-> y]
    BY <2>1 DEF Checked
  <2> QED
    BY <2>2, <2>3
<1> QED
  BY <1>3 DEF IntegratedQuantiles, QuantilesOf

(* So do the drawn futures.                                                *)
LEMMA SampledDays ==
  ASSUME NEW start, NEW n, NEW samples
  PROVE  /\ SampledQuantiles(start, n, samples).p50 \in Quantiles
         /\ SampledQuantiles(start, n, samples).p80 \in Quantiles
<1>1. ASSUME NEW S, S \subseteq 1 .. Horizon
      PROVE  (IF S = {} THEN {} ELSE {Min(S)}) \in Quantiles
  <2>1. S \subseteq Nat
    BY <1>1, EngineAssumption
  <2>2. S # {} => Min(S) \in Nat
    BY <2>1, LeastOf
  <2> QED
    BY <2>2 DEF Quantiles
<1> DEFINE Day(S) == IF S = {} THEN {} ELSE {Min(S)}
           pmf == [i \in DOMAIN samples |-> CompletionPmf(start, n, samples[i].a, samples[i].b)]
           mixture(day) == MapThenSumSet(LAMBDA i : pmf[i][day] * Parts(Horizon - day), DOMAIN samples)
           cdf == [day \in 1 .. Horizon |-> MapThenSumSet(mixture, 1 .. day)]
           R(fifths) == {day \in 1 .. Horizon : 10 * cdf[day] >= fifths * Len(samples) * Parts(Horizon)}
<1>2. SampledQuantiles(start, n, samples) = [p50 |-> Day(R(5)), p80 |-> Day(R(8))]
  BY DEF SampledQuantiles
<1>3. R(5) \subseteq 1 .. Horizon /\ R(8) \subseteq 1 .. Horizon
  OBVIOUS
<1> HIDE DEF R
<1>4. Day(R(5)) \in Quantiles /\ Day(R(8)) \in Quantiles
  BY <1>1, <1>3
<1> HIDE DEF Day
<1> QED
  BY <1>2, <1>4

(* So does the forecast, whichever of the two answers.                     *)
LEMMA CompletionDays ==
  ASSUME NEW posterior, NEW start, NEW n \in Nat, NEW noise, NEW samples
  PROVE  /\ CompletionQuantiles(posterior, start, n, noise, samples).p50 \in Quantiles
         /\ CompletionQuantiles(posterior, start, n, noise, samples).p80 \in Quantiles
<1>1. Horizon \in Nat
  BY EngineAssumption
<1>2. {} \in Quantiles /\ {0} \in Quantiles
  BY DEF Quantiles
<1>3. ASSUME NEW closed, closed = {} \/ (n <= Horizon => closed = IntegratedQuantiles(posterior, start, n, noise)),
             closed # {}, n <= Horizon
      PROVE  (CHOOSE found \in closed : TRUE).p50 \in Quantiles /\ (CHOOSE found \in closed : TRUE).p80 \in Quantiles
  <2>1. n \in 0 .. Horizon
    BY <1>1, <1>3
  <2>2. (CHOOSE found \in closed : TRUE) \in IntegratedQuantiles(posterior, start, n, noise)
    BY <1>3
  <2> QED
    BY <2>1, <2>2, IntegratedDays
<1>4. \E closed, s : /\ closed = {} \/ closed = IntegratedQuantiles(posterior, start, n, noise)
                     /\ s = SampledQuantiles(start, n, samples)
                     /\ CompletionQuantiles(posterior, start, n, noise, samples) =
                          IF n = 0 THEN [method |-> "BOUNDARY", p50 |-> {0}, p80 |-> {0}]
                          ELSE IF n > Horizon THEN [method |-> "BOUNDARY", p50 |-> {}, p80 |-> {}]
                          ELSE IF closed # {}
                          THEN [method |-> "BETA_BINOMIAL", p50 |-> (CHOOSE found \in closed : TRUE).p50,
                                p80 |-> (CHOOSE found \in closed : TRUE).p80]
                          ELSE [method |-> "POSTERIOR_SAMPLING", p50 |-> s.p50, p80 |-> s.p80]
  <2> DEFINE A == IF \/ Horizon > MaxClosedHorizon
                     \/ \E s \in {posterior.a.alpha, posterior.a.beta,
                                  posterior.b.alpha, posterior.b.beta} : s > MaxClosedShape
                  THEN {} ELSE IntegratedQuantiles(posterior, start, n, noise)
             B == SampledQuantiles(start, n, samples)
  <2>1. A = {} \/ A = IntegratedQuantiles(posterior, start, n, noise)
    OBVIOUS
  <2>2. CompletionQuantiles(posterior, start, n, noise, samples) =
                          IF n = 0 THEN [method |-> "BOUNDARY", p50 |-> {0}, p80 |-> {0}]
                          ELSE IF n > Horizon THEN [method |-> "BOUNDARY", p50 |-> {}, p80 |-> {}]
                          ELSE IF A # {}
                          THEN [method |-> "BETA_BINOMIAL", p50 |-> (CHOOSE found \in A : TRUE).p50,
                                p80 |-> (CHOOSE found \in A : TRUE).p80]
                          ELSE [method |-> "POSTERIOR_SAMPLING", p50 |-> B.p50, p80 |-> B.p80]
    BY DEF CompletionQuantiles
  <2> HIDE DEF A, B
  <2> QED
    BY <2>1, <2>2 DEF B
<1>5. PICK closed, s :
                     /\ closed = {} \/ closed = IntegratedQuantiles(posterior, start, n, noise)
                     /\ s = SampledQuantiles(start, n, samples)
                     /\ CompletionQuantiles(posterior, start, n, noise, samples) =
                          IF n = 0 THEN [method |-> "BOUNDARY", p50 |-> {0}, p80 |-> {0}]
                          ELSE IF n > Horizon THEN [method |-> "BOUNDARY", p50 |-> {}, p80 |-> {}]
                          ELSE IF closed # {}
                          THEN [method |-> "BETA_BINOMIAL", p50 |-> (CHOOSE found \in closed : TRUE).p50,
                                p80 |-> (CHOOSE found \in closed : TRUE).p80]
                          ELSE [method |-> "POSTERIOR_SAMPLING", p50 |-> s.p50, p80 |-> s.p80]
  BY <1>4
<1>6. s.p50 \in Quantiles /\ s.p80 \in Quantiles
  BY <1>5, SampledDays
<1>7. CASE n = 0
  BY <1>2, <1>5, <1>7
<1>8. CASE n # 0 /\ n > Horizon
  BY <1>2, <1>5, <1>8
<1>9. CASE n # 0 /\ ~(n > Horizon) /\ closed # {}
  <2>1. n <= Horizon
    BY <1>1, <1>9
  <2> DEFINE c == CHOOSE found \in closed : TRUE
  <2>2. c.p50 \in Quantiles /\ c.p80 \in Quantiles
    BY <1>3, <1>5, <1>9, <2>1
  <2> HIDE DEF c
  <2>3. CompletionQuantiles(posterior, start, n, noise, samples) =
            [method |-> "BETA_BINOMIAL", p50 |-> c.p50, p80 |-> c.p80]
    BY <1>5, <1>9 DEF c
  <2> QED
    BY <2>2, <2>3
<1>10. CASE n # 0 /\ ~(n > Horizon) /\ closed = {}
  BY <1>5, <1>6, <1>10
<1> QED
  BY <1>7, <1>8, <1>9, <1>10

-----------------------------------------------------------------------------
(* The calendar.                                                           *)
LEMMA MonthDaysAreLengths ==
  ASSUME NEW y \in Nat, NEW m \in 1 .. 12
  PROVE  MonthDays(y)[m] = MonthLength(y, m)
<1> DEFINE leap == y % 4 = 0 /\ (y % 100 # 0 \/ y % 400 = 0)
<1>0. (y % 4 = 0 /\ y % 100 # 0) \/ y % 400 = 0 <=> leap
  OBVIOUS
<1>1. MonthDays(y) = <<31, IF leap THEN 29 ELSE 28, 31, 30, 31, 30, 31, 31, 30, 31, 30, 31>>
  BY DEF MonthDays
<1>2. MonthLength(y, m) = IF m = 2 THEN IF leap THEN 29 ELSE 28 ELSE IF m \in {4, 6, 9, 11} THEN 30 ELSE 31
  BY <1>0 DEF MonthLength
<1> HIDE DEF leap
<1>3. m \in {1, 2, 3, 4, 5, 6, 7, 8, 9, 10, 11, 12}
  OBVIOUS
<1> QED
  BY <1>1, <1>2, <1>3

(* The days before a year.                                                 *)
DaysBefore(y) == 365 * (y - 1) + (y - 1) \div 4 - (y - 1) \div 100 + (y - 1) \div 400

(* Ordinal counts a leap day when the calendar has one.                    *)
LEMMA LeapYears ==
  ASSUME NEW y \in Nat \ {0}
  PROVE  /\ DaysBefore(y) \in Int
         /\ DaysBefore(y + 1) = DaysBefore(y) + 337 + MonthLength(y, 2)
<1> DEFINE a == (y - 1) \div 4   b == (y - 1) \div 100  c == (y - 1) \div 400
<1>1. a \in Int /\ b \in Int /\ c \in Int
  OBVIOUS
<1>2. y \div 4 = a + (IF y % 4 = 0 THEN 1 ELSE 0)
  OBVIOUS
<1>3. y \div 100 = b + (IF y % 100 = 0 THEN 1 ELSE 0)
  OBVIOUS
<1>4. y \div 400 = c + (IF y % 400 = 0 THEN 1 ELSE 0)
  OBVIOUS
<1>5. (y % 400 = 0 => y % 100 = 0) /\ (y % 100 = 0 => y % 4 = 0)
  OBVIOUS
<1>6. (y + 1) - 1 = y
  OBVIOUS
<1>7. MonthLength(y, 2) = IF (y % 4 = 0 /\ y % 100 # 0) \/ y % 400 = 0 THEN 29 ELSE 28
  BY DEF MonthLength
<1>8. 365 * (y - 1) \in Int /\ 365 * y = 365 * (y - 1) + 365
  OBVIOUS
<1> HIDE DEF a, b, c
<1>9. 365 * y + y \div 4 - y \div 100 + y \div 400
      = 365 * (y - 1) + a - b + c + 337 + MonthLength(y, 2)
  BY <1>1, <1>2, <1>3, <1>4, <1>5, <1>7, <1>8
<1>10. 365 * (y - 1) + a - b + c \in Int
  BY <1>1, <1>8
<1> QED
  BY <1>6, <1>9, <1>10 DEF a, b, c, DaysBefore

(* The days before a month.                                                *)
LEMMA MonthsTyped ==
  ASSUME NEW y \in Nat, NEW m \in 0 .. 12
  PROVE  SumTo(MonthDays(y), m) \in Nat
<1>1. \A i \in 1 .. m : MonthDays(y)[i] \in Nat
  BY MonthDaysAreLengths DEF MonthLength
<1> QED
  BY <1>1, SumTyped

(* A year is as long as its months.                                        *)
LEMMA YearIsTheMonths ==
  ASSUME NEW y \in Nat
  PROVE  SumTo(MonthDays(y), 11) + 31 = 337 + MonthLength(y, 2)
<1> DEFINE f == MonthDays(y)  S(n) == SumTo(f, n)
<1>1. S(0) = 0
  BY SumSteps
<1>2. \A n \in 0 .. 10 : S(n + 1) = S(n) + f[n + 1]
  <2>1. \A n \in Nat : SumTo(f, n + 1) = SumTo(f, n) + f[n + 1]
    BY SumSteps
  <2> QED
    BY <2>1
<1>3. /\ f[1] = 31 /\ f[2] = MonthLength(y, 2) /\ f[3] = 31 /\ f[4] = 30 /\ f[5] = 31 /\ f[6] = 30
      /\ f[7] = 31 /\ f[8] = 31 /\ f[9] = 30 /\ f[10] = 31 /\ f[11] = 30
  BY MonthDaysAreLengths DEF MonthLength, MonthDays
<1>4. MonthLength(y, 2) \in Int
  BY DEF MonthLength
<1> HIDE DEF f, S
<1>5. S(1) = 31
  <2>1. S(0 + 1) = S(0) + f[0 + 1]
    BY <1>2
  <2> QED
    BY <1>1, <1>3, <2>1
<1>6. S(2) = 31 + MonthLength(y, 2)
  <2>1. S(1 + 1) = S(1) + f[1 + 1]
    BY <1>2
  <2> QED
    BY <1>5, <1>3, <2>1
<1>7. S(3) = 62 + MonthLength(y, 2)
  <2>1. S(2 + 1) = S(2) + f[2 + 1]
    BY <1>2
  <2> QED
    BY <1>6, <1>4, <1>3, <2>1
<1>8. S(4) = 92 + MonthLength(y, 2)
  <2>1. S(3 + 1) = S(3) + f[3 + 1]
    BY <1>2
  <2> QED
    BY <1>7, <1>4, <1>3, <2>1
<1>9. S(5) = 123 + MonthLength(y, 2)
  <2>1. S(4 + 1) = S(4) + f[4 + 1]
    BY <1>2
  <2> QED
    BY <1>8, <1>4, <1>3, <2>1
<1>10. S(6) = 153 + MonthLength(y, 2)
  <2>1. S(5 + 1) = S(5) + f[5 + 1]
    BY <1>2
  <2> QED
    BY <1>9, <1>4, <1>3, <2>1
<1>11. S(7) = 184 + MonthLength(y, 2)
  <2>1. S(6 + 1) = S(6) + f[6 + 1]
    BY <1>2
  <2> QED
    BY <1>10, <1>4, <1>3, <2>1
<1>12. S(8) = 215 + MonthLength(y, 2)
  <2>1. S(7 + 1) = S(7) + f[7 + 1]
    BY <1>2
  <2> QED
    BY <1>11, <1>4, <1>3, <2>1
<1>13. S(9) = 245 + MonthLength(y, 2)
  <2>1. S(8 + 1) = S(8) + f[8 + 1]
    BY <1>2
  <2> QED
    BY <1>12, <1>4, <1>3, <2>1
<1>14. S(10) = 276 + MonthLength(y, 2)
  <2>1. S(9 + 1) = S(9) + f[9 + 1]
    BY <1>2
  <2> QED
    BY <1>13, <1>4, <1>3, <2>1
<1>15. S(11) = 306 + MonthLength(y, 2)
  <2>1. S(10 + 1) = S(10) + f[10 + 1]
    BY <1>2
  <2> QED
    BY <1>14, <1>4, <1>3, <2>1
<1>16. S(11) + 31 = 337 + MonthLength(y, 2)
  BY <1>4, <1>15
<1> QED
  BY <1>16 DEF S, f

(* The day after has the next number, over the end of a month and of a year. *)
LEMMA OrdinalFollows ==
  ASSUME NEW date \in Dates, NEW next \in Dates, Follows(date, next)
  PROVE  Ordinal(date) \in Int /\ Ordinal(next) = Ordinal(date) + 1
<1> DEFINE y == date.y  m == date.m  d == date.d  S(z, k) == SumTo(MonthDays(z), k)
<1>1. y \in Nat \ {0} /\ m \in 1 .. 12 /\ d \in 1 .. 31 /\ y \in Nat
  BY DEF Dates
<1>2. DaysBefore(y) \in Int /\ DaysBefore(y + 1) = DaysBefore(y) + 337 + MonthLength(y, 2)
  <2> HIDE DEF y
  <2> QED
    BY <1>1, LeapYears
<1>3. S(y, m - 1) \in Nat
  <2>1. m - 1 \in 0 .. 12
    BY <1>1
  <2> HIDE DEF y, m
  <2> QED
    BY <1>1, <2>1, MonthsTyped
<1>4. \A e : Ordinal(e) = DaysBefore(e.y) + e.d + S(e.y, e.m - 1)
  BY DEF Ordinal, DaysBefore
<1>5. S(y, m) = S(y, m - 1) + MonthLength(y, m)
  <2>1. \A n \in Nat : S(y, n + 1) = S(y, n) + MonthDays(y)[n + 1]
    BY SumSteps
  <2>2. m - 1 \in Nat /\ (m - 1) + 1 = m
    BY <1>1
  <2> QED
    BY <1>1, <2>1, <2>2, MonthDaysAreLengths
<1>6. S(y, 11) + 31 = 337 + MonthLength(y, 2) /\ S(y + 1, 0) = 0 /\ S(y, 11) \in Nat
  <2>1. 11 \in 0 .. 12
    OBVIOUS
  <2> HIDE DEF y
  <2>2. S(y, 11) + 31 = 337 + MonthLength(y, 2)
    BY <1>1, YearIsTheMonths
  <2>3. S(y, 11) \in Nat
    BY <1>1, <2>1, MonthsTyped
  <2>4. S(y + 1, 0) = 0
    BY SumSteps
  <2> QED
    BY <2>2, <2>3, <2>4
<1>7. Follows(date, next) <=>
        \/ d # MonthLength(y, m) /\ next = [y |-> y, m |-> m, d |-> d + 1]
        \/ d = MonthLength(y, m) /\ m < 12 /\ next = [y |-> y, m |-> m + 1, d |-> 1]
        \/ d = MonthLength(y, m) /\ m = 12 /\ next = [y |-> y + 1, m |-> 1, d |-> 1]
  BY DEF Follows
<1>8. MonthLength(y, m) \in Int /\ MonthLength(y, 2) \in Int /\ MonthLength(y, 12) = 31
  BY DEF MonthLength
<1>9. Ordinal(date) = DaysBefore(y) + d + S(y, m - 1)
  BY <1>4
<1>10. Ordinal(date) \in Int
  <2> HIDE DEF y, m, d, S
  <2> QED
    BY <1>1, <1>2, <1>3, <1>9
<1>11. CASE d # MonthLength(y, m) /\ next = [y |-> y, m |-> m, d |-> d + 1]
  <2>1. Ordinal(next) = DaysBefore(y) + (d + 1) + S(y, m - 1)
    BY <1>4, <1>11
  <2> HIDE DEF y, m, d, S
  <2> QED
    BY <1>1, <1>2, <1>3, <1>9, <1>10, <2>1
<1>12. CASE d = MonthLength(y, m) /\ m < 12 /\ next = [y |-> y, m |-> m + 1, d |-> 1]
  <2>1. Ordinal(next) = DaysBefore(y) + 1 + S(y, (m + 1) - 1)
    BY <1>4, <1>12
  <2>2. (m + 1) - 1 = m
    BY <1>1
  <2> HIDE DEF y, m, d, S
  <2> QED
    BY <1>1, <1>2, <1>3, <1>5, <1>8, <1>9, <1>10, <1>12, <2>1, <2>2
<1>13. CASE d = MonthLength(y, m) /\ m = 12 /\ next = [y |-> y + 1, m |-> 1, d |-> 1]
  <2>1. Ordinal(next) = DaysBefore(y + 1) + 1 + S(y + 1, 1 - 1)
    BY <1>4, <1>13
  <2>2. 1 - 1 = 0 /\ m - 1 = 11
    BY <1>13
  <2>3. Ordinal(next) = DaysBefore(y + 1) + 1 + S(y + 1, 0)
    BY <2>1, <2>2
  <2>4. Ordinal(date) = DaysBefore(y) + 31 + S(y, 11)
    BY <1>8, <1>9, <1>13, <2>2
  <2> HIDE DEF y, m, d, S
  <2> QED
    BY <1>2, <1>6, <1>8, <1>10, <2>3, <2>4
<1> QED
  BY <1>7, <1>10, <1>11, <1>12, <1>13

(* The days of a calendar are numbered one after another.                  *)
LEMMA CalendarOrdinals ==
  ASSUME NEW c \in Calendars
  PROVE  /\ Len(c) \in Nat \ {0}
         /\ \A i \in 1 .. Len(c) : c[i] \in Dates
         /\ Ordinal(c[1]) \in Int
         /\ \A i \in 1 .. Len(c) : Ordinal(c[i]) = Ordinal(c[1]) + (i - 1)
<1> DEFINE base == Ordinal(c[1])
           T == {k \in Nat : k + 1 <= Len(c) => Ordinal(c[k + 1]) = base + k}
<1>1. c \in Seq(Dates) /\ Len(c) > 0 /\ \A i \in 1 .. Len(c) - 1 : Follows(c[i], c[i + 1])
  BY ForecastAssumption
<1>2. Len(c) \in Nat \ {0} /\ \A i \in 1 .. Len(c) : c[i] \in Dates
  BY <1>1
<1>3. base \in Int
  <2>1. 1 \in 1 .. Len(c)
    BY <1>2
  <2> DEFINE date == c[1]
  <2>2. date.y \in Nat \ {0} /\ date.m \in 1 .. 12 /\ date.d \in 1 .. 31 /\ date.y \in Nat
    BY <1>2, <2>1 DEF Dates
  <2>3. date.m - 1 \in 0 .. 12
    BY <2>2
  <2> HIDE DEF date
  <2>4. SumTo(MonthDays(date.y), date.m - 1) \in Nat
    BY <2>2, <2>3, MonthsTyped
  <2>5. DaysBefore(date.y) \in Int
    BY <2>2, LeapYears
  <2>6. Ordinal(date) = DaysBefore(date.y) + date.d + SumTo(MonthDays(date.y), date.m - 1)
    BY DEF Ordinal, DaysBefore
  <2>7. Ordinal(date) \in Int
    BY <2>2, <2>4, <2>5, <2>6
  <2> QED
    BY <2>7 DEF date
<1>4. 0 \in T
  <2>1. base + 0 = base /\ 0 + 1 = 1
    BY <1>3
  <2> QED
    BY <2>1
<1>5. ASSUME NEW k \in Nat, k \in T PROVE k + 1 \in T
  <2> SUFFICES ASSUME (k + 1) + 1 <= Len(c) PROVE Ordinal(c[(k + 1) + 1]) = base + (k + 1)
    OBVIOUS
  <2>1. Ordinal(c[k + 1]) = base + k
    BY <1>2, <1>5
  <2>2. k + 1 \in 1 .. Len(c) - 1 /\ k + 1 \in 1 .. Len(c) /\ (k + 1) + 1 \in 1 .. Len(c)
    BY <1>2
  <2>3. Follows(c[k + 1], c[(k + 1) + 1])
    BY <1>1, <2>2
  <2>4. Ordinal(c[(k + 1) + 1]) = Ordinal(c[k + 1]) + 1
    BY <1>2, <2>2, <2>3, OrdinalFollows
  <2> QED
    BY <1>3, <2>1, <2>4
<1> HIDE DEF T
<1>6. Nat \subseteq T
  BY <1>4, <1>5, SetInduction
<1>7. ASSUME NEW i \in 1 .. Len(c) PROVE Ordinal(c[i]) = base + (i - 1)
  <2>1. i - 1 \in T /\ (i - 1) + 1 = i /\ i <= Len(c)
    BY <1>2, <1>6
  <2> QED
    BY <2>1 DEF T
<1> QED
  BY <1>2, <1>3, <1>7

(* Different days have different dates.                                    *)
LEMMA DatesDiffer ==
  ASSUME NEW c \in Calendars, NEW i \in 1 .. Len(c), NEW j \in 1 .. Len(c), c[i] = c[j]
  PROVE  i = j
<1> DEFINE base == Ordinal(c[1])
<1>1. base \in Int /\ Ordinal(c[i]) = base + (i - 1) /\ Ordinal(c[j]) = base + (j - 1) /\ i \in Int /\ j \in Int
  BY CalendarOrdinals
<1> HIDE DEF base
<1> QED
  BY <1>1

-----------------------------------------------------------------------------
(* Places in an order.                                                     *)
LEMMA Ranks ==
  ASSUME NEW S, IsFiniteSet(S), NEW f \in [S -> Int], \A x, y \in S : f[x] = f[y] => x = y,
         NEW place, place = [x \in S |-> Cardinality({z \in S : f[z] <= f[x]})]
  PROVE  /\ Cardinality(S) \in Nat
         /\ \A x \in S : place[x] \in 1 .. Cardinality(S)
         /\ \A x, y \in S : f[x] < f[y] => place[x] < place[y]
         /\ \A i \in 1 .. Cardinality(S) : \E x \in S : place[x] = i
<1> DEFINE Upto(x) == {z \in S : f[z] <= f[x]}
           n == Cardinality(S)
<1>9. place = [x \in S |-> Cardinality(Upto(x))]
  OBVIOUS
<1>10. \A x \in S : place[x] = Cardinality(Upto(x))
  BY <1>9
<1>1. n \in Nat
  BY FS_CardinalityType
<1>2. \A x \in S : Upto(x) \subseteq S /\ x \in Upto(x) /\ IsFiniteSet(Upto(x)) /\ place[x] \in Nat
  <2> TAKE x \in S
  <2>1. Upto(x) \subseteq S /\ x \in Upto(x)
    OBVIOUS
  <2>2. IsFiniteSet(Upto(x))
    BY <2>1, FS_Subset
  <2> QED
    BY <1>10, <2>1, <2>2, FS_CardinalityType
<1>3. \A x \in S : place[x] \in 1 .. n
  <2> TAKE x \in S
  <2> DEFINE U == Upto(x)
  <2>3. U \subseteq S /\ x \in U /\ IsFiniteSet(U) /\ place[x] = Cardinality(U) /\ place[x] \in Nat
    BY <1>2, <1>10
  <2> HIDE DEF U
  <2>1. Cardinality(U) <= n
    BY <2>3, FS_Subset
  <2>2. Cardinality(U) # 0
    BY <2>3, FS_EmptySet
  <2> QED
    BY <1>1, <2>1, <2>2, <2>3
<1>4. \A x, y \in S : f[x] < f[y] => place[x] < place[y]
  <2> SUFFICES ASSUME NEW x \in S, NEW y \in S, f[x] < f[y] PROVE place[x] < place[y]
    OBVIOUS
  <2>0. f[x] \in Int /\ f[y] \in Int /\ \A z \in S : f[z] \in Int
    OBVIOUS
  <2>1. Upto(x) \subseteq Upto(y) /\ y \notin Upto(x)
    BY <2>0
  <2>2. y \in Upto(y) /\ IsFiniteSet(Upto(y))
    BY <1>2
  <2> HIDE DEF Upto
  <2>3. Cardinality(Upto(x)) <= Cardinality(Upto(y)) /\ Cardinality(Upto(x)) # Cardinality(Upto(y))
    BY <2>1, <2>2, FS_Subset
  <2>4. place[x] \in Nat /\ place[y] \in Nat /\ place[x] = Cardinality(Upto(x)) /\ place[y] = Cardinality(Upto(y))
    BY <1>2, <1>10
  <2> QED
    BY <2>3, <2>4
<1>5. place \in Injection(S, 1 .. n)
  <2>1. place \in [S -> 1 .. n]
    BY <1>3
  <2>2. \A x, y \in S : place[x] = place[y] => x = y
    <3> SUFFICES ASSUME NEW x \in S, NEW y \in S, place[x] = place[y], x # y PROVE FALSE
      OBVIOUS
    <3>1. f[x] \in Int /\ f[y] \in Int /\ f[x] # f[y]
      OBVIOUS
    <3>2. place[x] \in Nat /\ place[y] \in Nat
      BY <1>2
    <3>3. f[x] < f[y] \/ f[y] < f[x]
      BY <3>1
    <3> QED
      BY <1>4, <3>2, <3>3
  <2> QED
    BY <2>1, <2>2 DEF Injection, IsInjective
<1>6. IsFiniteSet(1 .. n) /\ Cardinality(1 .. n) = n
  BY <1>1, FS_Interval
<1>7. place \in Surjection(S, 1 .. n)
  BY <1>5, <1>6, FS_Injection
<1>8. \A i \in 1 .. n : \E x \in S : place[x] = i
  BY <1>7 DEF Surjection
<1> QED
  BY <1>1, <1>3, <1>4, <1>8

(* A log of days whose ordinals differ, sorted.                            *)
Datable(log) ==
  /\ IsFiniteSet(DOMAIN log)
  /\ \A x \in DOMAIN log : Ordinal(x) \in Int
  /\ \A x, y \in DOMAIN log : Ordinal(x) = Ordinal(y) => x = y

(* The records in the order of their days: each once, the earlier first.   *)
LEMMA SortedDaysAreRanked ==
  ASSUME NEW log, Datable(log)
  PROVE  LET s == SortedDays(log)
             n == Cardinality(DOMAIN log)
         IN  /\ n \in Nat /\ s \in [1 .. n -> DOMAIN log] /\ s \in Seq(DOMAIN log) /\ Len(s) = n
             /\ \A i, j \in 1 .. n : i < j => Ordinal(s[i]) < Ordinal(s[j])
             /\ \A x \in DOMAIN log : \E i \in 1 .. n : s[i] = x
<1> DEFINE S == DOMAIN log
           n == Cardinality(S)
           f == [x \in S |-> Ordinal(x)]
           Place(x) == Cardinality({z \in S : Ordinal(z) <= Ordinal(x)})
           s == SortedDays(log)
<1>0. IsFiniteSet(S) /\ f \in [S -> Int] /\ \A x, y \in S : f[x] = f[y] => x = y
  BY DEF Datable
<1>1. \A x \in S : {z \in S : f[z] <= f[x]} = {z \in S : Ordinal(z) <= Ordinal(x)}
  OBVIOUS
<1>2. /\ n \in Nat
      /\ \A x \in S : Place(x) \in 1 .. n
      /\ \A x, y \in S : Ordinal(x) < Ordinal(y) => Place(x) < Place(y)
      /\ \A i \in 1 .. n : \E x \in S : Place(x) = i
  <2> DEFINE place == [x \in S |-> Cardinality({z \in S : f[z] <= f[x]})]
  <2>4. \A x \in S : place[x] = Cardinality({z \in S : f[z] <= f[x]})
    OBVIOUS
  <2>5. place = [x \in S |-> Cardinality({z \in S : f[z] <= f[x]})]
    OBVIOUS
  <2> HIDE DEF place
  <2>1. /\ n \in Nat
        /\ \A x \in S : place[x] \in 1 .. n
        /\ \A x, y \in S : f[x] < f[y] => place[x] < place[y]
        /\ \A i \in 1 .. n : \E x \in S : place[x] = i
    <3> HIDE DEF S, f
    <3> QED
      BY <1>0, <2>5, Ranks
  <2>2. \A x \in S : place[x] = Place(x)
    BY <1>1, <2>4
  <2>3. \A x \in S : f[x] = Ordinal(x)
    OBVIOUS
  <2> HIDE DEF Place, f, n, S
  <2> QED
    BY <2>1, <2>2, <2>3
<1>3. s = [i \in 1 .. n |-> CHOOSE day \in S : Place(day) = i]
  BY DEF SortedDays
<1> HIDE DEF s, Place
<1>4. \A i \in 1 .. n : s[i] \in S /\ Place(s[i]) = i
  BY <1>2, <1>3
<1>5. s \in [1 .. n -> S]
  BY <1>3, <1>4
<1>6. s \in Seq(S) /\ Len(s) = n
  BY <1>2, <1>5
<1>7. \A i, j \in 1 .. n : i < j => Ordinal(s[i]) < Ordinal(s[j])
  <2> SUFFICES ASSUME NEW i \in 1 .. n, NEW j \in 1 .. n, i < j PROVE Ordinal(s[i]) < Ordinal(s[j])
    OBVIOUS
  <2>1. s[i] \in S /\ s[j] \in S /\ Place(s[i]) = i /\ Place(s[j]) = j
    BY <1>4
  <2>2. Ordinal(s[i]) \in Int /\ Ordinal(s[j]) \in Int
    BY <2>1 DEF Datable
  <2>3. Ordinal(s[i]) # Ordinal(s[j])
    <3>1. s[i] # s[j]
      BY <2>1
    <3> QED
      BY <2>1, <3>1 DEF Datable
  <2>4. ~(Ordinal(s[j]) < Ordinal(s[i]))
    BY <1>2, <2>1
  <2> QED
    BY <2>2, <2>3, <2>4
<1>8. \A x \in S : \E i \in 1 .. n : s[i] = x
  <2> SUFFICES ASSUME NEW x \in S PROVE s[Place(x)] = x /\ Place(x) \in 1 .. n
    OBVIOUS
  <2> DEFINE i == Place(x)
  <2>1. i \in 1 .. n
    BY <1>2
  <2>2. s[i] \in S /\ Place(s[i]) = i
    BY <1>4, <2>1
  <2>3. Ordinal(s[i]) \in Int /\ Ordinal(x) \in Int
    BY <2>2 DEF Datable
  <2>4. ~(Ordinal(s[i]) < Ordinal(x)) /\ ~(Ordinal(x) < Ordinal(s[i]))
    <3>1. i \in Int
      BY <2>1
    <3> HIDE DEF i
    <3> QED
      BY <1>2, <2>2, <3>1 DEF i
  <2>5. Ordinal(s[i]) = Ordinal(x)
    BY <2>3, <2>4
  <2> QED
    BY <2>1, <2>2, <2>5 DEF Datable
<1> QED
  BY <1>2, <1>5, <1>6, <1>7, <1>8 DEF s

-----------------------------------------------------------------------------
(* The invariant.                                                          *)
RecordsInv ==
  \A date \in DOMAIN records : /\ \E i \in 1 .. today : date = Date(i)
                               /\ records[date] \in SKIPPED .. MaxAmount

CardInv(day) ==
  /\ day \in 1 .. today
  /\ cards[day].remaining \in Int
  /\ cards[day].p50 \in Quantiles /\ cards[day].p80 \in Quantiles
  /\ cards[day].revision \in Nat /\ cards[day].revision <= settings.revision
  /\ cards[day].answerRevision \in Nat /\ cards[day].answerRevision <= answers.revision

CoreInv(told) ==
  \/ told.core = NoRecovery
  \/ /\ told.posterior.b.alpha \in Nat \ {0} /\ told.posterior.b.beta \in Nat \ {0}
     /\ told.posterior.b = [alpha |-> told.posterior.b.alpha, beta |-> told.posterior.b.beta]
     /\ told.core = Recovery(told.posterior.b.alpha, told.posterior.b.beta)

AnswerInv ==
  \A told \in answer : told.seen = Observe(settings, records, Date(today)) /\ CoreInv(told)

SettingsInv ==
  /\ settings \in [initial : Nat, total : Nat, session : Nat \ {0}, revision : Nat]
  /\ answers.revision \in Nat

ForecastInv ==
  /\ calendar \in Calendars
  /\ today \in 1 .. Len(calendar)
  /\ SettingsInv
  /\ RecordsInv
  /\ \A day \in DOMAIN cards : CardInv(day)
  /\ AnswerInv

(* What is recorded is recorded of a day of the calendar.                  *)
LEMMA DatesRecorded ==
  ASSUME ForecastInv
  PROVE  /\ Datable(records)
         /\ \A i, j \in 1 .. Len(calendar) : Date(i) = Date(j) => i = j
         /\ \A i \in 1 .. Len(calendar) : Ordinal(Date(i)) \in Int
         /\ \A i, j \in 1 .. Len(calendar) : Ordinal(Date(j)) - Ordinal(Date(i)) = j - i
<1> DEFINE n == Len(calendar)  base == Ordinal(calendar[1])
<1>0. calendar \in Calendars /\ today \in 1 .. n /\ n \in Nat
  BY CalendarOrdinals DEF ForecastInv
<1>1. base \in Int /\ \A i \in 1 .. n : Ordinal(Date(i)) = base + (i - 1)
  BY <1>0, CalendarOrdinals DEF Date
<1>2. \A i, j \in 1 .. n : Date(i) = Date(j) => i = j
  BY <1>0, DatesDiffer DEF Date
<1> HIDE DEF base
<1>3. \A i \in 1 .. n : Ordinal(Date(i)) \in Int
  BY <1>1
<1>4. \A i, j \in 1 .. n : Ordinal(Date(j)) - Ordinal(Date(i)) = j - i
  <2> SUFFICES ASSUME NEW i \in 1 .. n, NEW j \in 1 .. n PROVE Ordinal(Date(j)) - Ordinal(Date(i)) = j - i
    OBVIOUS
  <2>1. Ordinal(Date(i)) = base + (i - 1) /\ Ordinal(Date(j)) = base + (j - 1) /\ i \in Int /\ j \in Int
    BY <1>1
  <2> QED
    BY <1>1, <2>1
<1>5. \A x \in DOMAIN records : \E i \in 1 .. n : x = Date(i)
  <2>1. \A x \in DOMAIN records : \E i \in 1 .. today : x = Date(i)
    BY DEF ForecastInv, RecordsInv
  <2> QED
    BY <1>0, <2>1
<1>6. IsFiniteSet(DOMAIN records)
  <2> DEFINE f == [x \in DOMAIN records |-> CHOOSE i \in 1 .. n : x = Date(i)]
  <2>1. \A x \in DOMAIN records : f[x] \in 1 .. n /\ x = Date(f[x])
    BY <1>5
  <2>2. f \in Injection(DOMAIN records, 1 .. n)
    BY <2>1 DEF Injection, IsInjective
  <2>3. IsFiniteSet(1 .. n)
    BY <1>0, FS_Interval
  <2> QED
    BY <2>2, <2>3, FS_Injection
<1>7. \A x, y \in DOMAIN records : Ordinal(x) = Ordinal(y) => x = y
  <2> SUFFICES ASSUME NEW x \in DOMAIN records, NEW y \in DOMAIN records, Ordinal(x) = Ordinal(y) PROVE x = y
    OBVIOUS
  <2>1. PICK i \in 1 .. n : x = Date(i)
    BY <1>5
  <2>2. PICK j \in 1 .. n : y = Date(j)
    BY <1>5
  <2>3. Ordinal(Date(j)) - Ordinal(Date(i)) = 0 /\ i \in Int /\ j \in Int
    BY <1>3, <2>1, <2>2
  <2>4. i = j
    BY <1>4, <2>3
  <2> QED
    BY <2>1, <2>2, <2>4
<1> QED
  BY <1>2, <1>3, <1>4, <1>5, <1>6, <1>7 DEF Datable

(* What is done is a number.                                               *)
LEMMA DoneTyped ==
  ASSUME ForecastInv
  PROVE  Observe(settings, records, Date(today)).done \in Nat
<1> DEFINE s == SortedDays(records)  n == Cardinality(DOMAIN records)
           f == [i \in DOMAIN s |-> records[s[i]]]
<1>1. n \in Nat /\ s \in [1 .. n -> DOMAIN records] /\ Len(s) = n
  BY DatesRecorded, SortedDaysAreRanked
<1>2. \A x \in DOMAIN records : records[x] \in Nat
  BY ForecastAssumption DEF ForecastInv, RecordsInv, SKIPPED
<1>3. \A i \in 1 .. n : f[i] \in Nat
  BY <1>1, <1>2
<1>4. SumTo(f, Len(s)) \in Nat
  <2> HIDE DEF f, s
  <2> QED
    BY <1>1, <1>3, SumTyped
<1>5. Observe(settings, records, Date(today)).done = settings.initial + SumTo(f, Len(s))
  BY DEF Observe, Counted
<1>6. settings.initial \in Nat
  BY DEF ForecastInv, SettingsInv
<1> QED
  BY <1>4, <1>5, <1>6

(* So are the sessions that are left.                                      *)
LEMMA SessionsLeftTyped ==
  ASSUME NEW amount \in Int, NEW session \in Nat \ {0}
  PROVE  SessionsLeft(amount, session) \in Nat
<1>1. CASE amount <= 0
  BY <1>1 DEF SessionsLeft
<1>2. CASE amount > 0
  <2> DEFINE x == amount + session - 1
  <2>1. x \in Nat /\ x >= session
    BY <1>2
  <2> HIDE DEF x
  <2>2. x \div session \in Nat
    BY <2>1
  <2> QED
    BY <1>2, <2>2 DEF SessionsLeft, x
<1> QED
  BY <1>1, <1>2

(* So are the pairs, and the shapes made of them.                          *)
LEMMA PairsTyped ==
  ASSUME ForecastInv, NEW from, NEW to
  PROVE  NeighbourPairs(records, SortedDays(records), from, to) \in Nat
<1> DEFINE s == SortedDays(records)  n == Cardinality(DOMAIN records)
           A == {i \in 2 .. n : /\ Ordinal(s[i]) = Ordinal(s[i - 1]) + 1
                                /\ Status(records, s[i - 1]) = from /\ Status(records, s[i]) = to}
<1>1. n \in Nat /\ Len(s) = n
  BY DatesRecorded, SortedDaysAreRanked
<1>2. NeighbourPairs(records, s, from, to) = Cardinality(A)
  BY <1>1 DEF NeighbourPairs, Quantify
<1>3. IsFiniteSet(2 .. n) /\ A \subseteq 2 .. n
  BY <1>1, FS_Interval
<1> HIDE DEF A
<1>4. Cardinality(A) \in Nat
  BY <1>3, FS_Subset, FS_CardinalityType
<1> QED
  BY <1>2, <1>4 DEF s

(* The waiting time that is told is the one of the posterior.              *)
LEMMA CoreTyped ==
  ASSUME ForecastInv, NEW noise, NEW samples
  PROVE  CoreInv(Predict(settings, records, Date(today), answers, noise, samples))
<1> DEFINE seen == Observe(settings, records, Date(today))
           told == Predict(settings, records, Date(today), answers, noise, samples)
           prior == Prior(answers.b)
<1>1. told.core = NoRecovery \/ told.core = Recovery(told.posterior.b.alpha, told.posterior.b.beta)
  BY DEF Predict, Outlook, Described
<1>2. seen.SD \in Nat /\ seen.SS \in Nat
  BY PairsTyped DEF Observe, Counted
<1>3. prior.alpha \in Nat \ {0} /\ prior.beta \in Nat \ {0}
  BY EngineAssumption DEF Prior
<1>4. told.posterior.b = [alpha |-> prior.alpha + seen.SD, beta |-> prior.beta + seen.SS]
  BY DEF Predict, Outlook, Described, Posterior
<1> HIDE DEF seen, prior, told
<1>5. /\ told.posterior.b.alpha \in Nat \ {0} /\ told.posterior.b.beta \in Nat \ {0}
      /\ told.posterior.b = [alpha |-> told.posterior.b.alpha, beta |-> told.posterior.b.beta]
  BY <1>2, <1>3, <1>4
<1> QED
  BY <1>1, <1>5 DEF CoreInv, told

(* What is told of a goal: its forecast names one day or none.             *)
LEMMA ToldTyped ==
  ASSUME ForecastInv, NEW noise, NEW samples
  PROVE  LET told == Predict(settings, records, Date(today), answers, noise, samples)
         IN  /\ told.completion.p50 \in Quantiles /\ told.completion.p80 \in Quantiles
             /\ told.seen = Observe(settings, records, Date(today))
<1> DEFINE seen == Observe(settings, records, Date(today))
           plan == Scenario(settings, seen)
           told == Predict(settings, records, Date(today), answers, noise, samples)
<1>1. told.seen = seen
  BY DEF Predict, Outlook, Described
<1>2. seen.done \in Nat /\ settings.total \in Nat /\ settings.session \in Nat \ {0}
  BY DoneTyped DEF ForecastInv, SettingsInv
<1> HIDE DEF seen
<1>3. plan.n \in Nat
  <2> DEFINE assumed == IF seen.status = "UNRECORDED" THEN settings.session ELSE 0
             left == settings.total - seen.done - assumed
  <2>1. left \in Int
    BY <1>2
  <2>2. plan.n = SessionsLeft(left, settings.session)
    BY DEF Scenario
  <2> HIDE DEF left
  <2> QED
    BY <1>2, <2>1, <2>2, SessionsLeftTyped
<1>4. \E posterior, start : told.completion = NoDays
         \/ told.completion = CompletionQuantiles(posterior, start, plan.n, noise, samples)
  BY DEF Predict, Outlook, Described, seen
<1>5. NoDays.p50 \in Quantiles /\ NoDays.p80 \in Quantiles
  BY DEF NoDays, Quantiles
<1> HIDE DEF told, plan
<1>6. told.completion.p50 \in Quantiles /\ told.completion.p80 \in Quantiles
  BY <1>3, <1>4, <1>5, CompletionDays
<1> QED
  BY <1>1, <1>6 DEF told, seen

(* The invariant holds at first.                                           *)
LEMMA ForecastStarts == ForecastInit => ForecastInv
<1> SUFFICES ASSUME ForecastInit PROVE ForecastInv
  OBVIOUS
<1>1. calendar \in Calendars /\ today \in 1 .. Len(calendar)
  BY CalendarOrdinals DEF ForecastInit
<1>2. SettingsInv
  BY ForecastAssumption DEF ForecastInit, SettingsInv
<1>3. RecordsInv /\ AnswerInv /\ DOMAIN cards = {}
  BY DEF ForecastInit, RecordsInv, AnswerInv
<1> QED
  BY <1>1, <1>2, <1>3 DEF ForecastInv

(* Every step keeps it.                                                    *)
LEMMA ForecastKeeps == ForecastInv /\ [ForecastNext]_forecastVars => ForecastInv'
<1> SUFFICES ASSUME ForecastInv, [ForecastNext]_forecastVars PROVE ForecastInv'
  OBVIOUS
<1>0. /\ calendar \in Calendars /\ today \in 1 .. Len(calendar) /\ SettingsInv /\ RecordsInv
      /\ (\A day \in DOMAIN cards : CardInv(day)) /\ AnswerInv
      /\ Len(calendar) \in Nat /\ today \in Nat
  BY CalendarOrdinals DEF ForecastInv
<1>1. CASE NextDay
  <2>1. calendar' \in Calendars /\ today' \in 1 .. Len(calendar') /\ today' = today + 1
    BY <1>0, <1>1 DEF NextDay
  <2>2. SettingsInv' /\ AnswerInv'
    BY <1>0, <1>1 DEF NextDay, SettingsInv, AnswerInv
  <2>3. RecordsInv'
    <3>1. 1 .. today \subseteq 1 .. today'
      BY <1>0, <2>1
    <3> QED
      BY <1>0, <1>1, <3>1 DEF NextDay, RecordsInv, Date
  <2>4. \A day \in DOMAIN cards' : CardInv(day)'
    <3>1. 1 .. today \subseteq 1 .. today'
      BY <1>0, <2>1
    <3> QED
      BY <1>0, <1>1, <3>1 DEF NextDay, CardInv
  <2> QED
    BY <2>1, <2>2, <2>3, <2>4 DEF ForecastInv
<1>2. ASSUME NEW day \in 1 .. Len(calendar), NEW amount \in SKIPPED .. MaxAmount, Record(day, amount)
      PROVE  ForecastInv'
  <2>1. /\ day \in {today - 1, today} \ {0} /\ records' = With(records, Date(day), amount)
        /\ answer' = {} /\ UNCHANGED <<calendar, today, settings, answers, cards>>
    BY <1>2 DEF Record
  <2>2. SettingsInv' /\ AnswerInv' /\ \A d \in DOMAIN cards' : CardInv(d)'
    BY <1>0, <2>1 DEF SettingsInv, AnswerInv, CardInv
  <2>3. day \in 1 .. today
    BY <1>0, <2>1
  <2>4. RecordsInv'
    <3> SUFFICES ASSUME NEW date \in DOMAIN records'
                 PROVE  (\E i \in 1 .. today' : date = Date(i)') /\ records'[date] \in SKIPPED .. MaxAmount
      BY DEF RecordsInv
    <3>0. \A i : Date(i)' = Date(i)
      BY <2>1 DEF Date
    <3>1. CASE date = Date(day)
      <4>1. records'[date] = amount
        BY <2>1, <3>1 DEF With
      <4> QED
        BY <1>2, <2>1, <2>3, <3>0, <3>1, <4>1
    <3>2. CASE date # Date(day)
      <4>1. date \in DOMAIN records /\ records'[date] = records[date]
        BY <2>1, <3>2 DEF With
      <4> QED
        BY <1>0, <2>1, <3>0, <4>1 DEF RecordsInv
    <3> QED
      BY <3>1, <3>2
  <2> QED
    BY <1>0, <2>1, <2>2, <2>4 DEF ForecastInv
<1>3. ASSUME NEW total \in Totals, Edit(total) PROVE ForecastInv'
  <2>1. /\ settings' = [settings EXCEPT !.total = total, !.revision = @ + 1]
        /\ answer' = {} /\ UNCHANGED <<calendar, today, answers, records, cards>>
    BY <1>3 DEF Edit
  <2>2. settings' \in [initial : Nat, total : Nat, session : Nat \ {0}, revision : Nat]
    <3>1. settings.initial \in Nat /\ settings.session \in Nat \ {0} /\ settings.revision \in Nat
      BY <1>0 DEF SettingsInv
    <3>2. settings.revision + 1 \in Nat /\ total \in Nat
      BY <3>1, ForecastAssumption
    <3> DEFINE next == settings.revision + 1
    <3>3. settings' = [settings EXCEPT !.total = total, !.revision = next]
      BY <2>1
    <3> HIDE DEF next
    <3> QED
      BY <1>0, <3>2, <3>3 DEF SettingsInv, next
  <2>3. settings'.revision = settings.revision + 1
    BY <1>0, <2>1 DEF SettingsInv
  <2>4. \A d \in DOMAIN cards' : CardInv(d)'
    <3>1. settings.revision \in Nat
      BY <1>0 DEF SettingsInv
    <3> QED
      BY <1>0, <2>1, <2>3, <3>1 DEF CardInv
  <2>5. RecordsInv' /\ AnswerInv' /\ SettingsInv'
    BY <1>0, <2>1, <2>2 DEF RecordsInv, AnswerInv, SettingsInv, Date
  <2> QED
    BY <1>0, <2>1, <2>4, <2>5 DEF ForecastInv
<1>4. ASSUME NEW a \in Levels, NEW b \in Levels, Reanswer(a, b) PROVE ForecastInv'
  <2>1. /\ answers' = [a |-> a, b |-> b, revision |-> answers.revision + 1]
        /\ answer' = {} /\ UNCHANGED <<calendar, today, settings, records, cards>>
    BY <1>4 DEF Reanswer
  <2>2. answers.revision \in Nat /\ answers'.revision = answers.revision + 1
    BY <1>0, <2>1 DEF SettingsInv
  <2>3. \A d \in DOMAIN cards' : CardInv(d)'
    BY <1>0, <2>1, <2>2 DEF CardInv
  <2>4. RecordsInv' /\ AnswerInv' /\ SettingsInv'
    BY <1>0, <2>1, <2>2 DEF RecordsInv, AnswerInv, SettingsInv, Date
  <2> QED
    BY <1>0, <2>1, <2>3, <2>4 DEF ForecastInv
<1>5. ASSUME NEW noise \in Noises, NEW samples \in Draws, Ask(noise, samples) PROVE ForecastInv'
  <2> DEFINE told == Predict(settings, records, Date(today), answers, noise, samples)
  <2>1. /\ \E draws : answer' = {With(told, "draws", draws)}
        /\ UNCHANGED <<calendar, today, settings, answers, records, cards>>
    BY <1>5 DEF Ask
  <2>2. RecordsInv' /\ SettingsInv' /\ (\A d \in DOMAIN cards' : CardInv(d)')
    BY <1>0, <2>1 DEF RecordsInv, SettingsInv, CardInv, Date
  <2>3. AnswerInv'
    <3>1. PICK draws : answer' = {With(told, "draws", draws)}
      BY <2>1
    <3>2. told.seen = Observe(settings, records, Date(today))
      BY ToldTyped
    <3>3. {"seen", "core", "posterior"} \subseteq DOMAIN told
      BY DEF Predict, Outlook, Described
    <3>6. CoreInv(told)
      BY CoreTyped
    <3> HIDE DEF told
    <3>4. /\ With(told, "draws", draws).seen = told.seen
          /\ With(told, "draws", draws).core = told.core
          /\ With(told, "draws", draws).posterior = told.posterior
      BY <3>3 DEF With
    <3>5. Observe(settings, records, Date(today))' = Observe(settings, records, Date(today))
      BY <2>1 DEF Date
    <3>7. CoreInv(With(told, "draws", draws))
      BY <3>4, <3>6 DEF CoreInv
    <3> QED
      BY <3>1, <3>2, <3>4, <3>5, <3>7 DEF AnswerInv
  <2> QED
    BY <1>0, <2>1, <2>2, <2>3 DEF ForecastInv
<1>6. CASE Capture
  <2> DEFINE told == Now
  <2>1. /\ today \notin DOMAIN cards
        /\ \E card : /\ cards' = With(cards, today, card)
                     /\ card.remaining = settings.total - told.seen.done
                     /\ card.p50 = told.completion.p50 /\ card.p80 = told.completion.p80
                     /\ card.revision = settings.revision /\ card.answerRevision = answers.revision
        /\ answer' = {} /\ UNCHANGED <<calendar, today, settings, answers, records>>
    BY <1>6 DEF Capture
  <2>2. PICK card : /\ cards' = With(cards, today, card)
                    /\ card.remaining = settings.total - told.seen.done
                    /\ card.p50 = told.completion.p50 /\ card.p80 = told.completion.p80
                    /\ card.revision = settings.revision /\ card.answerRevision = answers.revision
    BY <2>1
  <2>3. told.completion.p50 \in Quantiles /\ told.completion.p80 \in Quantiles
    BY ToldTyped DEF Now
  <2>6. settings.total - told.seen.done \in Int
    <3>1. told.seen = Observe(settings, records, Date(today))
      BY ToldTyped DEF Now
    <3>2. told.seen.done \in Nat /\ settings.total \in Nat
      BY <1>0, <3>1, DoneTyped DEF SettingsInv
    <3> HIDE DEF told
    <3> QED
      BY <3>2
  <2> HIDE DEF told
  <2>4. \A d \in DOMAIN cards' : CardInv(d)'
    <3> SUFFICES ASSUME NEW d \in DOMAIN cards' PROVE CardInv(d)'
      OBVIOUS
    <3>0. settings.revision \in Nat /\ answers.revision \in Nat
      BY <1>0 DEF SettingsInv
    <3>1. CASE d = today
      <4>1. cards'[d] = card
        BY <2>2, <3>1 DEF With
      <4> QED
        BY <1>0, <2>1, <2>2, <2>3, <2>6, <3>0, <3>1, <4>1 DEF CardInv
    <3>2. CASE d # today
      <4>1. d \in DOMAIN cards /\ cards'[d] = cards[d]
        BY <2>2, <3>2 DEF With
      <4> QED
        BY <1>0, <2>1, <4>1 DEF CardInv
    <3> QED
      BY <3>1, <3>2
  <2>5. RecordsInv' /\ SettingsInv' /\ AnswerInv'
    BY <1>0, <2>1 DEF RecordsInv, SettingsInv, AnswerInv, Date
  <2> QED
    BY <1>0, <2>1, <2>4, <2>5 DEF ForecastInv
<1>7. CASE UNCHANGED forecastVars
  BY <1>0, <1>7 DEF forecastVars, ForecastInv, RecordsInv, SettingsInv, CardInv, AnswerInv, Date
<1> QED
  BY <1>1, <1>2, <1>3, <1>4, <1>5, <1>6, <1>7 DEF ForecastNext

(* The inductive invariant, for any calendar of days that follow each      *)
(* other, any goals, any amounts, draws and limits of the arithmetic: the  *)
(* settings and the records are what the program stores, each record of a  *)
(* day that has come; a card was captured under settings no newer than the *)
(* present ones and names one day or none; what is told of the goal        *)
(* (observations.ts, recovery-prediction.ts) is of the present records.    *)
THEOREM ForecastInvariant == ForecastSpec => []ForecastInv
BY ForecastStarts, ForecastKeeps, PTL DEF ForecastSpec

-----------------------------------------------------------------------------
(* What a verdict depends on.                                              *)
Known(anchor, q) == {d \in Window(anchor, q) : Date(d) \in DOMAIN records}
Amount(anchor, q) == SumTo(Gains(anchor, q), q)

(* The verdict, as a function of these.                                    *)
Judge(card, days, q, revisions, prefix, known, amount, anchor, now) ==
  IF revisions # <<card.revision, card.answerRevision>> THEN "CONTEXT_CHANGED"
  ELSE IF prefix # card.prefix THEN "INPUT_CORRECTED"
  ELSE IF days = {} THEN "NULL"
  ELSE IF q > ObservationDays THEN "OUTSIDE_HORIZON"
  ELSE IF now < anchor + q + 2 THEN "PENDING"
  ELSE IF amount >= card.remaining THEN "REACHED"
  ELSE IF known # anchor + 1 .. anchor + q THEN "UNKNOWN" ELSE "NOT_REACHED"

(* It is the verdict of the report.                                        *)
LEMMA JudgeNow ==
  ASSUME NEW anchor, NEW quantile, NEW card, card = cards[anchor], NEW q, q = Max(card[quantile])
  PROVE  QuantileState(anchor, quantile) =
           Judge(card, card[quantile], q, <<settings.revision, answers.revision>>, Prefix(anchor),
                 Known(anchor, q), Amount(anchor, q), anchor, today)
BY DEF QuantileState, Judge, Known, Amount, Window

(* So it is after a step.                                                  *)
LEMMA JudgeNext ==
  ASSUME NEW anchor, NEW quantile, NEW card, card = cards'[anchor], NEW q, q = Max(card[quantile])
  PROVE  QuantileState(anchor, quantile)' =
           Judge(card, card[quantile], q, <<settings'.revision, answers'.revision>>, Prefix(anchor)',
                 Known(anchor, q)', Amount(anchor, q)', anchor, today')
BY DEF QuantileState, Judge, Known, Amount, Window

(* A record of a later day changes nothing up to this one.                 *)
LEMMA LaterRecord ==
  ASSUME ForecastInv, UNCHANGED calendar, NEW day \in 1 .. Len(calendar), NEW amount,
         records' = With(records, Date(day), amount), NEW anchor \in Nat, anchor < day
  PROVE  /\ Prefix(anchor)' = Prefix(anchor)
         /\ \A q \in Nat : anchor + q < day => Known(anchor, q)' = Known(anchor, q)
                                               /\ Amount(anchor, q)' = Amount(anchor, q)
<1>0. /\ \A i : Date(i)' = Date(i)
      /\ \A i \in 1 .. Len(calendar) : Date(i) = Date(day) => i = day
      /\ Len(calendar) \in Nat
  BY DatesRecorded, CalendarOrdinals DEF Date, ForecastInv
<1>1. /\ DOMAIN records' = DOMAIN records \cup {Date(day)}
      /\ \A x \in DOMAIN records : x # Date(day) => records'[x] = records[x]
  BY DEF With
<1>2. \A i \in 1 .. Len(calendar) : i < day =>
         /\ Date(i) # Date(day)
         /\ Date(i) \in DOMAIN records' <=> Date(i) \in DOMAIN records
         /\ Date(i) \in DOMAIN records => records'[Date(i)] = records[Date(i)]
  BY <1>0, <1>1
<1>3. Prefix(anchor)' = Prefix(anchor)
  <2> DEFINE D == {d \in DOMAIN records : \E i \in 1 .. anchor : d = Date(i)}
             E == {d \in DOMAIN records' : \E i \in 1 .. anchor : d = Date(i)}
  <2>0. \A i \in 1 .. anchor : i \in 1 .. Len(calendar) /\ i < day
    BY <1>0
  <2>1. D = E
    BY <1>1, <1>2, <2>0
  <2>2. \A d \in D : records'[d] = records[d]
    BY <1>2, <2>0
  <2>3. Prefix(anchor) = [d \in D |-> records[d]] /\ Prefix(anchor)' = [d \in E |-> records'[d]]
    BY <1>0 DEF Prefix, Restrict
  <2> HIDE DEF D, E
  <2> QED
    BY <2>1, <2>2, <2>3
<1>4. ASSUME NEW q \in Nat, anchor + q < day
      PROVE  Known(anchor, q)' = Known(anchor, q) /\ Amount(anchor, q)' = Amount(anchor, q)
  <2>0. \A i \in 1 .. q : anchor + i \in 1 .. Len(calendar) /\ anchor + i < day
    BY <1>0, <1>4
  <2>1. \A d \in Window(anchor, q) : d \in 1 .. Len(calendar) /\ d < day
    BY <1>0, <1>4 DEF Window
  <2>2. Known(anchor, q)' = Known(anchor, q)
    BY <1>0, <1>2, <2>1 DEF Known, Window
  <2>3. Gains(anchor, q)' = Gains(anchor, q)
    <3>1. \A i \in 1 .. q : (IF Date(anchor + i) \in DOMAIN records' THEN records'[Date(anchor + i)] ELSE 0)
                            = (IF Date(anchor + i) \in DOMAIN records THEN records[Date(anchor + i)] ELSE 0)
      BY <1>2, <2>0
    <3> QED
      BY <1>0, <3>1 DEF Gains
  <2> QED
    BY <2>2, <2>3 DEF Amount
<1> QED
  BY <1>3, <1>4

(* No step takes a verdict back.                                           *)
LEMMA VerdictsStep ==
  ASSUME ForecastInv, [ForecastNext]_forecastVars,
         NEW anchor \in DOMAIN cards, NEW quantile \in {"p50", "p80"}
  PROVE  LET before == QuantileState(anchor, quantile)
             after == QuantileState(anchor, quantile)'
         IN  /\ before \in Judged => after \in {before, "CONTEXT_CHANGED"}
             /\ before = "CONTEXT_CHANGED" => after = before
             /\ before = "INPUT_CORRECTED" /\ today > anchor + 1 =>
                    after \in {before, "CONTEXT_CHANGED"}
<1> DEFINE before == QuantileState(anchor, quantile)
           after == QuantileState(anchor, quantile)'
           Stands == /\ before \in Judged => after \in {before, "CONTEXT_CHANGED"}
                     /\ before = "CONTEXT_CHANGED" => after = before
                     /\ before = "INPUT_CORRECTED" /\ today > anchor + 1 =>
                            after \in {before, "CONTEXT_CHANGED"}
<1> SUFFICES Stands
  OBVIOUS
<1>0. PICK card : card = cards[anchor]
  OBVIOUS
<1>1. PICK q : q = Max(card[quantile])
  OBVIOUS
<1>2. before = Judge(card, card[quantile], q, <<settings.revision, answers.revision>>, Prefix(anchor),
                     Known(anchor, q), Amount(anchor, q), anchor, today)
  BY <1>0, <1>1, JudgeNow
<1>3. cards'[anchor] = card =>
        after = Judge(card, card[quantile], q, <<settings'.revision, answers'.revision>>, Prefix(anchor)',
                      Known(anchor, q)', Amount(anchor, q)', anchor, today')
  BY <1>1, JudgeNext
<1>4. /\ anchor \in 1 .. today /\ today \in Nat /\ Len(calendar) \in Nat /\ today <= Len(calendar)
      /\ card[quantile] \in Quantiles
      /\ card.revision \in Nat /\ card.answerRevision \in Nat
      /\ card.revision <= settings.revision /\ card.answerRevision <= answers.revision
      /\ settings.revision \in Nat /\ answers.revision \in Nat
  BY <1>0, CalendarOrdinals DEF ForecastInv, CardInv, SettingsInv
<1>5. card[quantile] # {} => q \in Nat
  BY <1>1, <1>4, MinOfOne DEF Quantiles
<1> HIDE DEF before, after
<1>6. /\ before = "CONTEXT_CHANGED" <=> <<settings.revision, answers.revision>> # <<card.revision, card.answerRevision>>
      /\ before \in Judged => card[quantile] # {} /\ ~(today < anchor + q + 2)
  BY <1>2 DEF Judge, Judged
<1>7. UNCHANGED <<calendar, records>> =>
         /\ Prefix(anchor)' = Prefix(anchor)
         /\ Known(anchor, q)' = Known(anchor, q)
         /\ Amount(anchor, q)' = Amount(anchor, q)
  BY DEF Prefix, Known, Amount, Gains, Date
<1>8. CASE UNCHANGED <<calendar, today, settings, answers, records>> /\ cards'[anchor] = card
  <2>1. after = before
    BY <1>2, <1>3, <1>7, <1>8
  <2> QED
    BY <2>1
<1>9. CASE NextDay
  <2>1. UNCHANGED <<calendar, settings, answers, records>> /\ cards'[anchor] = card /\ today' = today + 1
    BY <1>0, <1>9 DEF NextDay
  <2>2. after = Judge(card, card[quantile], q, <<settings.revision, answers.revision>>, Prefix(anchor),
                     Known(anchor, q), Amount(anchor, q), anchor, today + 1)
    BY <1>3, <1>7, <2>1
  <2>3. ~(today < anchor + q + 2) /\ q \in Nat => ~(today + 1 < anchor + q + 2)
    BY <1>4
  <2>4. before \in Judged => after = before
    BY <1>2, <1>5, <1>6, <2>2, <2>3 DEF Judge
  <2>5. before \in {"CONTEXT_CHANGED", "INPUT_CORRECTED"} => after = before
    BY <1>2, <2>2 DEF Judge
  <2> QED
    BY <2>4, <2>5
<1>10. ASSUME NEW day \in 1 .. Len(calendar), NEW amount \in SKIPPED .. MaxAmount, Record(day, amount)
       PROVE  Stands
  <2>1. /\ day \in {today - 1, today} \ {0} /\ records' = With(records, Date(day), amount)
        /\ UNCHANGED <<calendar, today, settings, answers>> /\ cards'[anchor] = card
    BY <1>0, <1>10 DEF Record
  <2>2. anchor \in Nat
    BY <1>4
  <2>3. anchor < day => Prefix(anchor)' = Prefix(anchor)
    BY <2>1, <2>2, LaterRecord
  <2>4. before \in Judged => after = before
    <3>1. SUFFICES ASSUME before \in Judged PROVE after = before
      OBVIOUS
    <3>2. q \in Nat /\ today >= anchor + q + 2
      BY <1>4, <1>5, <1>6, <3>1
    <3>3. anchor + q < day /\ anchor < day
      BY <1>4, <2>1, <2>2, <3>2
    <3>4. /\ Prefix(anchor)' = Prefix(anchor) /\ Known(anchor, q)' = Known(anchor, q)
          /\ Amount(anchor, q)' = Amount(anchor, q)
      BY <2>1, <2>2, <3>2, <3>3, LaterRecord
    <3> QED
      BY <1>2, <1>3, <2>1, <3>4
  <2>5. before = "CONTEXT_CHANGED" => after = before
    BY <1>3, <1>6, <2>1 DEF Judge
  <2>6. before = "INPUT_CORRECTED" /\ today > anchor + 1 => after = before
    <3>1. SUFFICES ASSUME before = "INPUT_CORRECTED", today > anchor + 1 PROVE after = before
      OBVIOUS
    <3>2. anchor < day
      BY <1>4, <2>1, <2>2, <3>1
    <3> QED
      BY <1>2, <1>3, <2>1, <2>3, <3>1, <3>2 DEF Judge
  <2> QED
    BY <2>4, <2>5, <2>6
<1>11. ASSUME UNCHANGED <<calendar, records>>, cards'[anchor] = card,
              \/ settings'.revision = settings.revision + 1 /\ UNCHANGED answers
              \/ answers'.revision = answers.revision + 1 /\ UNCHANGED settings
       PROVE  Stands
  <2>1. <<settings'.revision, answers'.revision>> # <<card.revision, card.answerRevision>>
    <3>1. settings'.revision # card.revision \/ answers'.revision # card.answerRevision
      BY <1>4, <1>11
    <3> QED
      BY <3>1
  <2>2. after = "CONTEXT_CHANGED"
    BY <1>3, <1>11, <2>1 DEF Judge
  <2> QED
    BY <2>2
<1>12. ASSUME NEW total \in Totals, Edit(total) PROVE Stands
  <2>1. settings'.revision = settings.revision + 1
    <3>1. settings' = [settings EXCEPT !.total = total, !.revision = @ + 1]
      BY <1>12 DEF Edit
    <3> QED
      BY <3>1 DEF ForecastInv, SettingsInv
  <2>2. UNCHANGED <<calendar, records, answers>> /\ cards'[anchor] = card
    BY <1>0, <1>12 DEF Edit
  <2> HIDE DEF Stands
  <2> QED
    BY <1>11, <2>1, <2>2
<1>13. ASSUME NEW a \in Levels, NEW b \in Levels, Reanswer(a, b) PROVE Stands
  <2>1. answers'.revision = answers.revision + 1
    BY <1>13 DEF Reanswer
  <2>2. UNCHANGED <<calendar, records, settings>> /\ cards'[anchor] = card
    BY <1>0, <1>13 DEF Reanswer
  <2> HIDE DEF Stands
  <2> QED
    BY <1>11, <2>1, <2>2
<1>14. ASSUME NEW noise \in Noises, NEW samples \in Draws, Ask(noise, samples) PROVE Stands
  <2>1. UNCHANGED <<calendar, today, settings, answers, records>> /\ cards'[anchor] = card
    BY <1>0, <1>14 DEF Ask
  <2> QED
    BY <1>8, <2>1
<1>15. CASE Capture
  <2>1. /\ today \notin DOMAIN cards /\ \E c : cards' = With(cards, today, c)
        /\ UNCHANGED <<calendar, today, settings, answers, records>>
    BY <1>15 DEF Capture
  <2>2. PICK c : cards' = With(cards, today, c)
    BY <2>1
  <2>3. anchor # today
    BY <2>1
  <2>4. cards'[anchor] = card
    BY <1>0, <2>2, <2>3 DEF With
  <2> QED
    BY <1>8, <2>1, <2>4
<1>16. CASE UNCHANGED forecastVars
  <2>1. UNCHANGED <<calendar, today, settings, answers, records>> /\ cards'[anchor] = card
    BY <1>0, <1>16 DEF forecastVars
  <2> QED
    BY <1>8, <2>1
<1> QED
  BY <1>9, <1>10, <1>12, <1>13, <1>14, <1>15, <1>16 DEF ForecastNext

(* The report of the predictions takes no verdict back: once a captured    *)
(* forecast is due and judged, no later record, correction or capture      *)
(* changes the verdict; only the settings or the answers take it out.      *)
(* What was taken out stays out, by a correction of the inputs too, once   *)
(* the days that may still be corrected are past.                          *)
THEOREM ReportStands == ForecastSpec => VerdictsStand
<1> DEFINE Step == \A day \in DOMAIN cards, quantile \in {"p50", "p80"} :
          LET before == QuantileState(day, quantile)
              after == QuantileState(day, quantile)'
          IN  /\ before \in Judged => after \in {before, "CONTEXT_CHANGED"}
              /\ before = "CONTEXT_CHANGED" => after = before
              /\ before = "INPUT_CORRECTED" /\ today > day + 1 =>
                     after \in {before, "CONTEXT_CHANGED"}
<1>1. ForecastInv /\ [ForecastNext]_forecastVars => Step
  BY VerdictsStep
<1>2. VerdictsStand <=> [][Step]_forecastVars
  BY DEF VerdictsStand
<1> HIDE DEF Step
<1> QED
  BY <1>1, <1>2, ForecastInvariant, PTL DEF ForecastSpec

-----------------------------------------------------------------------------
(* The days up to today.                                                   *)
LEMMA DaysToToday ==
  ASSUME ForecastInv
  PROVE  /\ today \in Nat /\ today \in 1 .. today
         /\ \A i, j \in 1 .. today : Date(i) = Date(j) => i = j
         /\ \A i \in 1 .. today : Ordinal(Date(i)) \in Int
         /\ \A i, j \in 1 .. today : Ordinal(Date(j)) - Ordinal(Date(i)) = j - i
         /\ \A x \in DOMAIN records : \E i \in 1 .. today : x = Date(i)
<1>1. today \in 1 .. Len(calendar) /\ Len(calendar) \in Nat
  BY CalendarOrdinals DEF ForecastInv
<1>2. \A i \in 1 .. today : i \in 1 .. Len(calendar)
  BY <1>1
<1>3. \A x \in DOMAIN records : \E i \in 1 .. today : x = Date(i)
  BY DEF ForecastInv, RecordsInv
<1>4. \A i, j \in 1 .. today : Date(i) = Date(j) => i = j
  BY <1>2, DatesRecorded
<1>5. \A i \in 1 .. today : Ordinal(Date(i)) \in Int
  BY <1>2, DatesRecorded
<1>6. \A i, j \in 1 .. today : Ordinal(Date(j)) - Ordinal(Date(i)) = j - i
  BY <1>2, DatesRecorded
<1> QED
  BY <1>1, <1>3, <1>4, <1>5, <1>6

(* Pairs of neighbours among the records, and on the calendar.             *)
LEMMA PairsOnTheCalendar ==
  ASSUME ForecastInv, NEW from \in {"DONE", "SKIPPED"}, NEW to \in {"DONE", "SKIPPED"}
  PROVE  NeighbourPairs(records, SortedDays(records), from, to)
         = Cardinality({d \in 1 .. today - 1 : Status(records, Date(d)) = from
                                               /\ Status(records, Date(d + 1)) = to})
<1> DEFINE s == SortedDays(records)  n == Cardinality(DOMAIN records)
           A == {i \in 2 .. n : /\ Ordinal(s[i]) = Ordinal(s[i - 1]) + 1
                                /\ Status(records, s[i - 1]) = from /\ Status(records, s[i]) = to}
           B == {d \in 1 .. today - 1 : Status(records, Date(d)) = from /\ Status(records, Date(d + 1)) = to}
           f == [i \in A |-> CHOOSE d \in 1 .. today : s[i - 1] = Date(d)]
<1>1. /\ n \in Nat /\ s \in [1 .. n -> DOMAIN records] /\ Len(s) = n
      /\ \A i, j \in 1 .. n : i < j => Ordinal(s[i]) < Ordinal(s[j])
      /\ \A x \in DOMAIN records : \E i \in 1 .. n : s[i] = x
  BY DatesRecorded, SortedDaysAreRanked
<1>2. NeighbourPairs(records, s, from, to) = Cardinality(A)
  BY <1>1 DEF NeighbourPairs, Quantify
<1>3. /\ today \in Nat /\ today \in 1 .. today
      /\ \A i, j \in 1 .. today : Date(i) = Date(j) => i = j
      /\ \A i \in 1 .. today : Ordinal(Date(i)) \in Int
      /\ \A i, j \in 1 .. today : Ordinal(Date(j)) - Ordinal(Date(i)) = j - i
      /\ \A x \in DOMAIN records : \E i \in 1 .. today : x = Date(i)
  BY DaysToToday
<1> HIDE DEF s, n
<1>4. \A i \in A : /\ i \in 2 .. n /\ i - 1 \in 1 .. n /\ i \in 1 .. n
                   /\ f[i] \in 1 .. today - 1 /\ s[i - 1] = Date(f[i]) /\ s[i] = Date(f[i] + 1)
  <2> SUFFICES ASSUME NEW i \in A
               PROVE  /\ i \in 2 .. n /\ i - 1 \in 1 .. n /\ i \in 1 .. n
                      /\ f[i] \in 1 .. today - 1 /\ s[i - 1] = Date(f[i]) /\ s[i] = Date(f[i] + 1)
    OBVIOUS
  <2>1. i \in 2 .. n /\ i - 1 \in 1 .. n /\ i \in 1 .. n
    BY <1>1
  <2>2. s[i - 1] \in DOMAIN records /\ s[i] \in DOMAIN records
    BY <1>1, <2>1
  <2>3. f[i] \in 1 .. today /\ s[i - 1] = Date(f[i])
    BY <1>3, <2>2
  <2>4. PICK l \in 1 .. today : s[i] = Date(l)
    BY <1>3, <2>2
  <2> DEFINE k == f[i]
  <2>5. Ordinal(Date(l)) = Ordinal(Date(k)) + 1
    BY <2>3, <2>4
  <2> HIDE DEF k
  <2>6. l - k = 1 /\ k \in Int /\ l \in Int
    <3>1. k \in 1 .. today
      BY <2>3 DEF k
    <3>2. Ordinal(Date(k)) \in Int /\ Ordinal(Date(l)) - Ordinal(Date(k)) = l - k
      BY <1>3, <3>1
    <3> DEFINE x == Ordinal(Date(k))  y == Ordinal(Date(l))
    <3>3. x \in Int /\ y = x + 1 /\ y - x = l - k /\ k \in Int /\ l \in Int
      BY <2>5, <3>1, <3>2
    <3> HIDE DEF x, y
    <3> QED
      BY <3>3
  <2>7. l = k + 1
    BY <2>6
  <2>8. k \in 1 .. today - 1
    BY <1>3, <2>3, <2>7 DEF k
  <2> QED
    BY <2>1, <2>3, <2>4, <2>7, <2>8 DEF k
<1>5. f \in [A -> B]
  <2> SUFFICES ASSUME NEW i \in A PROVE f[i] \in B
    OBVIOUS
  <2>1. Status(records, s[i - 1]) = from /\ Status(records, s[i]) = to
    OBVIOUS
  <2> QED
    BY <1>4, <2>1
<1>6. \A i, j \in A : f[i] = f[j] => i = j
  <2> SUFFICES ASSUME NEW i \in A, NEW j \in A, f[i] = f[j] PROVE i = j
    OBVIOUS
  <2>1. s[i] = s[j] /\ i \in 1 .. n /\ j \in 1 .. n
    BY <1>4
  <2>2. Ordinal(s[i]) \in Int
    <3>1. f[i] + 1 \in 1 .. today
      <4>1. f[i] \in 1 .. today - 1
        BY <1>4
      <4> HIDE DEF f
      <4> QED
        BY <1>3, <4>1
    <3> QED
      BY <1>3, <1>4, <3>1
  <2>3. ~(i < j) /\ ~(j < i)
    <3> DEFINE x == Ordinal(s[i])
    <3>1. (i < j => x < x) /\ (j < i => x < x)
      BY <1>1, <2>1
    <3>2. x \in Int
      BY <2>2
    <3> HIDE DEF x
    <3> QED
      BY <3>1, <3>2
  <2> QED
    BY <1>1, <2>1, <2>3
<1>7. \A d \in B : \E i \in A : f[i] = d
  <2> SUFFICES ASSUME NEW d \in B PROVE \E i \in A : f[i] = d
    OBVIOUS
  <2>1. d \in 1 .. today /\ d + 1 \in 1 .. today /\ d \in Int
    BY <1>3
  <2>2. Date(d) \in DOMAIN records /\ Date(d + 1) \in DOMAIN records
    BY DEF Status
  <2>3. PICK j \in 1 .. n : s[j] = Date(d)
    BY <1>1, <2>2
  <2>4. PICK k \in 1 .. n : s[k] = Date(d + 1)
    BY <1>1, <2>2
  <2> DEFINE x == Ordinal(Date(d))  y == Ordinal(Date(d + 1))
  <2>5. x \in Int /\ y \in Int /\ y = x + 1
    <3>1. x \in Int /\ y \in Int /\ y - x = (d + 1) - d
      BY <1>3, <2>1
    <3> HIDE DEF x, y
    <3> QED
      BY <2>1, <3>1
  <2>6. Ordinal(s[j]) = x /\ Ordinal(s[k]) = y
    BY <2>3, <2>4
  <2> HIDE DEF x, y
  <2>7. j \in Int /\ k \in Int /\ j # k /\ ~(k < j)
    BY <1>1, <2>5, <2>6
  <2>8. ~(j + 1 < k)
    <3> SUFFICES ASSUME j + 1 < k PROVE FALSE
      OBVIOUS
    <3>1. j + 1 \in 1 .. n /\ j < j + 1
      BY <1>1, <2>7
    <3> DEFINE z == Ordinal(s[j + 1])
    <3>2. x < z /\ z < y
      BY <1>1, <2>6, <3>1
    <3>3. z \in Int
      <4>1. s[j + 1] \in DOMAIN records
        BY <1>1, <3>1
      <4> QED
        BY <1>3, <4>1
    <3> HIDE DEF z
    <3> QED
      BY <2>5, <3>2, <3>3
  <2>9. k = j + 1 /\ k \in 2 .. n /\ k - 1 = j
    BY <1>1, <2>7, <2>8
  <2>10. k \in A
    <3>1. Status(records, s[k - 1]) = from /\ Status(records, s[k]) = to
      BY <2>3, <2>4, <2>9
    <3>2. Ordinal(s[k]) = Ordinal(s[k - 1]) + 1
      BY <2>5, <2>6, <2>9
    <3> QED
      BY <2>9, <3>1, <3>2
  <2>11. f[k] = d
    <3>1. f[k] \in 1 .. today - 1 /\ s[k - 1] = Date(f[k])
      BY <1>4, <2>10
    <3>2. f[k] \in 1 .. today /\ Date(f[k]) = Date(d)
      BY <1>3, <2>3, <2>9, <3>1
    <3> HIDE DEF f
    <3> QED
      BY <1>3, <2>1, <3>2
  <2> QED
    BY <2>10, <2>11
<1>8. IsFiniteSet(A)
  <2>1. IsFiniteSet(2 .. n)
    BY <1>1, FS_Interval
  <2>2. A \subseteq 2 .. n
    OBVIOUS
  <2> QED
    BY <2>1, <2>2, FS_Subset
<1>9. ExistsBijection(A, B)
  <2> HIDE DEF A, B, f
  <2> QED
    BY <1>5, <1>6, <1>7 DEF ExistsBijection, Bijection, Injection, IsInjective, Surjection
<1>10. Cardinality(B) = Cardinality(A)
  <2> HIDE DEF A, B
  <2> QED
    BY <1>8, <1>9, FS_Bijection
<1> QED
  BY <1>2, <1>10 DEF s

(* The days of the window, between numbers and on the calendar.            *)
LEMMA WindowOnTheCalendar ==
  ASSUME ForecastInv, NEW day \in 1 .. today, Date(day) \in DOMAIN records,
         \A d \in 1 .. day - 1 : Date(d) \notin DOMAIN records
  PROVE  Observe(settings, records, Date(today)).observedDays
         = today - day + (IF Date(today) \in DOMAIN records THEN 1 ELSE 0)
<1> DEFINE s == SortedDays(records)  n == Cardinality(DOMAIN records)
<1>1. /\ n \in Nat /\ s \in [1 .. n -> DOMAIN records] /\ s \in Seq(DOMAIN records) /\ Len(s) = n
      /\ \A i, j \in 1 .. n : i < j => Ordinal(s[i]) < Ordinal(s[j])
      /\ \A x \in DOMAIN records : \E i \in 1 .. n : s[i] = x
  BY DatesRecorded, SortedDaysAreRanked
<1>2. /\ today \in Nat /\ today \in 1 .. today
      /\ \A i, j \in 1 .. today : Date(i) = Date(j) => i = j
      /\ \A i \in 1 .. today : Ordinal(Date(i)) \in Int
      /\ \A i, j \in 1 .. today : Ordinal(Date(j)) - Ordinal(Date(i)) = j - i
      /\ \A x \in DOMAIN records : \E i \in 1 .. today : x = Date(i)
  BY DaysToToday
<1>3. Observe(settings, records, Date(today)).observedDays
      = IF s = << >> THEN 0
        ELSE (Ordinal(Date(today)) - (IF Status(records, Date(today)) = "UNRECORDED" THEN 1 ELSE 0))
             - Ordinal(Head(s)) + 1
  BY DEF Observe, Counted
<1>4. Status(records, Date(today)) = "UNRECORDED" <=> Date(today) \notin DOMAIN records
  BY DEF Status
<1> HIDE DEF s, n
<1>5. PICK i \in 1 .. n : s[i] = Date(day)
  BY <1>1
<1>6. s # << >> /\ Head(s) = s[1] /\ 1 \in 1 .. n
  BY <1>1, <1>5
<1>7. PICK k \in 1 .. today : s[1] = Date(k)
  BY <1>1, <1>2, <1>6
<1>8. k = day
  <2>1. ~(k < day)
    <3>1. Date(k) \in DOMAIN records
      BY <1>1, <1>6, <1>7
    <3>2. k \in Int /\ day \in Int /\ k >= 1
      OBVIOUS
    <3> QED
      BY <3>1, <3>2
  <2>2. ~(day < k)
    <3> SUFFICES ASSUME day < k PROVE FALSE
      OBVIOUS
    <3>1. i # 1
      <4> SUFFICES ASSUME i = 1 PROVE FALSE
        OBVIOUS
      <4>1. Date(day) = Date(k)
        BY <1>5, <1>7
      <4> DEFINE x == Ordinal(Date(k))
      <4>2. x \in Int /\ x - x = k - day /\ k \in Int /\ day \in Int
        BY <1>2, <4>1
      <4> HIDE DEF x
      <4> QED
        BY <4>2
    <3>2. 1 < i
      BY <3>1
    <3> DEFINE x == Ordinal(Date(k))  y == Ordinal(Date(day))
    <3>3. x < y
      BY <1>1, <1>5, <1>6, <1>7, <3>2
    <3>5. x \in Int /\ y \in Int
      BY <1>2
    <3>6. y - x = day - k
      BY <1>2
    <3>4. k \in Int /\ day \in Int
      OBVIOUS
    <3> HIDE DEF x, y
    <3> QED
      BY <3>3, <3>4, <3>5, <3>6
  <2> QED
    BY <2>1, <2>2
<1> DEFINE x == Ordinal(Date(today))  y == Ordinal(Date(day))
<1>9. x \in Int /\ y \in Int /\ x - y = today - day /\ today \in 1 .. today
  BY <1>2
<1>10. Observe(settings, records, Date(today)).observedDays
       = (x - (IF Date(today) \notin DOMAIN records THEN 1 ELSE 0)) - y + 1
  BY <1>3, <1>4, <1>6, <1>7, <1>8
<1> HIDE DEF x, y
<1>11. CASE Date(today) \in DOMAIN records
  BY <1>2, <1>9, <1>10, <1>11
<1>12. CASE Date(today) \notin DOMAIN records
  BY <1>2, <1>9, <1>10, <1>12
<1> QED
  BY <1>11, <1>12

(* The counts are those of the calendar, in every state.                   *)
LEMMA CountsRight == ForecastInv => CountsFollowTheCalendar
<1> SUFFICES ASSUME ForecastInv, NEW told \in answer
             PROVE  LET Is(day, status) == Status(records, Date(day)) = status
                        Pairs(from, to) == Quantify(1 .. today - 1, LAMBDA d : Is(d, from) /\ Is(d + 1, to))
                        recorded == {d \in 1 .. today : ~Is(d, "UNRECORDED")}
                    IN  /\ told.seen.DD = Pairs("DONE", "DONE") /\ told.seen.DS = Pairs("DONE", "SKIPPED")
                        /\ told.seen.SD = Pairs("SKIPPED", "DONE") /\ told.seen.SS = Pairs("SKIPPED", "SKIPPED")
                        /\ recorded # {} => told.seen.observedDays = today - Min(recorded)
                                                + (IF today \in recorded THEN 1 ELSE 0)
  BY DEF CountsFollowTheCalendar
<1> DEFINE Pairs(from, to) == NeighbourPairs(records, SortedDays(records), from, to)
           Days(from, to) == Cardinality({d \in 1 .. today - 1 : Status(records, Date(d)) = from
                                               /\ Status(records, Date(d + 1)) = to})
           recorded == {d \in 1 .. today : ~(Status(records, Date(d)) = "UNRECORDED")}
           seen == Observe(settings, records, Date(today))
<1>1. told.seen = seen
  BY DEF ForecastInv, AnswerInv
<1>2. /\ seen.DD = Pairs("DONE", "DONE") /\ seen.DS = Pairs("DONE", "SKIPPED")
      /\ seen.SD = Pairs("SKIPPED", "DONE") /\ seen.SS = Pairs("SKIPPED", "SKIPPED")
  BY DEF Observe, Counted
<1>3. \A from, to \in {"DONE", "SKIPPED"} : Pairs(from, to) = Days(from, to)
  BY PairsOnTheCalendar
<1>4. recorded # {} => seen.observedDays = today - Min(recorded) + (IF today \in recorded THEN 1 ELSE 0)
  <2> SUFFICES ASSUME recorded # {}
               PROVE  seen.observedDays = today - Min(recorded) + (IF today \in recorded THEN 1 ELSE 0)
    OBVIOUS
  <2>1. today \in Nat /\ today \in 1 .. today
    BY CalendarOrdinals DEF ForecastInv
  <2>2. recorded = {d \in 1 .. today : Date(d) \in DOMAIN records}
    BY DEF Status
  <2>3. recorded \subseteq Nat
    BY <2>1
  <2> DEFINE day == Min(recorded)
  <2>4. day \in recorded /\ \A d \in recorded : day <= d
    <3> HIDE DEF recorded
    <3> QED
      BY <2>3, LeastOf
  <2> HIDE DEF day
  <2>5. day \in 1 .. today /\ Date(day) \in DOMAIN records
    BY <2>2, <2>4
  <2>6. \A d \in 1 .. day - 1 : Date(d) \notin DOMAIN records
    <3> SUFFICES ASSUME NEW d \in 1 .. day - 1, Date(d) \in DOMAIN records PROVE FALSE
      OBVIOUS
    <3>1. d \in 1 .. today /\ d < day /\ d \in Int /\ day \in Int
      BY <2>1, <2>5
    <3>2. d \in recorded
      BY <2>2, <3>1
    <3>3. day <= d
      BY <2>4, <3>2
    <3> QED
      BY <3>1, <3>3
  <2>7. seen.observedDays = today - day + (IF Date(today) \in DOMAIN records THEN 1 ELSE 0)
    BY <2>5, <2>6, WindowOnTheCalendar
  <2>8. today \in recorded <=> Date(today) \in DOMAIN records
    BY <2>1, <2>2
  <2> HIDE DEF recorded, seen
  <2> QED
    BY <2>7, <2>8 DEF day
<1> HIDE DEF seen, Pairs
<1> QED
  BY <1>1, <1>2, <1>3, <1>4 DEF Quantify

(* observations.ts counts what the calendar says: the pairs of neighbours  *)
(* and the length of the window are right over every month, leap day and   *)
(* year, for records made in any order.                                    *)
THEOREM CountsAreTheCalendars == ForecastSpec => []CountsFollowTheCalendar
BY ForecastInvariant, CountsRight, PTL

-----------------------------------------------------------------------------
(* The bounds of a report.                                                 *)
LEMMA ProductsOrdered ==
  ASSUME NEW a \in Nat, NEW b \in Nat, NEW m \in Nat, a <= b
  PROVE  a * m <= b * m
<1>1. PICK c \in Nat : b = a + c
  <2>1. b - a \in Nat /\ b = a + (b - a)
    OBVIOUS
  <2> QED
    BY <2>1
<1>2. b * m = a * m + c * m /\ c * m \in Nat /\ a * m \in Nat
  BY <1>1
<1> QED
  BY <1>2

(* Sets without a common element.                                          *)
LEMMA DisjointUnion ==
  ASSUME NEW S, NEW T, IsFiniteSet(S), IsFiniteSet(T), S \cap T = {}
  PROVE  IsFiniteSet(S \cup T) /\ Cardinality(S \cup T) = Cardinality(S) + Cardinality(T)
<1>1. IsFiniteSet(S \cup T) /\ Cardinality(S \cup T) = Cardinality(S) + Cardinality(T) - Cardinality(S \cap T)
  BY FS_Union
<1>2. Cardinality(S \cap T) = 0 /\ Cardinality(S) \in Nat /\ Cardinality(T) \in Nat
  BY FS_EmptySet, FS_CardinalityType
<1> QED
  BY <1>1, <1>2

(* What has arrived, known or filled in, of a forecast that was judged.    *)
LEMMA FilledSums ==
  ASSUME ForecastInv, NEW day \in DOMAIN cards, NEW q \in Nat, NEW filled,
         \A i \in 1 .. q : IF Date(day + i) \in DOMAIN records THEN filled[i] = records[Date(day + i)]
                           ELSE filled[i] \in Nat
  PROVE  /\ Amount(day, q) \in Nat /\ SumTo(filled, q) \in Nat /\ Amount(day, q) <= SumTo(filled, q)
         /\ Known(day, q) = Window(day, q) => Amount(day, q) = SumTo(filled, q)
<1>1. \A x \in DOMAIN records : records[x] \in Nat
  BY ForecastAssumption DEF ForecastInv, RecordsInv, SKIPPED
<1> DEFINE g == Gains(day, q)
<1>2. \A i \in 1 .. q : g[i] = IF Date(day + i) \in DOMAIN records THEN records[Date(day + i)] ELSE 0
  BY DEF Gains
<1>3. Amount(day, q) = SumTo(g, q)
  BY DEF Amount
<1> HIDE DEF g
<1>4. \A i \in 1 .. q : g[i] \in Nat /\ filled[i] \in Nat /\ g[i] <= filled[i]
  BY <1>1, <1>2
<1>5. /\ Amount(day, q) \in Nat /\ SumTo(filled, q) \in Nat /\ Amount(day, q) <= SumTo(filled, q)
  BY <1>3, <1>4, SumMonotone
<1>6. ASSUME Known(day, q) = Window(day, q) PROVE Amount(day, q) = SumTo(filled, q)
  <2>1. \A i \in 1 .. q : day + i \in Window(day, q)
    <3>1. day \in Int
      BY CalendarOrdinals DEF ForecastInv, CardInv
    <3> QED
      BY <3>1 DEF Window
  <2>2. \A i \in 1 .. q : Date(day + i) \in DOMAIN records
    BY <1>6, <2>1 DEF Known
  <2>3. \A i \in 1 .. q : g[i] = filled[i]
    BY <1>2, <2>2
  <2> QED
    BY <1>3, <2>3, SumSame
<1> QED
  BY <1>5, <1>6

(* So many of so many lie between the bounds of a report.                  *)
Bracketed(bounds, arrived, judged) == /\ bounds.lower * judged <= arrived * bounds.mature
                                      /\ arrived * bounds.mature <= bounds.upper * judged

(* The share that arrived, by any filling, between the bounds.             *)
LEMMA Bounded ==
  ASSUME ForecastInv, NEW quantile \in {"p50", "p80"},
         NEW judged, judged = {d \in DOMAIN cards : QuantileState(d, quantile) \in Judged},
         NEW arrived, arrived \subseteq judged,
         NEW filled, NEW q,
         \A d \in judged : /\ q[d] = Max(cards[d][quantile])
                           /\ d \in arrived <=> SumTo(filled[d], q[d]) >= cards[d].remaining
                           /\ \A i \in 1 .. q[d] : IF Date(d + i) \in DOMAIN records
                                                   THEN filled[d][i] = records[Date(d + i)]
                                                   ELSE filled[d][i] \in Nat
  PROVE  Bracketed(Coverage(quantile), Cardinality(arrived), Cardinality(judged))
<1> DEFINE In(state) == {d \in DOMAIN cards : QuantileState(d, quantile) = state}
           R == In("REACHED")  N == In("NOT_REACHED")  U == In("UNKNOWN")
<1>1. Coverage(quantile) = [mature |-> Cardinality(R) + Cardinality(N) + Cardinality(U),
                            lower |-> Cardinality(R), upper |-> Cardinality(R) + Cardinality(U)]
  BY DEF Coverage, Quantify
<1>2. judged = R \cup N \cup U /\ R \cap N = {} /\ R \cap U = {} /\ N \cap U = {}
  BY DEF Judged
<1>3. IsFiniteSet(DOMAIN cards)
  <2>1. today \in Nat /\ DOMAIN cards \subseteq 1 .. today
    BY DaysToToday DEF ForecastInv, CardInv
  <2>2. IsFiniteSet(1 .. today)
    BY <2>1, FS_Interval
  <2> QED
    BY <2>1, <2>2, FS_Subset
<1>4. R \subseteq DOMAIN cards /\ N \subseteq DOMAIN cards /\ U \subseteq DOMAIN cards
  OBVIOUS
<1>5. \A d \in judged : /\ cards[d].remaining \in Int
                        /\ q[d] \in Nat
                        /\ d \in R => Amount(d, q[d]) >= cards[d].remaining
                        /\ d \in N => Amount(d, q[d]) < cards[d].remaining /\ Known(d, q[d]) = Window(d, q[d])
  <2> SUFFICES ASSUME NEW d \in judged
               PROVE  /\ cards[d].remaining \in Int
                      /\ q[d] \in Nat
                      /\ d \in R => Amount(d, q[d]) >= cards[d].remaining
                      /\ d \in N => Amount(d, q[d]) < cards[d].remaining /\ Known(d, q[d]) = Window(d, q[d])
    OBVIOUS
  <2>0. PICK card : card = cards[d]
    OBVIOUS
  <2>1. QuantileState(d, quantile) =
           Judge(card, card[quantile], q[d], <<settings.revision, answers.revision>>, Prefix(d),
                 Known(d, q[d]), Amount(d, q[d]), d, today)
    BY <2>0, JudgeNow
  <2>2. card.remaining \in Int /\ card[quantile] \in Quantiles
    BY <2>0 DEF ForecastInv, CardInv
  <2>3. card[quantile] # {}
    BY <2>1 DEF Judge, Judged
  <2>4. q[d] \in Nat
    BY <2>0, <2>2, <2>3, MinOfOne DEF Quantiles
  <2>5. d \in R => Amount(d, q[d]) >= card.remaining
    BY <2>1 DEF Judge
  <2>6. d \in N => ~(Amount(d, q[d]) >= card.remaining) /\ Known(d, q[d]) = Window(d, q[d])
    BY <2>1 DEF Judge, Window
  <2>7. Amount(d, q[d]) \in Nat
    BY <2>4, FilledSums
  <2> HIDE DEF R, N
  <2> QED
    BY <2>0, <2>2, <2>4, <2>5, <2>6, <2>7
<1> HIDE DEF R, N, U
<1>6. \A d \in judged : /\ Amount(d, q[d]) \in Nat /\ SumTo(filled[d], q[d]) \in Nat
                        /\ Amount(d, q[d]) <= SumTo(filled[d], q[d])
                        /\ Known(d, q[d]) = Window(d, q[d]) => Amount(d, q[d]) = SumTo(filled[d], q[d])
  BY <1>5, FilledSums
<1>7. R \subseteq arrived
  BY <1>2, <1>5, <1>6
<1>8. arrived \subseteq R \cup U
  BY <1>2, <1>5, <1>6
<1>9. /\ IsFiniteSet(R) /\ IsFiniteSet(N) /\ IsFiniteSet(U)
      /\ Cardinality(R) \in Nat /\ Cardinality(N) \in Nat /\ Cardinality(U) \in Nat
  BY <1>3, <1>4, FS_Subset, FS_CardinalityType
<1>10. Cardinality(R \cup U) = Cardinality(R) + Cardinality(U) /\ IsFiniteSet(R \cup U)
  BY <1>2, <1>9, DisjointUnion
<1>11. Cardinality(judged) = Cardinality(R) + Cardinality(N) + Cardinality(U)
  <2>1. judged = (R \cup U) \cup N /\ (R \cup U) \cap N = {}
    BY <1>2
  <2>2. Cardinality(judged) = Cardinality(R \cup U) + Cardinality(N)
    BY <1>9, <1>10, <2>1, DisjointUnion
  <2> QED
    BY <1>9, <1>10, <2>2
<1>12. /\ Cardinality(arrived) \in Nat /\ Cardinality(R) <= Cardinality(arrived)
       /\ Cardinality(arrived) <= Cardinality(R) + Cardinality(U)
  <2>1. IsFiniteSet(arrived) /\ Cardinality(arrived) <= Cardinality(R \cup U)
    BY <1>8, <1>10, FS_Subset
  <2>2. Cardinality(R) <= Cardinality(arrived) /\ Cardinality(arrived) \in Nat
    BY <1>7, <2>1, FS_Subset, FS_CardinalityType
  <2> QED
    BY <1>10, <2>1, <2>2
<1> DEFINE m == Cardinality(judged)
<1>13. m \in Nat /\ Coverage(quantile).mature = m /\ Coverage(quantile).lower = Cardinality(R)
       /\ Coverage(quantile).upper = Cardinality(R) + Cardinality(U)
  BY <1>1, <1>9, <1>11
<1> HIDE DEF m
<1>14. Cardinality(R) * m <= Cardinality(arrived) * m
  BY <1>9, <1>12, <1>13, ProductsOrdered
<1>15. Cardinality(arrived) * m <= (Cardinality(R) + Cardinality(U)) * m
  <2>1. Cardinality(R) + Cardinality(U) \in Nat
    BY <1>9
  <2> QED
    BY <1>12, <1>13, <2>1, ProductsOrdered
<1> QED
  BY <1>13, <1>14, <1>15 DEF m, Bracketed

(* The bounds hold in every state.                                         *)
LEMMA CoverageBrackets == ForecastInv => CoverageBracketsTheTruth
<1> SUFFICES ASSUME ForecastInv, NEW quantile \in {"p50", "p80"}
             PROVE  LET judged == {d \in DOMAIN cards : QuantileState(d, quantile) \in Judged}
                        bounds == Coverage(quantile)
                        Length(d) == Max(cards[d][quantile])
                        gaps == {i \in UNION {Window(d, Length(d)) : d \in judged} : Date(i) \notin DOMAIN records}
                        Filled(d, fill) == [i \in 1 .. Length(d) |->
                                               IF d + i \in gaps THEN fill[d + i] ELSE records[Date(d + i)]]
                        Arrived(d, fill) == SumTo(Filled(d, fill), Length(d)) >= cards[d].remaining
                    IN  judged # {} => \A fill \in [gaps -> SKIPPED .. MaxAmount] :
                            LET arrived == Quantify(judged, LAMBDA d : Arrived(d, fill))
                            IN  bounds.lower * Cardinality(judged) <= arrived * bounds.mature
                                /\ arrived * bounds.mature <= bounds.upper * Cardinality(judged)
  BY DEF CoverageBracketsTheTruth
<1> DEFINE judged == {d \in DOMAIN cards : QuantileState(d, quantile) \in Judged}
           Length(d) == Max(cards[d][quantile])
           gaps == {i \in UNION {Window(d, Length(d)) : d \in judged} : Date(i) \notin DOMAIN records}
           Filled(d, fill) == [i \in 1 .. Length(d) |->
                                   IF d + i \in gaps THEN fill[d + i] ELSE records[Date(d + i)]]
           Arrived(d, fill) == SumTo(Filled(d, fill), Length(d)) >= cards[d].remaining
<1>1. ASSUME NEW fill \in [gaps -> SKIPPED .. MaxAmount]
      PROVE  LET arrived == {d \in judged : Arrived(d, fill)}
             IN  Bracketed(Coverage(quantile), Cardinality(arrived), Cardinality(judged))
  <2> DEFINE arrived == {d \in judged : Arrived(d, fill)}
             q == [d \in judged |-> Length(d)]
             filled == [d \in judged |-> Filled(d, fill)]
  <2>1. \A d \in judged : /\ q[d] = Max(cards[d][quantile])
                          /\ d \in arrived <=> SumTo(filled[d], q[d]) >= cards[d].remaining
    OBVIOUS
  <2>2. \A d \in judged : \A i \in 1 .. q[d] : IF Date(d + i) \in DOMAIN records
                                               THEN filled[d][i] = records[Date(d + i)]
                                               ELSE filled[d][i] \in Nat
    <3> SUFFICES ASSUME NEW d \in judged, NEW i \in 1 .. q[d]
                 PROVE  IF Date(d + i) \in DOMAIN records
                        THEN filled[d][i] = records[Date(d + i)]
                        ELSE filled[d][i] \in Nat
      OBVIOUS
    <3>1. d \in Int
      BY DaysToToday DEF ForecastInv, CardInv
    <3>2. i \in 1 .. Length(d)
      OBVIOUS
    <3>3. filled[d][i] = IF d + i \in gaps THEN fill[d + i] ELSE records[Date(d + i)]
      BY <3>2
    <3>4. CASE Date(d + i) \in DOMAIN records
      <4>1. d + i \notin gaps
        BY <3>4
      <4> QED
        BY <3>3, <3>4, <4>1
    <3>5. CASE Date(d + i) \notin DOMAIN records
      <4>1. Length(d) \in Int
        <5>1. cards[d][quantile] \in Quantiles
          BY DEF ForecastInv, CardInv
        <5>2. cards[d][quantile] # {}
          BY JudgeNow DEF Judge, Judged
        <5> QED
          BY <5>1, <5>2, MinOfOne DEF Quantiles
      <4>2. d + i \in Window(d, Length(d))
        <5> HIDE DEF Length
        <5> QED
          BY <3>1, <3>2, <4>1 DEF Window
      <4>3. d + i \in gaps
        BY <3>5, <4>2
      <4>4. fill[d + i] \in SKIPPED .. MaxAmount
        <5> HIDE DEF gaps
        <5> QED
          BY <4>3
      <4>5. fill[d + i] \in Nat
        BY <4>4, ForecastAssumption DEF SKIPPED
      <4> HIDE DEF filled, gaps
      <4> QED
        BY <3>3, <3>5, <4>3, <4>5
    <3> QED
      BY <3>4, <3>5
  <2>3. arrived \subseteq judged /\ judged = {d \in DOMAIN cards : QuantileState(d, quantile) \in Judged}
    OBVIOUS
  <2> HIDE DEF q, filled, arrived, judged
  <2>4. \A d \in judged : /\ q[d] = Max(cards[d][quantile])
                          /\ d \in arrived <=> SumTo(filled[d], q[d]) >= cards[d].remaining
                          /\ \A i \in 1 .. q[d] : IF Date(d + i) \in DOMAIN records
                                                  THEN filled[d][i] = records[Date(d + i)]
                                                  ELSE filled[d][i] \in Nat
    BY <2>1, <2>2
  <2>5. Bracketed(Coverage(quantile), Cardinality(arrived), Cardinality(judged))
    BY <2>3, <2>4, Bounded, Zenon
  <2> QED
    BY <2>5 DEF arrived
<1> QED
  BY <1>1 DEF Quantify, Bracketed

(* countQuantiles brackets the truth: whatever happened on the days nobody *)
(* recorded, the share of the forecasts that arrived lies between lower    *)
(* and upper, for any number of forecasts and days.                        *)
THEOREM CoverageHolds == ForecastSpec => []CoverageBracketsTheTruth
BY ForecastInvariant, CoverageBrackets, PTL

-----------------------------------------------------------------------------
(* Rising factorials.                                                      *)
IsRising(s, x, n) == s = [k \in 0 .. n |-> IF k = 0 THEN 1 ELSE s[k - 1] * (x + k - 1)]

(* The product exists.                                                     *)
LEMMA RisingsExist == ASSUME NEW x PROVE \A n \in Nat : \E s : IsRising(s, x, n)
<1> DEFINE T == {n \in Nat : \E s : IsRising(s, x, n)}
           Step(k, v) == v * (x + k - 1)
<1>0. \A s, n : IsRising(s, x, n) <=> s = [k \in 0 .. n |-> IF k = 0 THEN 1 ELSE Step(k, s[k - 1])]
  BY DEF IsRising
<1> HIDE DEF Step
<1>1. 0 \in T
  <2> DEFINE s == [k \in 0 .. 0 |-> 1]
  <2>1. s = [k \in 0 .. 0 |-> IF k = 0 THEN 1 ELSE Step(k, s[k - 1])]
    OBVIOUS
  <2> QED
    BY <1>0, <2>1
<1>2. ASSUME NEW n \in Nat, n \in T PROVE n + 1 \in T
  <2>1. PICK s : IsRising(s, x, n)
    BY <1>2
  <2>2. DOMAIN s = 0 .. n /\ \A k \in 0 .. n : s[k] = IF k = 0 THEN 1 ELSE Step(k, s[k - 1])
    BY <1>0, <2>1
  <2> DEFINE t == [k \in 0 .. n + 1 |-> IF k \in 0 .. n THEN s[k] ELSE Step(n + 1, s[n])]
  <2>3. \A k \in 0 .. n + 1 : t[k] = IF k = 0 THEN 1 ELSE Step(k, t[k - 1])
    <3> TAKE k \in 0 .. n + 1
    <3>1. CASE k = 0
      BY <2>2, <3>1
    <3>2. CASE k \in 1 .. n
      <4>1. t[k] = s[k] /\ t[k - 1] = s[k - 1] /\ s[k] = Step(k, s[k - 1]) /\ k # 0
        BY <2>2, <3>2
      <4> QED
        BY <4>1
    <3>3. CASE k = n + 1
      <4>1. t[k] = Step(n + 1, s[n]) /\ t[k - 1] = s[n] /\ k # 0
        BY <3>3
      <4> QED
        BY <3>3, <4>1
    <3> QED
      BY <3>1, <3>2, <3>3
  <2>4. t = [k \in 0 .. n + 1 |-> IF k = 0 THEN 1 ELSE Step(k, t[k - 1])]
    BY <2>3
  <2> HIDE DEF t
  <2>5. IsRising(t, x, n + 1)
    BY <1>0, <2>4
  <2> QED
    BY <2>5
<1> HIDE DEF T
<1>3. Nat \subseteq T
  BY <1>1, <1>2, SetInduction
<1> QED
  BY <1>3 DEF T

(* Two products agree as far as both go.                                   *)
LEMMA RisingsAgree ==
  ASSUME NEW x, NEW n \in Nat, NEW s, IsRising(s, x, n), NEW t, IsRising(t, x, n + 1)
  PROVE  \A k \in Nat : k <= n => s[k] = t[k]
<1> DEFINE T == {k \in Nat : k <= n => s[k] = t[k]}
           Step(k, v) == v * (x + k - 1)
<1>1. /\ \A k \in 0 .. n : s[k] = IF k = 0 THEN 1 ELSE Step(k, s[k - 1])
      /\ \A k \in 0 .. n + 1 : t[k] = IF k = 0 THEN 1 ELSE Step(k, t[k - 1])
  BY DEF IsRising
<1> HIDE DEF Step
<1>2. 0 \in T
  BY <1>1
<1>3. ASSUME NEW k \in Nat, k \in T PROVE k + 1 \in T
  <2> SUFFICES ASSUME k + 1 <= n PROVE s[k + 1] = t[k + 1]
    OBVIOUS
  <2>1. s[k] = t[k]
    BY <1>3
  <2>2. k + 1 \in 0 .. n /\ k + 1 \in 0 .. n + 1 /\ k + 1 # 0 /\ (k + 1) - 1 = k
    OBVIOUS
  <2>3. s[k + 1] = Step(k + 1, s[k]) /\ t[k + 1] = Step(k + 1, t[k])
    BY <1>1, <2>2
  <2> QED
    BY <2>1, <2>3
<1> HIDE DEF T
<1>4. Nat \subseteq T
  BY <1>2, <1>3, SetInduction
<1> QED
  BY <1>4 DEF T

(* One factor more.                                                        *)
LEMMA RisingSteps ==
  ASSUME NEW x \in Nat \ {0}
  PROVE  /\ Rising(x, 0) = 1
         /\ \A n \in Nat : Rising(x, n + 1) = Rising(x, n) * (x + n)
<1> DEFINE S(n) == CHOOSE s : IsRising(s, x, n)
<1>1. \A n \in Nat : Rising(x, n) = S(n)[n] /\ IsRising(S(n), x, n)
  <2> TAKE n \in Nat
  <2>1. Rising(x, n) = S(n)[n]
    BY DEF Rising, IsRising
  <2>2. \E s : IsRising(s, x, n)
    BY RisingsExist
  <2> QED
    BY <2>1, <2>2
<1> HIDE DEF S
<1>2. Rising(x, 0) = 1
  <2>1. S(0)[0] = 1
    BY <1>1 DEF IsRising
  <2> QED
    BY <1>1, <2>1
<1>3. ASSUME NEW n \in Nat PROVE Rising(x, n + 1) = Rising(x, n) * (x + n)
  <2>1. n + 1 \in Nat /\ n <= n
    OBVIOUS
  <2>2. IsRising(S(n), x, n) /\ IsRising(S(n + 1), x, n + 1)
    BY <1>1, <2>1
  <2>3. S(n)[n] = S(n + 1)[n]
    BY <2>1, <2>2, RisingsAgree
  <2>4. S(n + 1)[n + 1] = S(n + 1)[n] * (x + (n + 1) - 1)
    <3>1. n + 1 \in 0 .. n + 1 /\ n + 1 # 0 /\ (n + 1) - 1 = n
      OBVIOUS
    <3> DEFINE t == S(n + 1)
    <3>2. t = [k \in 0 .. n + 1 |-> IF k = 0 THEN 1 ELSE t[k - 1] * (x + k - 1)]
      BY <2>2 DEF IsRising
    <3> HIDE DEF t
    <3>3. t[n + 1] = t[(n + 1) - 1] * (x + (n + 1) - 1)
      BY <3>1, <3>2
    <3> QED
      BY <3>1, <3>3 DEF t
  <2>5. x + (n + 1) - 1 = x + n
    OBVIOUS
  <2> QED
    BY <1>1, <2>1, <2>3, <2>4, <2>5
<1> QED
  BY <1>2, <1>3

(* A product of positive numbers is positive.                              *)
LEMMA RisingTyped ==
  ASSUME NEW x \in Nat \ {0}
  PROVE  \A n \in Nat : Rising(x, n) \in Nat \ {0}
<1> DEFINE T == {n \in Nat : Rising(x, n) \in Nat \ {0}}
<1>1. 0 \in T
  <2>1. Rising(x, 0) = 1
    BY RisingSteps
  <2> QED
    BY <2>1
<1>2. ASSUME NEW n \in Nat, n \in T PROVE n + 1 \in T
  <2>1. Rising(x, n + 1) = Rising(x, n) * (x + n)
    BY RisingSteps
  <2>2. Rising(x, n) \in Nat \ {0} /\ x + n \in Nat \ {0}
    BY <1>2
  <2>3. \A a, b \in Nat \ {0} : a * b \in Nat \ {0}
    OBVIOUS
  <2> QED
    BY <2>1, <2>2, <2>3
<1> HIDE DEF T
<1>3. Nat \subseteq T
  BY <1>1, <1>2, SetInduction
<1> QED
  BY <1>3 DEF T

(* A product in two parts.                                                 *)
LEMMA RisingSplit ==
  ASSUME NEW x \in Nat \ {0}, NEW m \in Nat
  PROVE  \A n \in Nat : Rising(x, m + n) = Rising(x, m) * Rising(x + m, n)
<1> DEFINE T == {n \in Nat : Rising(x, m + n) = Rising(x, m) * Rising(x + m, n)}
<1>0. x + m \in Nat \ {0}
  OBVIOUS
<1>1. 0 \in T
  <2>1. Rising(x + m, 0) = 1 /\ m + 0 = m /\ Rising(x, m) \in Nat
    BY <1>0, RisingSteps, RisingTyped
  <2> QED
    BY <2>1
<1>2. ASSUME NEW n \in Nat, n \in T PROVE n + 1 \in T
  <2> DEFINE a == Rising(x, m)  b == Rising(x + m, n)  c == x + m + n
  <2>1. Rising(x, m + n) = a * b
    BY <1>2
  <2>2. Rising(x, (m + n) + 1) = Rising(x, m + n) * (x + (m + n))
    <3>1. m + n \in Nat
      OBVIOUS
    <3> QED
      BY <3>1, RisingSteps
  <2>3. Rising(x + m, n + 1) = b * c
    BY <1>0, RisingSteps
  <2>4. (m + n) + 1 = m + (n + 1) /\ x + (m + n) = c
    OBVIOUS
  <2>5. a \in Nat /\ b \in Nat /\ c \in Nat
    BY <1>0, RisingTyped
  <2>6. Rising(x, m + (n + 1)) = (a * b) * c
    BY <2>1, <2>2, <2>4
  <2> HIDE DEF a, b, c
  <2>7. (a * b) * c = a * (b * c)
    BY <2>5
  <2>8. Rising(x, m + (n + 1)) = a * Rising(x + m, n + 1)
    BY <2>3, <2>6, <2>7
  <2> QED
    BY <2>8 DEF a
<1> HIDE DEF T
<1>3. Nat \subseteq T
  BY <1>1, <1>2, SetInduction
<1> QED
  BY <1>3 DEF T

(* It grows with where it begins.                                          *)
LEMMA RisingRises ==
  ASSUME NEW x \in Nat \ {0}
  PROVE  \A n \in Nat : Rising(x, n) <= Rising(x + 1, n)
<1> DEFINE T == {n \in Nat : Rising(x, n) <= Rising(x + 1, n)}
<1>0. x + 1 \in Nat \ {0}
  OBVIOUS
<1>1. 0 \in T
  BY <1>0, RisingSteps
<1>2. ASSUME NEW n \in Nat, n \in T PROVE n + 1 \in T
  <2> DEFINE a == Rising(x, n)  b == Rising(x + 1, n)  c == x + n
  <2>1. Rising(x, n + 1) = a * c /\ Rising(x + 1, n + 1) = b * ((x + 1) + n)
    BY <1>0, RisingSteps
  <2>2. (x + 1) + n = c + 1
    OBVIOUS
  <2>3. a \in Nat /\ b \in Nat /\ c \in Nat /\ a <= b
    BY <1>0, <1>2, RisingTyped
  <2> HIDE DEF a, b, c
  <2>4. a * c <= b * c
    BY <2>3, ProductsOrdered
  <2>5. b * (c + 1) = b * c + b /\ b * c \in Nat /\ a * c \in Nat
    BY <2>3
  <2>6. a * c <= b * (c + 1)
    BY <2>3, <2>4, <2>5
  <2> QED
    BY <2>1, <2>2, <2>6
<1> HIDE DEF T
<1>3. Nat \subseteq T
  BY <1>1, <1>2, SetInduction
<1> QED
  BY <1>3 DEF T

(* A common factor does not matter for the order.                          *)
LEMMA Cancelled ==
  ASSUME NEW a \in Nat, NEW b \in Nat, NEW m \in Nat \ {0}
  PROVE  a * m <= b * m <=> a <= b
<1>1. a <= b => a * m <= b * m
  BY ProductsOrdered
<1>2. ASSUME ~(a <= b) PROVE ~(a * m <= b * m)
  <2>1. b + 1 <= a /\ b + 1 \in Nat
    BY <1>2
  <2>2. (b + 1) * m <= a * m
    BY <2>1, ProductsOrdered
  <2>3. (b + 1) * m = b * m + m /\ b * m \in Nat /\ a * m \in Nat
    OBVIOUS
  <2> QED
    BY <2>2, <2>3
<1> QED
  BY <1>1, <1>2

(* Equal fractions are on the same side of a threshold.                    *)
LEMMA SameFractions ==
  ASSUME NEW a \in Nat \ {0}, NEW b \in Nat \ {0}, NEW c \in Nat \ {0}, NEW d \in Nat \ {0},
         c * b = a * d, NEW times \in Nat
  PROVE  times * a <= b <=> times * c <= d
<1>3. times * a <= b <=> (times * a) * c <= b * c
  <2>1. times * a \in Nat
    OBVIOUS
  <2> QED
    BY <2>1, Cancelled
<1>4. times * c <= d <=> (times * c) * a <= d * a
  <2>1. times * c \in Nat
    OBVIOUS
  <2> QED
    BY <2>1, Cancelled
<1>5. (times * a) * c = (times * c) * a /\ b * c = d * a
  OBVIOUS
<1> QED
  BY <1>3, <1>4, <1>5

(* The short product compares the same fractions as the long one.          *)
LEMMA ShortIsLong ==
  ASSUME NEW alpha \in Nat \ {0}, NEW beta \in Nat \ {0}, NEW t \in Nat, NEW times \in Nat
  PROVE  times * Rising(beta, alpha) <= Rising(beta + t, alpha)
         <=> times * Rising(beta, t) <= Rising(alpha + beta, t)
<1> DEFINE a == Rising(beta, alpha)  b == Rising(beta + t, alpha)
           c == Rising(beta, t)  d == Rising(alpha + beta, t)
<1>1. a \in Nat \ {0} /\ b \in Nat \ {0} /\ c \in Nat \ {0} /\ d \in Nat \ {0}
  <2>1. beta + t \in Nat \ {0} /\ alpha + beta \in Nat \ {0} /\ alpha \in Nat
    OBVIOUS
  <2> QED
    BY <2>1, RisingTyped
<1>2. c * b = a * d
  <2>1. Rising(beta, t + alpha) = c * b
    BY RisingSplit
  <2>2. Rising(beta, alpha + t) = a * Rising(beta + alpha, t)
    BY RisingSplit
  <2>3. t + alpha = alpha + t /\ beta + alpha = alpha + beta
    OBVIOUS
  <2> QED
    BY <2>1, <2>2, <2>3
<1> HIDE DEF a, b, c, d
<1>6. times * a <= b <=> times * c <= d
  BY <1>1, <1>2, SameFractions
<1> QED
  BY <1>6 DEF a, b, c, d

-----------------------------------------------------------------------------
(* Recovery by doubling and halving.                                       *)
ShortReached(alpha, beta, times, t) == times * Rising(beta, alpha) <= Rising(beta + t, alpha)

(* One doubling.                                                           *)
Doubled(alpha, beta, times, high) ==
  IF ShortReached(alpha, beta, times, high) \/ high = MaxDays THEN high
  ELSE IF 2 * high > MaxDays THEN MaxDays ELSE 2 * high

IsDoubling(s, alpha, beta, times, n) ==
  s = [k \in 0 .. n |-> IF k = 0 THEN 1 ELSE Doubled(alpha, beta, times, s[k - 1])]

(* The doubling exists.                                                    *)
LEMMA DoublingsExist ==
  ASSUME NEW alpha, NEW beta, NEW times
  PROVE  \A n \in Nat : \E s : IsDoubling(s, alpha, beta, times, n)
<1> DEFINE T == {n \in Nat : \E s : IsDoubling(s, alpha, beta, times, n)}
           Step(h) == Doubled(alpha, beta, times, h)
<1>0. \A s, n : IsDoubling(s, alpha, beta, times, n) <=>
                   s = [k \in 0 .. n |-> IF k = 0 THEN 1 ELSE Step(s[k - 1])]
  BY DEF IsDoubling
<1> HIDE DEF Step
<1>1. 0 \in T
  <2> DEFINE s == [k \in 0 .. 0 |-> 1]
  <2>1. s = [k \in 0 .. 0 |-> IF k = 0 THEN 1 ELSE Step(s[k - 1])]
    OBVIOUS
  <2> QED
    BY <1>0, <2>1
<1>2. ASSUME NEW n \in Nat, n \in T PROVE n + 1 \in T
  <2>1. PICK s : IsDoubling(s, alpha, beta, times, n)
    BY <1>2
  <2>2. DOMAIN s = 0 .. n /\ \A k \in 0 .. n : s[k] = IF k = 0 THEN 1 ELSE Step(s[k - 1])
    BY <1>0, <2>1
  <2> DEFINE t == [k \in 0 .. n + 1 |-> IF k \in 0 .. n THEN s[k] ELSE Step(s[n])]
  <2>3. \A k \in 0 .. n + 1 : t[k] = IF k = 0 THEN 1 ELSE Step(t[k - 1])
    <3> TAKE k \in 0 .. n + 1
    <3>1. CASE k = 0
      BY <2>2, <3>1
    <3>2. CASE k \in 1 .. n
      <4>1. t[k] = s[k] /\ t[k - 1] = s[k - 1] /\ s[k] = Step(s[k - 1]) /\ k # 0
        BY <2>2, <3>2
      <4> QED
        BY <4>1
    <3>3. CASE k = n + 1
      <4>1. t[k] = Step(s[n]) /\ t[k - 1] = s[n] /\ k # 0
        BY <3>3
      <4> QED
        BY <4>1
    <3> QED
      BY <3>1, <3>2, <3>3
  <2>4. t = [k \in 0 .. n + 1 |-> IF k = 0 THEN 1 ELSE Step(t[k - 1])]
    BY <2>3
  <2> HIDE DEF t
  <2>5. IsDoubling(t, alpha, beta, times, n + 1)
    BY <1>0, <2>4
  <2> QED
    BY <2>5
<1> HIDE DEF T
<1>3. Nat \subseteq T
  BY <1>1, <1>2, SetInduction
<1> QED
  BY <1>3 DEF T

(* Doubling stops: at a day that is reached, or at the last one.           *)
LEMMA DoublingStops ==
  ASSUME NEW alpha, NEW beta, NEW times, NEW s, IsDoubling(s, alpha, beta, times, MaxDays)
  PROVE  /\ s[MaxDays] \in 1 .. MaxDays
         /\ ShortReached(alpha, beta, times, s[MaxDays]) \/ s[MaxDays] = MaxDays
<1> DEFINE Step(h) == Doubled(alpha, beta, times, h)
           R(h) == ShortReached(alpha, beta, times, h)
           Good(h, k) == h \in 1 .. MaxDays /\ (R(h) \/ h = MaxDays \/ h >= k + 1)
           T == {k \in Nat : k <= MaxDays => Good(s[k], k)}
<1>0. MaxDays \in Nat \ {0}
  BY EngineAssumption
<1>1. s = [k \in 0 .. MaxDays |-> IF k = 0 THEN 1 ELSE Step(s[k - 1])]
  BY DEF IsDoubling
<1>2. \A h : Step(h) = IF R(h) \/ h = MaxDays THEN h ELSE IF 2 * h > MaxDays THEN MaxDays ELSE 2 * h
  BY DEF Doubled
<1> HIDE DEF Step, R
<1>3. s[0] = 1 /\ \A k \in Nat : k + 1 <= MaxDays => s[k + 1] = Step(s[k])
  <2>1. 0 \in 0 .. MaxDays
    BY <1>0
  <2>2. \A k \in Nat : k + 1 <= MaxDays => k + 1 \in 0 .. MaxDays /\ (k + 1) - 1 = k /\ k + 1 # 0
    BY <1>0
  <2> QED
    BY <1>1, <2>1, <2>2
<1>4. 0 \in T
  BY <1>0, <1>3
<1>5. ASSUME NEW k \in Nat, k \in T PROVE k + 1 \in T
  <2> SUFFICES ASSUME k + 1 <= MaxDays PROVE Good(s[k + 1], k + 1)
    OBVIOUS
  <2> DEFINE h == s[k]
  <2>1. Good(h, k) /\ s[k + 1] = Step(h)
    BY <1>0, <1>3, <1>5
  <2> HIDE DEF h
  <2>2. CASE R(h) \/ h = MaxDays
    BY <1>2, <2>1, <2>2
  <2>3. CASE ~(R(h) \/ h = MaxDays) /\ 2 * h > MaxDays
    BY <1>0, <1>2, <2>1, <2>3
  <2>4. CASE ~(R(h) \/ h = MaxDays) /\ ~(2 * h > MaxDays)
    <3>1. s[k + 1] = 2 * h /\ h >= k + 1 /\ h \in 1 .. MaxDays
      BY <1>2, <2>1, <2>4
    <3> QED
      BY <1>0, <2>4, <3>1
  <2> QED
    BY <2>2, <2>3, <2>4
<1> HIDE DEF T
<1>6. MaxDays \in T
  BY <1>0, <1>4, <1>5, SetInduction
<1>7. Good(s[MaxDays], MaxDays)
  BY <1>0, <1>6 DEF T
<1> QED
  BY <1>0, <1>7 DEF R

(* The first day of a set, and the days that are reached.                  *)
FirstDay(S) == IF S = {} THEN TooLong ELSE Min(S)

ReachedBy(alpha, beta, times, limit) ==
  {t \in 1 .. limit : times * Rising(beta, t) <= Rising(alpha + beta, t)}

(* Doubling and halving find the first day there is.                       *)
LEMMA ShortFirst ==
  ASSUME NEW alpha \in Nat \ {0}, NEW beta \in Nat \ {0}, NEW times \in Nat
  PROVE  ShortRecovery(alpha, beta, times) = FirstDay(ReachedBy(alpha, beta, times, MaxDays))
<1> DEFINE R(t) == ShortReached(alpha, beta, times, t)
           s == CHOOSE s : IsDoubling(s, alpha, beta, times, MaxDays)
           high == s[MaxDays]
           S == ReachedBy(alpha, beta, times, MaxDays)
           row == [t \in 1 .. high |-> R(t)]
           found == Bisect(1, high, row).low
<1>0. MaxDays \in Nat \ {0}
  BY EngineAssumption
<1>1. ShortRecovery(alpha, beta, times) = IF R(high) THEN found ELSE TooLong
  BY DEF ShortRecovery, ShortReached, IsDoubling, Doubled
<1>2. IsDoubling(s, alpha, beta, times, MaxDays)
  BY <1>0, DoublingsExist
<1>3. high \in 1 .. MaxDays /\ (R(high) \/ high = MaxDays)
  <2> HIDE DEF s
  <2> QED
    BY <1>2, DoublingStops
<1> HIDE DEF s, high
<1>4. S = {t \in 1 .. MaxDays : R(t)}
  <2>1. \A t \in 1 .. MaxDays : R(t) <=> times * Rising(beta, t) <= Rising(alpha + beta, t)
    <3> SUFFICES ASSUME NEW t \in 1 .. MaxDays
                 PROVE  R(t) <=> times * Rising(beta, t) <= Rising(alpha + beta, t)
      OBVIOUS
    <3>1. t \in Nat
      BY <1>0
    <3> QED
      BY <3>1, ShortIsLong DEF ShortReached
  <2> QED
    BY <2>1 DEF ReachedBy
<1>5. \A t \in Nat : R(t) => R(t + 1)
  <2> SUFFICES ASSUME NEW t \in Nat, R(t) PROVE R(t + 1)
    OBVIOUS
  <2>1. Rising(beta + t, alpha) <= Rising((beta + t) + 1, alpha)
    BY RisingRises
  <2>2. (beta + t) + 1 = beta + (t + 1) /\ beta + t \in Nat \ {0} /\ beta + (t + 1) \in Nat \ {0} /\ alpha \in Nat
    OBVIOUS
  <2>3. Rising(beta + t, alpha) \in Nat /\ Rising(beta + (t + 1), alpha) \in Nat /\ Rising(beta, alpha) \in Nat
    BY <2>2, RisingTyped
  <2> DEFINE a == times * Rising(beta, alpha)  b == Rising(beta + t, alpha)  c == Rising(beta + (t + 1), alpha)
  <2>4. a \in Nat /\ b \in Nat /\ c \in Nat /\ b <= c
    BY <2>1, <2>2, <2>3
  <2>5. R(t) <=> a <= b
    BY DEF ShortReached
  <2>6. R(t + 1) <=> a <= c
    BY DEF ShortReached
  <2> HIDE DEF a, b, c, R
  <2> QED
    BY <2>4, <2>5, <2>6
<1> HIDE DEF R, S
<1>6. \A u, t \in Nat : R(t) => R(t + u)
  <2> SUFFICES ASSUME NEW t \in Nat, R(t) PROVE \A u \in Nat : R(t + u)
    OBVIOUS
  <2> DEFINE T == {u \in Nat : R(t + u)}
  <2>1. 0 \in T
    <3>1. t + 0 = t
      OBVIOUS
    <3> QED
      BY <3>1
  <2>2. ASSUME NEW u \in Nat, u \in T PROVE u + 1 \in T
    <3>1. (t + u) + 1 = t + (u + 1) /\ t + u \in Nat
      OBVIOUS
    <3> QED
      BY <1>5, <2>2, <3>1
  <2> HIDE DEF T
  <2>3. Nat \subseteq T
    BY <2>1, <2>2, SetInduction
  <2> QED
    BY <2>3 DEF T
<1>7. \A t, v \in Nat : R(t) /\ t <= v => R(v)
  <2> SUFFICES ASSUME NEW t \in Nat, NEW v \in Nat, R(t), t <= v PROVE R(v)
    OBVIOUS
  <2>1. v - t \in Nat /\ t + (v - t) = v
    OBVIOUS
  <2>2. R(t + (v - t))
    BY <1>6, <2>1
  <2> QED
    BY <2>1, <2>2
<1>8. CASE ~R(high)
  <2>1. high = MaxDays
    BY <1>3, <1>8
  <2>2. S = {}
    <3> SUFFICES ASSUME NEW t \in S PROVE FALSE
      OBVIOUS
    <3>1. t \in 1 .. MaxDays /\ R(t)
      BY <1>4
    <3>2. t \in Nat /\ t <= MaxDays /\ MaxDays \in Nat
      BY <1>0, <3>1
    <3> QED
      BY <1>7, <1>8, <2>1, <3>1, <3>2
  <2> QED
    BY <1>1, <1>8, <2>2 DEF FirstDay, S
<1>9. CASE R(high)
  <2>0. high \in Nat /\ 1 <= high /\ high <= MaxDays /\ 1 \in Nat
    BY <1>0, <1>3
  <2>1. /\ found \in 1 .. high
        /\ row[high] => row[found]
        /\ found > 1 => ~row[found - 1]
    <3> HIDE DEF row
    <3> QED
      BY <2>0, SearchFinds
  <2>2. \A t \in 1 .. high : row[t] = R(t)
    OBVIOUS
  <2> HIDE DEF found, row
  <2>3. found \in S
    <3>1. R(found)
      BY <1>9, <2>0, <2>1, <2>2
    <3>2. found \in 1 .. MaxDays
      BY <1>0, <2>0, <2>1
    <3> QED
      BY <1>4, <3>1, <3>2
  <2>4. \A t \in S : found <= t
    <3> SUFFICES ASSUME NEW t \in S, ~(found <= t) PROVE FALSE
      OBVIOUS
    <3>1. t \in 1 .. MaxDays /\ R(t)
      BY <1>4
    <3>2. t \in Nat /\ found - 1 \in Nat /\ t <= found - 1 /\ found > 1 /\ found - 1 \in 1 .. high
      BY <1>0, <2>0, <2>1, <3>1
    <3>3. R(found - 1)
      BY <1>7, <3>1, <3>2
    <3> QED
      BY <2>1, <2>2, <3>2, <3>3
  <2>5. S \subseteq Nat
    BY <1>0, <1>4
  <2>6. Min(S) \in S /\ \A t \in S : Min(S) <= t
    BY <2>3, <2>5, LeastOf
  <2>7. Min(S) = found
    <3>1. Min(S) <= found /\ found <= Min(S) /\ Min(S) \in Nat /\ found \in Nat
      BY <2>3, <2>4, <2>5, <2>6
    <3> QED
      BY <3>1
  <2> QED
    BY <1>1, <1>9, <2>3, <2>7 DEF FirstDay, S
<1> QED
  BY <1>8, <1>9

(* So does the engine, for few and for many trials.                        *)
LEMMA RecoveryFirst ==
  ASSUME NEW alpha \in Nat \ {0}, NEW beta \in Nat \ {0}
  PROVE  LET limit == IF alpha <= ShortShape THEN MaxDays ELSE DayBudget
         IN  /\ Recovery(alpha, beta).g50 = FirstDay(ReachedBy(alpha, beta, 2, limit))
             /\ Recovery(alpha, beta).g80 = FirstDay(ReachedBy(alpha, beta, 5, limit))
<1>1. \A times \in Nat : LongRecovery(alpha, beta, times) = FirstDay(ReachedBy(alpha, beta, times, DayBudget))
  BY DEF LongRecovery, FirstDay, ReachedBy
<1>2. \A times \in Nat : ShortRecovery(alpha, beta, times) = FirstDay(ReachedBy(alpha, beta, times, MaxDays))
  BY ShortFirst
<1>3. CASE alpha <= ShortShape
  <2>1. Recovery(alpha, beta) = [g50 |-> ShortRecovery(alpha, beta, 2), g80 |-> ShortRecovery(alpha, beta, 5)]
    BY <1>3 DEF Recovery
  <2> QED
    BY <1>2, <1>3, <2>1
<1>4. CASE ~(alpha <= ShortShape)
  <2>1. Recovery(alpha, beta) = [g50 |-> LongRecovery(alpha, beta, 2), g80 |-> LongRecovery(alpha, beta, 5)]
    BY <1>4 DEF Recovery
  <2> QED
    BY <1>1, <1>4, <2>1
<1> QED
  BY <1>3, <1>4

-----------------------------------------------------------------------------
(* Fractions in lowest terms.                                              *)
IsGcd(g, n) == g = [b \in 0 .. n |-> [a \in Nat |-> IF b = 0 THEN a ELSE g[a % b][b]]]

(* Euclid's algorithm, as a function.                                      *)
LEMMA GcdsExist == \A n \in Nat : \E g : IsGcd(g, n)
<1> DEFINE T == {n \in Nat : \E g : IsGcd(g, n)}
           Row(g, b) == [a \in Nat |-> IF b = 0 THEN a ELSE g[a % b][b]]
<1>0. \A g, n : IsGcd(g, n) <=> g = [b \in 0 .. n |-> Row(g, b)]
  BY DEF IsGcd
<1>1. \A g, h : \A b \in Nat : (\A c \in Nat : c < b => g[c] = h[c]) => Row(g, b) = Row(h, b)
  <2> SUFFICES ASSUME NEW g, NEW h, NEW b \in Nat, \A c \in Nat : c < b => g[c] = h[c]
               PROVE  Row(g, b) = Row(h, b)
    OBVIOUS
  <2>1. ASSUME NEW a \in Nat PROVE (IF b = 0 THEN a ELSE g[a % b][b]) = (IF b = 0 THEN a ELSE h[a % b][b])
    <3>1. CASE b = 0
      BY <3>1
    <3>2. CASE b # 0
      <4>1. a % b \in Nat /\ a % b < b
        BY <3>2
      <4>2. g[a % b] = h[a % b]
        BY <4>1
      <4> QED
        BY <4>2
    <3> QED
      BY <3>1, <3>2
  <2> QED
    BY <2>1
<1> HIDE DEF Row
<1>2. 0 \in T
  <2> DEFINE g == [b \in 0 .. 0 |-> Row(<< >>, b)]
  <2>1. \A b \in 0 .. 0 : Row(<< >>, b) = Row(g, b)
    <3> SUFFICES ASSUME NEW b \in 0 .. 0 PROVE Row(<< >>, b) = Row(g, b)
      OBVIOUS
    <3>1. b \in Nat /\ \A c \in Nat : ~(c < b)
      OBVIOUS
    <3> HIDE DEF g
    <3> QED
      BY <1>1, <3>1
  <2>2. g = [b \in 0 .. 0 |-> Row(g, b)]
    BY <2>1
  <2> HIDE DEF g
  <2>3. IsGcd(g, 0)
    BY <1>0, <2>2
  <2> QED
    BY <2>3
<1>3. ASSUME NEW n \in Nat, n \in T PROVE n + 1 \in T
  <2>1. PICK g : IsGcd(g, n)
    BY <1>3
  <2>2. g = [b \in 0 .. n |-> Row(g, b)]
    BY <1>0, <2>1
  <2> DEFINE h == [b \in 0 .. n + 1 |-> Row(g, b)]
  <2>3. \A c \in Nat : c < n + 1 => g[c] = h[c]
    <3> SUFFICES ASSUME NEW c \in Nat, c < n + 1 PROVE g[c] = h[c]
      OBVIOUS
    <3>1. c \in 0 .. n /\ c \in 0 .. n + 1
      OBVIOUS
    <3>2. g[c] = Row(g, c)
      BY <2>2, <3>1
    <3> QED
      BY <3>1, <3>2
  <2>4. \A b \in 0 .. n + 1 : Row(g, b) = Row(h, b)
    <3> SUFFICES ASSUME NEW b \in 0 .. n + 1 PROVE Row(g, b) = Row(h, b)
      OBVIOUS
    <3>1. b \in Nat /\ \A c \in Nat : c < b => c < n + 1
      OBVIOUS
    <3> HIDE DEF h
    <3> QED
      BY <1>1, <2>3, <3>1
  <2>5. h = [b \in 0 .. n + 1 |-> Row(h, b)]
    BY <2>4
  <2> HIDE DEF h
  <2>6. IsGcd(h, n + 1)
    BY <1>0, <2>5
  <2> QED
    BY <2>6
<1> HIDE DEF T
<1>4. Nat \subseteq T
  BY <1>2, <1>3, SetInduction
<1> QED
  BY <1>4 DEF T

(* What it finds divides both.                                             *)
Divides(g, x) == \E u \in Nat : x = u * g

LEMMA GcdDivides ==
  ASSUME NEW x \in Nat \ {0}, NEW y \in Nat \ {0}
  PROVE  Gcd(x, y) \in Nat \ {0} /\ Divides(Gcd(x, y), x) /\ Divides(Gcd(x, y), y)
<1> DEFINE g == CHOOSE g : IsGcd(g, y)
           Good(v, a, b) == v \in Nat \ {0} /\ Divides(v, a) /\ Divides(v, b)
           T == {k \in Nat : \A b \in 0 .. y : b <= k =>
                                \A a \in Nat : a # 0 \/ b # 0 => Good(g[b][a], a, b)}
<1>1. Gcd(x, y) = g[y][x]
  BY DEF Gcd, IsGcd
<1>2. g = [b \in 0 .. y |-> [a \in Nat |-> IF b = 0 THEN a ELSE g[a % b][b]]]
  BY GcdsExist DEF IsGcd
<1> HIDE DEF g
<1>3. \A b \in 0 .. y : \A a \in Nat : g[b][a] = IF b = 0 THEN a ELSE g[a % b][b]
  BY <1>2
<1>4. \A a \in Nat \ {0} : Good(g[0][a], a, 0)
  <2> SUFFICES ASSUME NEW a \in Nat \ {0} PROVE Good(g[0][a], a, 0)
    OBVIOUS
  <2>1. g[0][a] = a
    BY <1>3
  <2>2. a = 1 * a /\ 0 = 0 * a
    OBVIOUS
  <2>3. Divides(a, a) /\ Divides(a, 0)
    BY <2>2 DEF Divides
  <2> QED
    BY <2>1, <2>3
<1>5. 0 \in T
  <2> SUFFICES ASSUME NEW b \in 0 .. y, b <= 0, NEW a \in Nat, a # 0 \/ b # 0 PROVE Good(g[b][a], a, b)
    OBVIOUS
  <2>1. b = 0 /\ a \in Nat \ {0}
    OBVIOUS
  <2> HIDE DEF Good
  <2> QED
    BY <1>4, <2>1
<1>6. ASSUME NEW k \in Nat, k \in T PROVE k + 1 \in T
  <2> SUFFICES ASSUME NEW b \in 0 .. y, b <= k + 1, NEW a \in Nat, a # 0 \/ b # 0 PROVE Good(g[b][a], a, b)
    OBVIOUS
  <2>1. CASE b = 0
    <3>1. a \in Nat \ {0}
      BY <2>1
    <3> HIDE DEF Good
    <3> QED
      BY <1>4, <2>1, <3>1
  <2>2. CASE b # 0
    <3> DEFINE c == a % b  d == a \div b  v == g[c][b]
    <3>1. c \in Nat /\ c < b /\ d \in Nat /\ a = d * b + c
      BY <2>2
    <3>2. c \in 0 .. y /\ c <= k /\ b \in Nat
      BY <3>1
    <3>3. g[b][a] = v
      BY <1>3, <2>2
    <3> HIDE DEF c, d
    <3>4. Good(v, b, c)
      BY <1>6, <2>2, <3>2
    <3> HIDE DEF v
    <3>5. PICK u \in Nat : b = u * v
      BY <3>4 DEF Divides
    <3>6. PICK w \in Nat : c = w * v
      BY <3>4 DEF Divides
    <3>7. a = (d * u + w) * v /\ d * u + w \in Nat
      <4>1. v \in Nat
        BY <3>4
      <4>2. d * (u * v) = (d * u) * v /\ d * u \in Nat
        BY <3>1, <4>1
      <4>3. (d * u) * v + w * v = (d * u + w) * v
        BY <4>1, <4>2
      <4> QED
        BY <3>1, <3>5, <3>6, <4>2, <4>3
    <3>8. Divides(v, a)
      BY <3>7 DEF Divides
    <3> QED
      BY <3>3, <3>4, <3>8
  <2> QED
    BY <2>1, <2>2
<1> HIDE DEF T
<1>7. y \in T
  BY <1>5, <1>6, SetInduction
<1>8. Good(g[y][x], x, y)
  <2>1. y \in 0 .. y /\ y <= y /\ x \in Nat
    OBVIOUS
  <2> HIDE DEF Good
  <2> QED
    BY <1>7, <2>1 DEF T
<1> QED
  BY <1>1, <1>8

(* Division without a remainder.                                           *)
LEMMA ExactDivision ==
  ASSUME NEW g \in Nat \ {0}, NEW u \in Nat
  PROVE  (u * g) \div g = u
<1> DEFINE n == u * g  q == n \div g  r == n % g
<1>1. n \in Nat
  OBVIOUS
<1> HIDE DEF n
<1>2. q \in Nat /\ r \in Nat /\ r < g /\ n = q * g + r
  BY <1>1
<1> HIDE DEF q, r
<1>3. ~(u < q)
  <2> SUFFICES ASSUME u + 1 <= q PROVE FALSE
    BY <1>2
  <2>1. (u + 1) * g <= q * g
    BY <1>2, ProductsOrdered
  <2>2. (u + 1) * g = u * g + g /\ u * g \in Nat /\ q * g \in Nat
    BY <1>2
  <2> QED
    BY <1>2, <2>1, <2>2 DEF n
<1>4. ~(q < u)
  <2> SUFFICES ASSUME q + 1 <= u PROVE FALSE
    BY <1>2
  <2>1. (q + 1) * g <= u * g
    BY <1>2, ProductsOrdered
  <2>2. (q + 1) * g = q * g + g /\ u * g \in Nat /\ q * g \in Nat
    BY <1>2
  <2> QED
    BY <1>2, <2>1, <2>2 DEF n
<1>5. q = u
  BY <1>2, <1>3, <1>4
<1> QED
  BY <1>5 DEF q, n

(* A fraction that is reduced stays the same fraction.                     *)
IsReduced(n, d, u, v, g) == /\ n = u * g /\ d = v * g
                            /\ n \div Gcd(n, d) = u /\ d \div Gcd(n, d) = v

LEMMA Reduced ==
  ASSUME NEW n \in Nat \ {0}, NEW d \in Nat \ {0}
  PROVE  \E u, v, g \in Nat \ {0} : IsReduced(n, d, u, v, g)
<1> DEFINE g == Gcd(n, d)
<1>1. g \in Nat \ {0} /\ Divides(g, n) /\ Divides(g, d)
  BY GcdDivides
<1> HIDE DEF g
<1>2. PICK u \in Nat : n = u * g
  BY <1>1 DEF Divides
<1>3. PICK v \in Nat : d = v * g
  BY <1>1 DEF Divides
<1>4. n \div g = u /\ d \div g = v
  BY <1>1, <1>2, <1>3, ExactDivision
<1>5. u # 0 /\ v # 0
  BY <1>1, <1>2, <1>3
<1>6. IsReduced(n, d, u, v, g)
  BY <1>2, <1>3, <1>4 DEF g, IsReduced
<1> QED
  BY <1>1, <1>5, <1>6

(* The chance of no DONE in so many days, step by step.                    *)
Lowered(p, k, before) ==
  LET n == before[1] * (p.beta + k - 1)
      d == before[2] * (p.alpha + p.beta + k - 1)
  IN  <<n \div Gcd(n, d), d \div Gcd(n, d)>>

IsSurvival(s, p, n) == s = [k \in 0 .. n |-> IF k = 0 THEN <<1, 1>> ELSE Lowered(p, k, s[k - 1])]

(* The recursive fraction exists.                                          *)
LEMMA SurvivalsExist == ASSUME NEW p PROVE \A n \in Nat : \E s : IsSurvival(s, p, n)
<1> DEFINE T == {n \in Nat : \E s : IsSurvival(s, p, n)}
           Step(k, v) == Lowered(p, k, v)
           one == <<1, 1>>
<1>0. \A s, n : IsSurvival(s, p, n) <=> s = [k \in 0 .. n |-> IF k = 0 THEN one ELSE Step(k, s[k - 1])]
  BY DEF IsSurvival
<1> HIDE DEF Step, one
<1>1. 0 \in T
  <2> DEFINE s == [k \in 0 .. 0 |-> one]
  <2>1. s = [k \in 0 .. 0 |-> IF k = 0 THEN one ELSE Step(k, s[k - 1])]
    OBVIOUS
  <2> QED
    BY <1>0, <2>1
<1>2. ASSUME NEW n \in Nat, n \in T PROVE n + 1 \in T
  <2>1. PICK s : IsSurvival(s, p, n)
    BY <1>2
  <2>2. DOMAIN s = 0 .. n /\ \A k \in 0 .. n : s[k] = IF k = 0 THEN one ELSE Step(k, s[k - 1])
    BY <1>0, <2>1
  <2> DEFINE t == [k \in 0 .. n + 1 |-> IF k \in 0 .. n THEN s[k] ELSE Step(n + 1, s[n])]
  <2>3. \A k \in 0 .. n + 1 : t[k] = IF k = 0 THEN one ELSE Step(k, t[k - 1])
    <3> TAKE k \in 0 .. n + 1
    <3>1. CASE k = 0
      BY <2>2, <3>1
    <3>2. CASE k \in 1 .. n
      <4>1. t[k] = s[k] /\ t[k - 1] = s[k - 1] /\ s[k] = Step(k, s[k - 1]) /\ k # 0
        BY <2>2, <3>2
      <4> QED
        BY <4>1
    <3>3. CASE k = n + 1
      <4>1. t[k] = Step(n + 1, s[n]) /\ t[k - 1] = s[n] /\ k # 0
        BY <3>3
      <4> QED
        BY <3>3, <4>1
    <3> QED
      BY <3>1, <3>2, <3>3
  <2>4. t = [k \in 0 .. n + 1 |-> IF k = 0 THEN one ELSE Step(k, t[k - 1])]
    BY <2>3
  <2> HIDE DEF t
  <2>5. IsSurvival(t, p, n + 1)
    BY <1>0, <2>4
  <2> QED
    BY <2>5
<1> HIDE DEF T
<1>3. Nat \subseteq T
  BY <1>1, <1>2, SetInduction
<1> QED
  BY <1>3 DEF T

(* One more day: the fraction of the rising factorials, reduced.           *)
LEMMA SurvivalStep ==
  ASSUME NEW alpha \in Nat \ {0}, NEW beta \in Nat \ {0}, NEW k \in Nat,
         NEW u \in Nat \ {0}, NEW v \in Nat \ {0},
         u * Rising(alpha + beta, k) = v * Rising(beta, k)
  PROVE  \E x, y \in Nat \ {0} :
            /\ Lowered([alpha |-> alpha, beta |-> beta], k + 1, <<u, v>>) = <<x, y>>
            /\ x * Rising(alpha + beta, k + 1) = y * Rising(beta, k + 1)
<1> DEFINE c == Rising(beta, k)  d == Rising(alpha + beta, k)
           l == beta + k  m == alpha + beta + k
           n == u * l  o == v * m
<1>1. c \in Nat \ {0} /\ d \in Nat \ {0} /\ l \in Nat \ {0} /\ m \in Nat \ {0}
  <2>1. alpha + beta \in Nat \ {0}
    OBVIOUS
  <2> QED
    BY <2>1, RisingTyped
<1>2. Rising(beta, k + 1) = c * l /\ Rising(alpha + beta, k + 1) = d * m
  <2>1. alpha + beta \in Nat \ {0} /\ (alpha + beta) + k = m
    OBVIOUS
  <2> QED
    BY <2>1, RisingSteps
<1>3. Lowered([alpha |-> alpha, beta |-> beta], k + 1, <<u, v>>) = <<n \div Gcd(n, o), o \div Gcd(n, o)>>
  <2>1. beta + (k + 1) - 1 = l /\ alpha + beta + (k + 1) - 1 = m
    OBVIOUS
  <2> HIDE DEF l, m
  <2> QED
    BY <2>1 DEF Lowered
<1>4. n \in Nat \ {0} /\ o \in Nat \ {0}
  <2>1. \A a, b \in Nat \ {0} : a * b \in Nat \ {0}
    OBVIOUS
  <2> HIDE DEF l, m
  <2> QED
    BY <1>1, <2>1
<1>5. u * d = v * c
  OBVIOUS
<1> HIDE DEF c, d, l, m
<1>6. n * (d * m) = o * (c * l)
  <2>1. (u * l) * (d * m) = (u * d) * (l * m)
    BY <1>1
  <2>2. (v * m) * (c * l) = (v * c) * (l * m)
    BY <1>1
  <2> QED
    BY <1>5, <2>1, <2>2
<1> HIDE DEF n, o
<1>7. PICK x, y, g \in Nat \ {0} : IsReduced(n, o, x, y, g)
  BY <1>4, Reduced
<1>8. /\ n = x * g /\ o = y * g
       /\ n \div Gcd(n, o) = x /\ o \div Gcd(n, o) = y
  BY <1>7 DEF IsReduced
<1> DEFINE e == d * m  f == c * l
<1>9. e \in Nat /\ f \in Nat
  BY <1>1
<1>10. (x * g) * e = (y * g) * f
  BY <1>6, <1>8
<1> HIDE DEF e, f
<1>11. x * e \in Nat /\ y * f \in Nat
  BY <1>9
<1>12. (x * e) * g = (y * f) * g
  <2>1. (x * g) * e = (x * e) * g /\ (y * g) * f = (y * f) * g
    BY <1>9
  <2> QED
    BY <1>10, <2>1
<1>13. x * e = y * f
  <2>1. (x * e) * g \in Nat /\ (y * f) * g \in Nat
    BY <1>11
  <2>2. (x * e) * g <= (y * f) * g /\ (y * f) * g <= (x * e) * g
    BY <1>12, <2>1
  <2>3. x * e <= y * f /\ y * f <= x * e
    BY <1>11, <2>2, Cancelled
  <2> QED
    BY <1>11, <2>3
<1>14. x * Rising(alpha + beta, k + 1) = y * Rising(beta, k + 1)
  BY <1>2, <1>13 DEF e, f
<1> QED
  BY <1>3, <1>8, <1>14

(* The longer of the two limits.                                           *)
LEMMA LongestLimit ==
  ASSUME NEW a \in Nat, NEW b \in Nat
  PROVE  Max({a, b}) \in Nat /\ a <= Max({a, b}) /\ b <= Max({a, b})
<1> DEFINE S == {a, b}
<1>1. \E x \in S : \A y \in S : x >= y
  OBVIOUS
<1>2. Max(S) \in S /\ \A y \in S : Max(S) >= y
  BY <1>1 DEF Max
<1> QED
  BY <1>2

(* The fraction of any day is the one of the rising factorials.            *)
LEMMA SurvivalIs ==
  ASSUME NEW alpha \in Nat \ {0}, NEW beta \in Nat \ {0}, NEW p, p = [alpha |-> alpha, beta |-> beta],
         NEW t \in 0 .. Max({MaxDays, DayBudget})
  PROVE  \E u, v \in Nat \ {0} : /\ Survival(p)[t] = <<u, v>>
                                 /\ u * Rising(alpha + beta, t) = v * Rising(beta, t)
<1> DEFINE s == CHOOSE s : IsSurvival(s, p, t)
           Good(z, k) == \E u, v \in Nat \ {0} : z = <<u, v>> /\ u * Rising(alpha + beta, k) = v * Rising(beta, k)
           T == {k \in Nat : k <= t => Good(s[k], k)}
<1>0. t \in Nat
  BY EngineAssumption, LongestLimit
<1>1. Survival(p)[t] = s[t]
  BY DEF Survival, IsSurvival, Lowered
<1>2. IsSurvival(s, p, t)
  BY <1>0, SurvivalsExist
<1> HIDE DEF s
<1>3. s[0] = <<1, 1>> /\ \A k \in Nat : k + 1 <= t => s[k + 1] = Lowered(p, k + 1, s[k])
  <2> DEFINE one == <<1, 1>>  Step(k, v) == Lowered(p, k, v)
  <2>1. s = [k \in 0 .. t |-> IF k = 0 THEN one ELSE Step(k, s[k - 1])]
    BY <1>2 DEF IsSurvival
  <2> HIDE DEF one, Step
  <2>2. 0 \in 0 .. t
    BY <1>0
  <2>3. \A k \in Nat : k + 1 <= t => k + 1 \in 0 .. t /\ (k + 1) - 1 = k /\ k + 1 # 0
    BY <1>0
  <2>4. s[0] = one /\ \A k \in Nat : k + 1 <= t => s[k + 1] = Step(k + 1, s[(k + 1) - 1])
    BY <2>1, <2>2, <2>3
  <2>5. \A k \in Nat : k + 1 <= t => s[k + 1] = Step(k + 1, s[k])
    BY <2>3, <2>4
  <2> QED
    BY <2>4, <2>5 DEF one, Step
<1>4. 0 \in T
  <2>1. Rising(alpha + beta, 0) = 1 /\ Rising(beta, 0) = 1
    <3>1. alpha + beta \in Nat \ {0}
      OBVIOUS
    <3> QED
      BY <3>1, RisingSteps
  <2>2. 1 \in Nat \ {0} /\ 1 * Rising(alpha + beta, 0) = 1 * Rising(beta, 0)
    BY <2>1
  <2>3. Good(s[0], 0)
    BY <1>3, <2>2
  <2> QED
    BY <2>3
<1>5. ASSUME NEW k \in Nat, k \in T PROVE k + 1 \in T
  <2> SUFFICES ASSUME k + 1 <= t PROVE Good(s[k + 1], k + 1)
    OBVIOUS
  <2>1. Good(s[k], k)
    BY <1>0, <1>5
  <2>2. PICK u, v \in Nat \ {0} : s[k] = <<u, v>> /\ u * Rising(alpha + beta, k) = v * Rising(beta, k)
    BY <2>1
  <2>3. s[k + 1] = Lowered(p, k + 1, <<u, v>>)
    BY <1>3, <2>2
  <2> QED
    BY <2>2, <2>3, SurvivalStep
<1> HIDE DEF T
<1>6. t \in T
  BY <1>0, <1>4, <1>5, SetInduction
<1>7. Good(s[t], t)
  BY <1>0, <1>6 DEF T
<1> QED
  BY <1>1, <1>7

(* The days that are reached, by either.                                   *)
LEMMA SurvivalReached ==
  ASSUME NEW alpha \in Nat \ {0}, NEW beta \in Nat \ {0}, NEW p, p = [alpha |-> alpha, beta |-> beta],
         NEW limit \in {MaxDays, DayBudget}, NEW times \in Nat
  PROVE  {t \in 1 .. limit : times * Survival(p)[t][1] <= Survival(p)[t][2]}
         = ReachedBy(alpha, beta, times, limit)
<1>1. ASSUME NEW t \in 1 .. limit
      PROVE  times * Survival(p)[t][1] <= Survival(p)[t][2]
             <=> times * Rising(beta, t) <= Rising(alpha + beta, t)
  <2>1. t \in 0 .. Max({MaxDays, DayBudget}) /\ t \in Nat
    <3>1. MaxDays \in Nat /\ DayBudget \in Nat
      BY EngineAssumption
    <3>2. Max({MaxDays, DayBudget}) \in Nat /\ limit <= Max({MaxDays, DayBudget}) /\ limit \in Nat
      BY <3>1, LongestLimit
    <3> HIDE DEF Max
    <3> QED
      BY <3>2
  <2>2. PICK u, v \in Nat \ {0} : /\ Survival(p)[t] = <<u, v>>
                                  /\ u * Rising(alpha + beta, t) = v * Rising(beta, t)
    BY <2>1, SurvivalIs
  <2> DEFINE c == Rising(beta, t)  d == Rising(alpha + beta, t)
  <2>3. c \in Nat \ {0} /\ d \in Nat \ {0}
    <3>1. alpha + beta \in Nat \ {0}
      OBVIOUS
    <3> QED
      BY <2>1, <3>1, RisingTyped
  <2>4. u * d = v * c
    BY <2>2
  <2> HIDE DEF c, d
  <2>5. c * v = u * d
    BY <2>2, <2>3, <2>4
  <2>6. times * u <= v <=> times * c <= d
    BY <2>2, <2>3, <2>5, SameFractions
  <2> QED
    BY <2>2, <2>6 DEF c, d
<1> QED
  BY <1>1 DEF ReachedBy

(* The named days are the first ones, in every state.                      *)
LEMMA RecoveryRight == ForecastInv => RecoveryDaysAreFirst
<1> SUFFICES ASSUME ForecastInv, NEW told \in answer, told.core # NoRecovery
             PROVE  LET p == told.posterior.b
                        survival == Survival(p)
                        limit == IF p.alpha <= ShortShape THEN MaxDays ELSE DayBudget
                        reached(times) == {t \in 1 .. limit : times * survival[t][1] <= survival[t][2]}
                        Is(g, times) == g = IF reached(times) = {} THEN TooLong ELSE Min(reached(times))
                    IN  Is(told.core.g50, 2) /\ Is(told.core.g80, 5)
  BY DEF RecoveryDaysAreFirst
<1> DEFINE p == told.posterior.b  alpha == p.alpha  beta == p.beta
           limit == IF alpha <= ShortShape THEN MaxDays ELSE DayBudget
           Reach(times) == {t \in 1 .. limit : times * Survival(p)[t][1] <= Survival(p)[t][2]}
<1>1. /\ alpha \in Nat \ {0} /\ beta \in Nat \ {0} /\ told.core = Recovery(alpha, beta)
      /\ p = [alpha |-> alpha, beta |-> beta]
  BY DEF ForecastInv, AnswerInv, CoreInv
<1> HIDE DEF p, alpha, beta
<1>2. limit \in {MaxDays, DayBudget}
  OBVIOUS
<1>3. /\ Recovery(alpha, beta).g50 = FirstDay(ReachedBy(alpha, beta, 2, limit))
      /\ Recovery(alpha, beta).g80 = FirstDay(ReachedBy(alpha, beta, 5, limit))
  BY <1>1, RecoveryFirst
<1> HIDE DEF limit
<1>4. Reach(2) = ReachedBy(alpha, beta, 2, limit) /\ Reach(5) = ReachedBy(alpha, beta, 5, limit)
  BY <1>1, <1>2, SurvivalReached
<1> HIDE DEF Reach
<1>5. told.core.g50 = FirstDay(Reach(2)) /\ told.core.g80 = FirstDay(Reach(5))
  BY <1>1, <1>3, <1>4
<1> QED
  BY <1>5 DEF FirstDay, Reach, limit, p, alpha

(* recoveryQuantiles names the first day: of every posterior the waiting   *)
(* time that is told is the first day by which a DONE has come in half,    *)
(* and in four fifths, of all cases, by the short product searched with    *)
(* doubling and halving and by the long one; no day is named only when     *)
(* there is none within the limits of the arithmetic.                      *)
THEOREM RecoveryIsFirst == ForecastSpec => []RecoveryDaysAreFirst
BY ForecastInvariant, RecoveryRight, PTL
=============================================================================
