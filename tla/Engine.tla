------------------------------- MODULE Engine -------------------------------
(***************************************************************************)
(* The prediction engine (packages/prediction): pure operators from the    *)
(* settings, the records and the answers of a goal to what the Today page  *)
(* and the evaluation are told.                                            *)
(*                                                                         *)
(* A chance is kept exactly, as a fraction of whole numbers. Where the     *)
(* code computes with floating point, the model has the value rounded down *)
(* to a part of Scale, plus an error of its own for every day (noise): any *)
(* rounding the machine may produce within the margin. A draw from the     *)
(* posterior is any pair of parts of Unit. The tolerance of 1e-12 below a  *)
(* threshold is left out.                                                  *)
(***************************************************************************)
EXTENDS Integers, Sequences, FiniteSetsExt, SequencesExt

CONSTANTS
    FallbackShape,      \* DEFAULT_CONFIG.prior
    Horizon,            \* DEFAULT_CONFIG.horizonDays
    MaxClosedHorizon,   \* MAX_CLOSED_HORIZON
    MaxClosedShape,     \* MAX_CLOSED_SHAPE
    ShortShape,         \* up to this alpha, recovery uses the short product
    DayBudget,          \* days the day-by-day product may take
    MaxDays,            \* Number.MAX_SAFE_INTEGER, as a number of days
    Scale, Margin,      \* parts of a floating-point value, NUMERICAL_MARGIN
    Unit                \* parts of a drawn chance

ASSUME EngineAssumption ==
    /\ {FallbackShape, Horizon, MaxClosedHorizon, MaxClosedShape, ShortShape,
        DayBudget, MaxDays, Scale, Unit} \subseteq Nat \ {0}
    /\ Margin \in Nat

SKIPPED == 0                       \* the amount of a DONE is positive
Numeric == {"LOW", "MID", "HIGH"}
Levels == Numeric \cup {"UNKNOWN", "NONE"}

-----------------------------------------------------------------------------
(***************************************************************************)
(* observe: a date is [y, m, d]; log maps recorded dates to amounts.       *)
(***************************************************************************)

(***************************************************************************)
(* Mutant: every fourth year is a leap year.                               *)
(***************************************************************************)
MonthDaysWithoutCenturies(y) ==
    <<31, IF y % 4 = 0 THEN 29 ELSE 28, 31, 30, 31, 30, 31, 31, 30, 31, 30, 31>>

MonthDays(y) ==
    LET leap == y % 4 = 0 /\ (y % 100 # 0 \/ y % 400 = 0)
    IN  <<31, IF leap THEN 29 ELSE 28, 31, 30, 31, 30, 31, 31, 30, 31, 30, 31>>

\* f[1] + ... + f[n]
SumTo(f, n) == LET s[k \in 0 .. n] == IF k = 0 THEN 0 ELSE s[k - 1] + f[k] IN s[n]

Ordinal(date) ==
    LET p == date.y - 1
    IN  365 * p + p \div 4 - p \div 100 + p \div 400 + date.d + SumTo(MonthDays(date.y), date.m - 1)

Status(log, date) ==
    IF date \notin DOMAIN log THEN "UNRECORDED"
    ELSE IF log[date] = SKIPPED THEN "SKIPPED" ELSE "DONE"

\* The records in the order of their days: as many come before one as its place says.
SortedDays(log) ==
    LET Place(day) == Cardinality({d \in DOMAIN log : Ordinal(d) <= Ordinal(day)})
    IN  [i \in 1 .. Cardinality(DOMAIN log) |-> CHOOSE day \in DOMAIN log : Place(day) = i]

\* A pair of records counts when their days are neighbours; a gap is unknown.
NeighbourPairs(log, days, from, to) ==
    Quantify(2 .. Len(days), LAMBDA i :
        /\ Ordinal(days[i]) = Ordinal(days[i - 1]) + 1
        /\ Status(log, days[i - 1]) = from
        /\ Status(log, days[i]) = to)

\* The window of observation ends today, or yesterday before today is recorded.
Counted(goal, log, days, status, today) ==
    LET end == Ordinal(today) - (IF status = "UNRECORDED" THEN 1 ELSE 0)
    IN  [DD |-> NeighbourPairs(log, days, "DONE", "DONE"), DS |-> NeighbourPairs(log, days, "DONE", "SKIPPED"),
         SD |-> NeighbourPairs(log, days, "SKIPPED", "DONE"),
         SS |-> NeighbourPairs(log, days, "SKIPPED", "SKIPPED"),
         done |-> goal.initial + SumTo([i \in DOMAIN days |-> log[days[i]]], Len(days)),
         status |-> status,
         observedDays |-> IF days = << >> THEN 0
                          ELSE end - Ordinal(Head(days)) + 1,
         recordedDays |-> Len(days)]

Observe(goal, log, today) ==
    Counted(goal, log, SortedDays(log), Status(log, today), today)

-----------------------------------------------------------------------------
(***************************************************************************)
(* recoveryQuantiles: the days from a skipped one to the first done one,   *)
(* with the chance of resuming integrated over its posterior.              *)
(***************************************************************************)

\* x (x + 1) ... (x + n - 1)
Rising(x, n) == LET f[i \in 0 .. n] == IF i = 0 THEN 1 ELSE f[i - 1] * (x + i - 1)
                IN  f[n]

TooLong == 0     \* RESOURCE_LIMIT instead of a day: the whole request fails

\* The first day in low .. high that is reached, by halving; asked are the days it
\* was evaluated on.
Bisect(low, high, reached) ==
    LET middle(s) == (s.low + s.high) \div 2
        half(s) == LET t == [s EXCEPT !.asked = @ \cup {middle(s)}]
                   IN  IF reached[middle(s)] THEN [t EXCEPT !.high = middle(s)]
                       ELSE [t EXCEPT !.low = middle(s) + 1]
        search[n \in 0 .. high] ==
            IF n = 0 THEN [low |-> low, high |-> high, asked |-> {}]
            ELSE LET s == search[n - 1] IN IF s.low < s.high THEN half(s) ELSE s
    IN  search[high]

(***************************************************************************)
(* Mutant: a day on which the threshold is just reached does not count.    *)
(***************************************************************************)
ShortRecoveryPastTheThreshold(alpha, beta, times) ==
    LET Reached(t) == times * Rising(beta, alpha) < Rising(beta + t, alpha)
        double[n \in 0 .. MaxDays] ==
            IF n = 0 THEN 1
            ELSE LET high == double[n - 1]
                 IN  IF Reached(high) \/ high = MaxDays THEN high
                     ELSE IF 2 * high > MaxDays THEN MaxDays ELSE 2 * high
        high == double[MaxDays]
    IN  IF Reached(high) THEN Bisect(1, high, [t \in 1 .. high |-> Reached(t)]).low ELSE TooLong

\* Survival to day t is (beta)_alpha / (beta + t)_alpha.
ShortRecovery(alpha, beta, times) ==
    LET Reached(t) == times * Rising(beta, alpha) <= Rising(beta + t, alpha)
        double[n \in 0 .. MaxDays] ==
            IF n = 0 THEN 1
            ELSE LET high == double[n - 1]
                 IN  IF Reached(high) \/ high = MaxDays THEN high
                     ELSE IF 2 * high > MaxDays THEN MaxDays ELSE 2 * high
        high == double[MaxDays]
    IN  IF Reached(high) THEN Bisect(1, high, [t \in 1 .. high |-> Reached(t)]).low ELSE TooLong

\* Survival to day t as a product of daily ratios.
LongRecovery(alpha, beta, times) ==
    LET reached == {t \in 1 .. DayBudget :
                        times * Rising(beta, t) <= Rising(alpha + beta, t)}
    IN  IF reached = {} THEN TooLong ELSE Min(reached)

Recovery(alpha, beta) ==
    LET Find(times) == IF alpha <= ShortShape THEN ShortRecovery(alpha, beta, times)
                       ELSE LongRecovery(alpha, beta, times)
    IN  [g50 |-> Find(2), g80 |-> Find(5)]

-----------------------------------------------------------------------------
(***************************************************************************)
(* completion-integrated: the day the n-th DONE falls on, when the chances *)
(* of going on (a) and of resuming (b) have Beta posteriors.  A posterior  *)
(* is [a, b], each [alpha, beta]; day 1 is tomorrow.                       *)
(***************************************************************************)

\* integerMasses: the Beta-binomial masses 0 .. n over one denominator.
IntegerMasses(n, alpha, beta) ==
    LET mass[k \in 0 .. n] ==
            IF k = 0 THEN Rising(beta, n)
            ELSE (mass[k - 1] * (n - k + 1) * (alpha + k - 1)) \div (k * (beta + n - k))
    IN  [mass |-> [k \in 0 .. n |-> mass[k]], all |-> Rising(alpha + beta, n)]

\* How often DONE is left in the trials that start from a DONE, and how often
\* it is resumed in those that start from a skipped day.
Trials(posterior, start, n, day) ==
    LET skips == IF start = "SKIPPED" THEN 1 ELSE 0
    IN  [skips |-> skips,
         leave |-> IntegerMasses(n - skips, posterior.a.beta, posterior.a.alpha),
         resume |-> IntegerMasses(day - (n - skips), posterior.b.alpha, posterior.b.beta)]

SumOver(f, S) == MapThenSumSet(LAMBDA k : f[k], S)

\* exactIntegratedReached: each number of leavings weighs the tail of resumptions.
ExactReached(t, n, day, fifths) ==
    LET tail == [k \in 0 .. n |-> SumOver(t.resume.mass,
                                          {j \in DOMAIN t.resume.mass : j >= k})]
        reached == MapThenSumSet(LAMBDA r : t.leave.mass[r] * tail[r + t.skips],
                                 DOMAIN t.leave.mass)
    IN  n = 0 \/ (day >= n /\ 10 * reached >= fifths * t.leave.all * t.resume.all)

\* integratedCompletionCdf: no leaving at all, then every further resumption
\* takes one more leaving back, against what the lower tail leaves over.
Approximation(t, n, day, noise) ==
    LET most == Max(DOMAIN t.resume.mass)
        upper(k) == t.resume.all - SumOver(t.resume.mass, 0 .. k - 1)
        none == IF t.skips = 1 THEN 0 ELSE t.leave.mass[0] * t.resume.all
        cdf == none + MapThenSumSet(LAMBDA k : t.leave.mass[k - t.skips] * upper(k),
                                    1 .. Min({n, most}))
    IN  IF day < n THEN 0
        ELSE (Scale * cdf) \div (t.leave.all * t.resume.all) + noise[day]

(***************************************************************************)
(* Mutant: the rounded value decides, however near the threshold it is.    *)
(***************************************************************************)
ReachedByTheRoundedValue(posterior, start, n, cdf, fifths) ==
    [day \in n .. Horizon |-> cdf[day] >= (fifths * Scale) \div 10]

\* Near the threshold the exact comparison decides.
ReachedDays(posterior, start, n, cdf, fifths) ==
    LET off(day) == cdf[day] - (fifths * Scale) \div 10
    IN  [day \in n .. Horizon |->
            IF off(day) \in -Margin .. Margin
            THEN ExactReached(Trials(posterior, start, n, day), n, day, fifths)
            ELSE off(day) > 0]

\* The day of a quantile, {} beyond the horizon, and the days looked at for it.
Quantile(reached, search) == IF reached[Horizon] THEN {search.low} ELSE {}
LookedAt(reached, search) == IF reached[Horizon] THEN search.asked ELSE {}

\* The search has not jumped over an earlier day.
IsFirst(n, reached, found) ==
    \A day \in found : reached[day] /\ (day > n => ~reached[day - 1])

\* The values that were computed rise with the days and are chances.
InOrder(cdf, days) ==
    /\ \A x, y \in days : x < y => cdf[x] <= cdf[y] + Margin
    /\ \A x \in days : cdf[x] \in -Margin .. Scale + Margin

\* Two values out of order, or a day that is not the first, give it up: {}.
Checked(n, cdf, half, most, p50, p80, asked) ==
    IF /\ InOrder(cdf, {Horizon} \cup p50 \cup p80 \cup {day - 1 : day \in (p50 \cup p80) \ {n}}
                       \cup asked)
       /\ IsFirst(n, half, p50) /\ IsFirst(n, most, p80)
       /\ p80 # {} => p50 # {} /\ (\A x \in p50, y \in p80 : x <= y)
    THEN {[p50 |-> p50, p80 |-> p80]} ELSE {}

Searched(n, cdf, half, most, first, second) ==
    Checked(n, cdf, half, most, Quantile(half, first), Quantile(most, second),
            LookedAt(half, first) \cup LookedAt(most, second))

Compared(n, cdf, half, most) ==
    Searched(n, cdf, half, most, Bisect(n, Horizon, half), Bisect(n, Horizon, most))

QuantilesOf(posterior, start, n, cdf) ==
    Compared(n, cdf, ReachedDays(posterior, start, n, cdf, 5), ReachedDays(posterior, start, n, cdf, 8))

\* integratedQuantiles
IntegratedQuantiles(posterior, start, n, noise) ==
    QuantilesOf(posterior, start, n,
                [day \in 0 .. Horizon |->
                    Approximation(Trials(posterior, start, n, day), n, day, noise)])

-----------------------------------------------------------------------------
(***************************************************************************)
(* completion: the same for drawn chances a and b, in parts of Unit.  Two  *)
(* pairs of arrays take turns; a cell that is not written keeps what it    *)
(* had two days ago.                                                       *)
(***************************************************************************)

\* completionPmf: what arrives on each day, in parts of Unit to that day.
CompletionPmf(start, n, a, b) ==
    LET zero == [count \in 0 .. n - 1 |-> 0]
        one == [zero EXCEPT ![0] = 1]
        deadlineOnly == n = Horizon
        Cleared(cells, cell) ==
            IF ~deadlineOnly THEN zero
            ELSE [c \in 0 .. n - 1 |-> IF c = cell THEN 0 ELSE cells[c]]
        low(day) == Max({0, n - (Horizon - day + 1)})
        high(day) == Min({n - 1, day - 1})
        Day(s, day) ==
            LET done(count) == s.done[count] * a + s.skipped[count] * b
                skip(count) == s.done[count] * (Unit - a) + s.skipped[count] * (Unit - b)
                counts == low(day) .. high(day)
                nextDone == Cleared(s.nextDone, 0)
                nextSkipped == Cleared(s.nextSkipped, day)
            IN  [done |-> [c \in 0 .. n - 1 |-> IF c - 1 \in counts THEN done(c - 1)
                                                ELSE nextDone[c]],
                 skipped |-> [c \in 0 .. n - 1 |-> IF c \in counts THEN skip(c)
                                                   ELSE nextSkipped[c]],
                 nextDone |-> s.done, nextSkipped |-> s.skipped,
                 pmf |-> Append(s.pmf, IF n - 1 \in counts THEN done(n - 1) ELSE 0)]
        begin == [done |-> IF start = "DONE" THEN one ELSE zero,
                  skipped |-> IF start = "DONE" THEN zero ELSE one,
                  nextDone |-> zero, nextSkipped |-> zero, pmf |-> << >>]
    IN  FoldLeft(Day, begin, [day \in 1 .. Horizon |-> day]).pmf

\* Unit to the n
Parts(n) == LET f[i \in 0 .. n] == IF i = 0 THEN 1 ELSE f[i - 1] * Unit IN f[n]

\* mixtureCompletionQuantiles: every draw has the same weight.
SampledQuantiles(start, n, samples) ==
    LET pmf == [i \in DOMAIN samples |->
                    CompletionPmf(start, n, samples[i].a, samples[i].b)]
        mixture(day) == MapThenSumSet(LAMBDA i : pmf[i][day] * Parts(Horizon - day),
                                      DOMAIN samples)
        cdf == [day \in 1 .. Horizon |-> MapThenSumSet(mixture, 1 .. day)]
        First(fifths) == LET reached == {day \in 1 .. Horizon :
                                10 * cdf[day] >= fifths * Len(samples) * Parts(Horizon)}
                         IN  IF reached = {} THEN {} ELSE {Min(reached)}
    IN  [p50 |-> First(5), p80 |-> First(8)]

\* completionQuantiles.  The work budget of sampling is beyond DEFAULT_CONFIG.
CompletionQuantiles(posterior, start, n, noise, samples) ==
    LET closed == IF \/ Horizon > MaxClosedHorizon
                     \/ \E s \in {posterior.a.alpha, posterior.a.beta,
                                  posterior.b.alpha, posterior.b.beta} : s > MaxClosedShape
                  THEN {} ELSE IntegratedQuantiles(posterior, start, n, noise)
        As(method, found) == [method |-> method, p50 |-> found.p50, p80 |-> found.p80]
    IN  IF n = 0 THEN As("BOUNDARY", [p50 |-> {0}, p80 |-> {0}])
        ELSE IF n > Horizon THEN As("BOUNDARY", [p50 |-> {}, p80 |-> {}])
        ELSE IF closed # {} THEN As("BETA_BINOMIAL", CHOOSE found \in closed : TRUE)
        ELSE As("POSTERIOR_SAMPLING", SampledQuantiles(start, n, samples))

-----------------------------------------------------------------------------
(***************************************************************************)
(* predictWithQuestionPrior                                                *)
(***************************************************************************)

\* QUESTION_MAPPING, and the common prior for an answer that says nothing.
Prior(answer) == CASE answer = "LOW" -> [alpha |-> 1, beta |-> 3]
                   [] answer = "MID" -> [alpha |-> 2, beta |-> 2]
                   [] answer = "HIGH" -> [alpha |-> 3, beta |-> 1]
                   [] OTHER -> [alpha |-> FallbackShape, beta |-> FallbackShape]

Posterior(answers, seen) ==
    [a |-> [alpha |-> Prior(answers.a).alpha + seen.DD, beta |-> Prior(answers.a).beta + seen.DS],
     b |-> [alpha |-> Prior(answers.b).alpha + seen.SD, beta |-> Prior(answers.b).beta + seen.SS]]

\* A numeric answer is material, and so is a pair of records; a fallback is not.
Provenance(answers, seen) ==
    LET Source(answer, pairs) ==
            CASE answer \in Numeric /\ pairs > 0 -> "QUESTION_AND_RECORDS"
              [] answer \in Numeric /\ pairs = 0 -> "QUESTION"
              [] answer \notin Numeric /\ pairs > 0 -> "RECORDS"
              [] OTHER -> "NONE"
    IN  [a |-> Source(answers.a, seen.DD + seen.DS), b |-> Source(answers.b, seen.SD + seen.SS)]

SessionsLeft(amount, session) == IF amount <= 0 THEN 0 ELSE (amount + session - 1) \div session

\* An unrecorded today is taken as done, once, in the usual amount.
Scenario(goal, seen) ==
    LET assumed == IF seen.status = "UNRECORDED" THEN goal.session ELSE 0
    IN  [start |-> IF seen.status = "SKIPPED" THEN "SKIPPED" ELSE "DONE",
         n |-> SessionsLeft(goal.total - seen.done - assumed, goal.session)]

Insufficient(provenance) ==
    IF provenance.a = "NONE" THEN "NO_DONE_ORIGIN_TRANSITION" ELSE "NO_SKIP_ORIGIN_TRANSITION"

NoDays == [method |-> "NONE", p50 |-> {}, p80 |-> {}]
NoRecovery == [g50 |-> -1, g80 |-> -1]

\* The amounts of the plan shown when there is no forecast.
Plan(goal, done) ==
    LET remaining == Max({0, goal.total - done})
        sessions == SessionsLeft(remaining, goal.session)
    IN  [remaining |-> remaining, sessions |-> sessions,
         last |-> IF sessions = 0 THEN 0 ELSE remaining - (sessions - 1) * goal.session]

Completed(goal, seen) == seen.done >= goal.total

\* A waiting time is told of a goal that is open and not yet recorded today.
Recovering(goal, seen, provenance) ==
    ~Completed(goal, seen) /\ seen.status = "UNRECORDED" /\ provenance.b # "NONE"

\* Without material for both chances there is no forecast.
Verdict(goal, seen, provenance) ==
    IF Completed(goal, seen) THEN "completed"
    ELSE IF "NONE" \notin {provenance.a, provenance.b} THEN "available" ELSE "insufficient"

Described(goal, seen, posterior, provenance, status, noise, samples) ==
    LET plan == Scenario(goal, seen)
    IN  [seen |-> seen, posterior |-> posterior, provenance |-> provenance,
         core |-> IF Recovering(goal, seen, provenance) THEN Recovery(posterior.b.alpha, posterior.b.beta)
                  ELSE NoRecovery,
         status |-> status,
         reason |-> IF status = "insufficient" THEN Insufficient(provenance) ELSE "NONE",
         completion |-> IF status # "available" THEN NoDays
                        ELSE CompletionQuantiles(posterior, plan.start, plan.n, noise, samples),
         plan |-> IF status = "insufficient" THEN {Plan(goal, seen.done)} ELSE {}]

Outlook(goal, seen, answers, noise, samples) ==
    Described(goal, seen, Posterior(answers, seen), Provenance(answers, seen),
         Verdict(goal, seen, Provenance(answers, seen)), noise, samples)

Predict(goal, log, today, answers, noise, samples) ==
    Outlook(goal, Observe(goal, log, today), answers, noise, samples)

=============================================================================
