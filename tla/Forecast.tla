------------------------------ MODULE Forecast ------------------------------
(***************************************************************************)
(* What the engine says of one goal from day to day (GET .../today with    *)
(* view=r11), the forecasts that are kept of it (makeEvaluation) and what  *)
(* the evaluation report says of them later (assessEvaluation,             *)
(* countQuantiles).  Who may keep a forecast, and until when, is in        *)
(* Evaluation; here every request is one step, and forecasts are kept      *)
(* until the end of the calendar.                                          *)
(***************************************************************************)
EXTENDS Engine, Functions

CONSTANTS
    Calendars,          \* sequences of dates, each the day after the one before
    Openings,           \* settings a goal may start with
    Totals,             \* totals a PATCH may ask for
    MaxAmount,          \* largest amount of a DONE
    Noises, Draws,      \* roundings and samples of the posterior
    ObservationDays,    \* policy.observationDays
    MaxRevisions, MaxCards

\* The calendar, said without the engine's tables.
MonthLength(y, m) ==
    CASE m = 2 -> IF (y % 4 = 0 /\ y % 100 # 0) \/ y % 400 = 0 THEN 29 ELSE 28
      [] m \in {4, 6, 9, 11} -> 30
      [] OTHER -> 31

Dates == [y : Nat \ {0}, m : 1 .. 12, d : 1 .. 31]

Follows(date, next) ==
    LET last == date.d = MonthLength(date.y, date.m)
    IN  \/ ~last /\ next = [y |-> date.y, m |-> date.m, d |-> date.d + 1]
        \/ last /\ date.m < 12 /\ next = [y |-> date.y, m |-> date.m + 1, d |-> 1]
        \/ last /\ date.m = 12 /\ next = [y |-> date.y + 1, m |-> 1, d |-> 1]

ASSUME ForecastAssumption ==
    /\ \A c \in Calendars : /\ c \in Seq(Dates) /\ Len(c) > 0
                            /\ \A i \in 1 .. Len(c) - 1 : Follows(c[i], c[i + 1])
    /\ MaxAmount \in Nat
    /\ ObservationDays \in Nat \ {0}
    /\ Noises \subseteq [0 .. Horizon -> Int]
    /\ Totals \subseteq Nat
    /\ \A g \in Openings : /\ g.initial \in Nat /\ g.total \in Nat /\ g.session \in Nat \ {0}
                           /\ \A t \in Totals \cup {g.total} : t > g.initial

VARIABLES
    calendar,   \* the dates of the behaviour
    today,      \* index of the current date
    settings,   \* [initial, total, session, revision]
    answers,    \* [a, b, revision]
    records,    \* date -> amount, for the recorded dates
    cards,      \* day -> the forecast kept on it
    answer      \* what the last GET was told, {} after any other step

forecastVars == <<calendar, today, settings, answers, records, cards, answer>>

Date(day) == calendar[day]

\* f with v at x
With(f, x, v) == [y \in DOMAIN f \cup {x} |-> IF y = x THEN v ELSE f[y]]

Now == Predict(settings, records, Date(today), answers, [d \in 0 .. Horizon |-> 0], CHOOSE s \in Draws : TRUE)

ForecastInit ==
    /\ calendar \in Calendars
    /\ today = 1
    /\ \E g \in Openings : settings = [initial |-> g.initial, total |-> g.total,
                                     session |-> g.session, revision |-> 1]
    /\ \E a, b \in Levels : answers = [a |-> a, b |-> b, revision |-> 1]
    /\ records = << >>
    /\ cards = << >>
    /\ answer = {}

NextDay ==
    /\ today < Len(calendar)
    /\ today' = today + 1
    /\ answer' = {}
    /\ UNCHANGED <<calendar, settings, answers, records, cards>>

\* PUT of a day: today and yesterday may be recorded and corrected.
Record(day, amount) ==
    /\ day \in {today - 1, today} \ {0}
    /\ records' = With(records, Date(day), amount)
    /\ answer' = {}
    /\ UNCHANGED <<calendar, today, settings, answers, cards>>

\* PATCH of the total; a revision is never given twice.
Edit(total) ==
    /\ settings.revision < MaxRevisions
    /\ total # settings.total
    /\ settings' = [settings EXCEPT !.total = total, !.revision = @ + 1]
    /\ answer' = {}
    /\ UNCHANGED <<calendar, today, answers, records, cards>>

\* PATCH of the answers
Reanswer(a, b) ==
    /\ answers.revision < MaxRevisions
    /\ <<a, b>> # <<answers.a, answers.b>>
    /\ answers' = [a |-> a, b |-> b, revision |-> answers.revision + 1]
    /\ answer' = {}
    /\ UNCHANGED <<calendar, today, settings, records, cards>>

\* GET of Today: whatever the rounding and the draws.
Ask(noise, samples) ==
    /\ LET told == Predict(settings, records, Date(today), answers, noise, samples)
           sampled == told.completion.method = "POSTERIOR_SAMPLING"
       IN  answer' = {With(told, "draws", IF sampled THEN samples ELSE << >>)}
    /\ UNCHANGED <<calendar, today, settings, answers, records, cards>>

Prefix(day) == Restrict(records, {d \in DOMAIN records : \E i \in 1 .. day : d = Date(i)})

\* makeEvaluation: today is recorded, the goal is not reached, and the first
\* forecast of a day stands.
Capture ==
    /\ today \notin DOMAIN cards
    /\ Cardinality(DOMAIN cards) < MaxCards
    /\ \E told \in {Now} :
          /\ told.seen.status # "UNRECORDED"
          /\ told.status # "completed"
          /\ LET card == [remaining |-> settings.total - told.seen.done, session |-> settings.session,
                          start |-> told.seen.status, posterior |-> told.posterior,
                          revision |-> settings.revision, answerRevision |-> answers.revision,
                          prefix |-> Prefix(today), method |-> told.completion.method,
                          p50 |-> told.completion.p50, p80 |-> told.completion.p80]
             IN  cards' = With(cards, today, card)
    /\ answer' = {}
    /\ UNCHANGED <<calendar, today, settings, answers, records>>

ForecastNext ==
    \/ NextDay
    \/ \E day \in 1 .. Len(calendar), amount \in SKIPPED .. MaxAmount : Record(day, amount)
    \/ \E total \in Totals : Edit(total)
    \/ \E a, b \in Levels : Reanswer(a, b)
    \/ \E noise \in Noises, samples \in Draws : Ask(noise, samples)
    \/ Capture

ForecastSpec == ForecastInit /\ [][ForecastNext]_forecastVars

-----------------------------------------------------------------------------
(***************************************************************************)
(* The report.                                                             *)
(***************************************************************************)

Window(anchor, q) == anchor + 1 .. anchor + q

\* What was recorded on each day of a window.
Gains(anchor, q) ==
    [i \in 1 .. q |-> IF Date(anchor + i) \in DOMAIN records THEN records[Date(anchor + i)] ELSE 0]

(***************************************************************************)
(* Mutant: a window is judged while its last day may still be corrected.   *)
(***************************************************************************)
QuantileStateADayEarly(anchor, quantile) ==
    LET card == cards[anchor]
        q == Max(card[quantile])
        known == {d \in Window(anchor, q) : Date(d) \in DOMAIN records}
        amount == SumTo(Gains(anchor, q), q)
    IN  IF <<settings.revision, answers.revision>> # <<card.revision, card.answerRevision>>
        THEN "CONTEXT_CHANGED"
        ELSE IF Prefix(anchor) # card.prefix THEN "INPUT_CORRECTED"
        ELSE IF card[quantile] = {} THEN "NULL"
        ELSE IF q > ObservationDays THEN "OUTSIDE_HORIZON"
        ELSE IF today < anchor + q + 1 THEN "PENDING"
        ELSE IF amount >= card.remaining THEN "REACHED"
        ELSE IF known # Window(anchor, q) THEN "UNKNOWN" ELSE "NOT_REACHED"

\* quantileState: yesterday may still be corrected, so that a window is judged
\* two days after its last day.
QuantileState(anchor, quantile) ==
    LET card == cards[anchor]
        q == Max(card[quantile])
        known == {d \in Window(anchor, q) : Date(d) \in DOMAIN records}
        amount == SumTo(Gains(anchor, q), q)
    IN  IF <<settings.revision, answers.revision>> # <<card.revision, card.answerRevision>>
        THEN "CONTEXT_CHANGED"
        ELSE IF Prefix(anchor) # card.prefix THEN "INPUT_CORRECTED"
        ELSE IF card[quantile] = {} THEN "NULL"
        ELSE IF q > ObservationDays THEN "OUTSIDE_HORIZON"
        ELSE IF today < anchor + q + 2 THEN "PENDING"
        ELSE IF amount >= card.remaining THEN "REACHED"
        ELSE IF known # Window(anchor, q) THEN "UNKNOWN" ELSE "NOT_REACHED"

(***************************************************************************)
(* Mutant: the unknown ones count against it in both bounds.               *)
(***************************************************************************)
CoverageAgainstTheUnknown(quantile) ==
    LET In(state) == Quantify(DOMAIN cards, LAMBDA d : QuantileState(d, quantile) = state)
    IN  [mature |-> In("REACHED") + In("NOT_REACHED") + In("UNKNOWN"),
         lower |-> In("REACHED"), upper |-> In("REACHED")]

\* countQuantiles: the share of arrivals, with the unknown ones against and for it.
Coverage(quantile) ==
    LET In(state) == Quantify(DOMAIN cards, LAMBDA d : QuantileState(d, quantile) = state)
    IN  [mature |-> In("REACHED") + In("NOT_REACHED") + In("UNKNOWN"),
         lower |-> In("REACHED"), upper |-> In("REACHED") + In("UNKNOWN")]

-----------------------------------------------------------------------------
(***************************************************************************)
(* Definitions to compare with: every path of days there may be.           *)
(***************************************************************************)

Origin(path, start, day) == IF day = 1 THEN start ELSE path[day - 1]

Steps(path, start, from, to) ==
    Quantify(DOMAIN path, LAMBDA day : Origin(path, start, day) = from /\ path[day] = to)

\* The weight of a path of d days when each chance is learned on the way: every
\* step is drawn from its urn. All paths of d days share one denominator.
UrnWeight(posterior, start, path) ==
    LET d == Len(path)
        dd == Steps(path, start, "DONE", "DONE")
        ds == Steps(path, start, "DONE", "SKIPPED")
        sd == Steps(path, start, "SKIPPED", "DONE")
        ss == Steps(path, start, "SKIPPED", "SKIPPED")
        Urn(p, up, down) == Rising(p.alpha, up) * Rising(p.beta, down)
                            * Rising(p.alpha + p.beta + up + down, d - up - down)
    IN  Urn(posterior.a, dd, ds) * Urn(posterior.b, sd, ss)

\* The weight of a path under chances that are given.
DrawWeight(draw, start, path) ==
    LET Chance(day) ==
            LET up == IF Origin(path, start, day) = "DONE" THEN draw.a ELSE draw.b
            IN  IF path[day] = "DONE" THEN up ELSE Unit - up
        w[day \in 0 .. Len(path)] == IF day = 0 THEN 1 ELSE w[day - 1] * Chance(day)
    IN  w[Len(path)]

\* Whether the n-th DONE has come by day d in so many tenths of all weight.
ArrivedBy(Weight(_), n, d, tenths) ==
    LET paths == [1 .. d -> {"DONE", "SKIPPED"}]
        arrived == {p \in paths : Quantify(1 .. d, LAMBDA day : p[day] = "DONE") >= n}
    IN  10 * MapThenSumSet(Weight, arrived) >= tenths * MapThenSumSet(Weight, paths)

FirstDays(Weight(_), n) ==
    LET First(tenths) == {d \in 0 .. Horizon :
            /\ ArrivedBy(Weight, n, d, tenths)
            /\ \A e \in 0 .. d - 1 : ~ArrivedBy(Weight, n, e, tenths)}
    IN  [p50 |-> First(5), p80 |-> First(8)]

\* The chance of no DONE in t days, in lowest terms.
Gcd(x, y) == LET g[b \in 0 .. y] == [a \in Nat |-> IF b = 0 THEN a ELSE g[a % b][b]] IN g[y][x]

Survival(p) ==
    [t \in 0 .. Max({MaxDays, DayBudget}) |->
        LET s[k \in 0 .. t] == IF k = 0 THEN <<1, 1>>
                ELSE LET before == s[k - 1]
                         n == before[1] * (p.beta + k - 1)
                         d == before[2] * (p.alpha + p.beta + k - 1)
                     IN  <<n \div Gcd(n, d), d \div Gcd(n, d)>>
        IN  s[t]]

-----------------------------------------------------------------------------
(***************************************************************************)
(* Properties                                                              *)
(***************************************************************************)

\* What is counted of the records is what the calendar says: a pair for every two
\* recorded days that follow each other, over months, leap days and years, and the
\* window from the first record to the last day that is over or recorded.
CountsFollowTheCalendar ==
    \A told \in answer :
        LET Is(day, status) == Status(records, Date(day)) = status
            Pairs(from, to) == Quantify(1 .. today - 1, LAMBDA d : Is(d, from) /\ Is(d + 1, to))
            recorded == {d \in 1 .. today : ~Is(d, "UNRECORDED")}
        IN  /\ told.seen.DD = Pairs("DONE", "DONE") /\ told.seen.DS = Pairs("DONE", "SKIPPED")
            /\ told.seen.SD = Pairs("SKIPPED", "DONE") /\ told.seen.SS = Pairs("SKIPPED", "SKIPPED")
            /\ recorded # {} => told.seen.observedDays = today - Min(recorded)
                                    + (IF today \in recorded THEN 1 ELSE 0)

\* Half and four fifths of all futures: the days the engine names are the first on
\* which so many have arrived, counted path by path, whatever the rounding of the
\* closed form and whatever was drawn; what is kept of a forecast suffices to see it.
CompletionDaysAreFirst ==
    LET Right(posterior, start, n, completion, draws) ==
            LET Weight(path) ==
                    IF completion.method = "POSTERIOR_SAMPLING"
                    THEN MapThenSumSet(LAMBDA i : DrawWeight(draws[i], start, path),
                                       DOMAIN draws)
                    ELSE UrnWeight(posterior, start, path)
                first == FirstDays(Weight, n)
            IN  completion.p50 = first.p50 /\ completion.p80 = first.p80
    IN  /\ \A told \in answer : told.status = "available" =>
               LET plan == Scenario(settings, told.seen)
               IN  Right(told.posterior, plan.start, plan.n, told.completion, told.draws)
        /\ \A day \in DOMAIN cards \cap {today} : cards[day].method = "BETA_BINOMIAL" =>
               Right(cards[day].posterior, cards[day].start,
                     SessionsLeft(cards[day].remaining, cards[day].session), cards[day], << >>)

\* The waiting time after a skipped day: the first day by which a DONE has come in
\* half, and in four fifths, of all cases; when no day is named, none within the
\* limits of the arithmetic is.
RecoveryDaysAreFirst ==
    \A told \in answer : told.core # NoRecovery =>
        LET p == told.posterior.b
            survival == Survival(p)
            limit == IF p.alpha <= ShortShape THEN MaxDays ELSE DayBudget
            reached(times) == {t \in 1 .. limit : times * survival[t][1] <= survival[t][2]}
            Is(g, times) == g = IF reached(times) = {} THEN TooLong ELSE Min(reached(times))
        IN  Is(told.core.g50, 2) /\ Is(told.core.g80, 5)

Judged == {"REACHED", "NOT_REACHED", "UNKNOWN"}

\* What a report has said of a forecast that was due stands: no record that may
\* still be made or corrected changes it. Only a change of the settings or the
\* answers takes it out, and what was taken out never comes back.
VerdictsStand ==
    [][\A day \in DOMAIN cards, quantile \in {"p50", "p80"} :
          LET before == QuantileState(day, quantile)
              after == QuantileState(day, quantile)'
          IN  /\ before \in Judged => after \in {before, "CONTEXT_CHANGED"}
              /\ before = "CONTEXT_CHANGED" => after = before
              /\ before = "INPUT_CORRECTED" /\ today > day + 1 =>
                     after \in {before, "CONTEXT_CHANGED"}]_forecastVars

\* The bounds of the report hold the truth: however the days without a record are
\* filled in, the share of forecasts that arrived lies between lower and upper.
CoverageBracketsTheTruth ==
    \A quantile \in {"p50", "p80"} :
        LET judged == {d \in DOMAIN cards : QuantileState(d, quantile) \in Judged}
            bounds == Coverage(quantile)
            Length(d) == Max(cards[d][quantile])
            gaps == {i \in UNION {Window(d, Length(d)) : d \in judged} : Date(i) \notin DOMAIN records}
            Filled(d, fill) == [i \in 1 .. Length(d) |->
                                   IF d + i \in gaps THEN fill[d + i] ELSE records[Date(d + i)]]
            Arrived(d, fill) == SumTo(Filled(d, fill), Length(d)) >= cards[d].remaining
        IN  judged # {} => \A fill \in [gaps -> SKIPPED .. MaxAmount] :
                LET arrived == Quantify(judged, LAMBDA d : Arrived(d, fill))
                IN  bounds.lower * Cardinality(judged) <= arrived * bounds.mature
                    /\ arrived * bounds.mature <= bounds.upper * Cardinality(judged)

=============================================================================
